--------------------------- MODULE OnScreenProofs ---------------------------
(***************************************************************************)
(* Proofs about OnScreen, for any bounds, objects, bindings and themes:    *)
(* one part of the invariant for each part proved about.                   *)
(***************************************************************************)
EXTENDS OnScreen, PaletteProofs, FiniteSetTheorems, SequenceTheorems, NaturalsInduction, WellFoundedInduction, TLAPS

----------------------------- (* Dialogs *) ---------------------------------
USE OnScreenAssumption
  DEF Prompts!ObjectAssumption, Prompts!VerbAssumption, Prompts!DialogBoundAssumption

(* A bag with one message more, or one less.                                *)
LEMMA PutInBag ==
  ASSUME NEW B, Prompts!IsABag(B), NEW m
  PROVE  LET C == Prompts!Bagged(B, m) IN
         /\ Prompts!IsABag(C) /\ Prompts!BagToSet(C) = Prompts!BagToSet(B) \cup {m}
         /\ \A n \in Prompts!BagToSet(B) : n # m => C[n] = B[n]
         /\ m \notin Prompts!BagToSet(B) => C[m] = 1
<1> DEFINE C == Prompts!Bagged(B, m)
<1>1. \A e \in DOMAIN B : B[e] \in Nat /\ B[e] > 0
  BY DEF Prompts!IsABag
<1>2. C = [e \in DOMAIN B \cup {m} |->
             (IF e \in DOMAIN B THEN B[e] ELSE 0) + (IF e \in {m} THEN 1 ELSE 0)]
  BY DEF Prompts!Bagged, Prompts!SetToBag, Prompts!(+)
<1> HIDE DEF C
<1>3. DOMAIN C = DOMAIN B \cup {m}
  BY <1>2
<1>4. \A e \in DOMAIN B : e # m => C[e] = B[e]
  BY <1>1, <1>2
<1>5. m \notin DOMAIN B => C[m] = 1
  BY <1>2
<1>6. C \in [DOMAIN C -> {n \in Nat : n > 0}]
  BY <1>1, <1>2, <1>3
<1> QED BY <1>3, <1>4, <1>5, <1>6 DEF C, Prompts!IsABag, Prompts!BagToSet

LEMMA TakeFromBag ==
  ASSUME NEW B, Prompts!IsABag(B), NEW m \in Prompts!BagToSet(B)
  PROVE  LET C == Prompts!Unbagged(B, m) IN
         /\ Prompts!IsABag(C) /\ Prompts!BagToSet(C) \subseteq Prompts!BagToSet(B) /\ Prompts!BagToSet(B) \ {m} \subseteq Prompts!BagToSet(C)
         /\ \A n \in Prompts!BagToSet(B) \ {m} : C[n] = B[n]
         /\ B[m] = 1 => Prompts!BagToSet(C) = Prompts!BagToSet(B) \ {m}
<1> DEFINE C == Prompts!Unbagged(B, m)
           D == [e \in DOMAIN B |-> IF e \in {m} THEN B[e] - 1 ELSE B[e]]
<1>1. \A e \in DOMAIN B : B[e] \in Nat /\ B[e] > 0
  BY DEF Prompts!IsABag
<1>2. C = [e \in {d \in DOMAIN B : D[d] > 0} |-> D[e]]
  <2>1. D = [e \in DOMAIN B |-> IF e \in DOMAIN Prompts!SetToBag({m}) THEN B[e] - Prompts!SetToBag({m})[e] ELSE B[e]]
    BY DEF Prompts!SetToBag
  <2>2. DOMAIN D = DOMAIN B
    OBVIOUS
  <2> HIDE DEF D
  <2> QED BY <2>1, <2>2 DEF Prompts!Unbagged, Prompts!(-)
<1>3. /\ \A e \in DOMAIN B : e # m => D[e] = B[e]
      /\ m \in DOMAIN B /\ D[m] = B[m] - 1
  BY DEF Prompts!BagToSet
<1> HIDE DEF C, D
<1>4. DOMAIN C = {d \in DOMAIN B : D[d] > 0} /\ \A e \in DOMAIN C : C[e] = D[e]
  BY <1>2
<1>5. \A e \in DOMAIN C : C[e] \in Nat /\ C[e] > 0
  BY <1>1, <1>3, <1>4
<1>6. C \in [DOMAIN C -> {n \in Nat : n > 0}]
  BY <1>2, <1>4, <1>5
<1>7. DOMAIN B \ {m} \subseteq DOMAIN C /\ \A n \in DOMAIN B \ {m} : C[n] = B[n]
  BY <1>1, <1>3, <1>4
<1>8. B[m] = 1 => m \notin DOMAIN C
  BY <1>3, <1>4
<1> QED BY <1>4, <1>6, <1>7, <1>8 DEF C, Prompts!IsABag, Prompts!BagToSet

(* What a message carries.                                                  *)
LEMMA PromptShape ==
  ASSUME NEW m \in Prompts!Message
  PROVE  /\ m.type \in Prompts!Answers \cup {"row", "confirmed", "cancelled", "port", "pickerCancelled"}
         /\ m.type = "row" => m.act \in Verb /\ m.obj \in Prompts!Object
         /\ m.type = "confirmed" => m.kind \in Prompts!ModalKind /\ m.named \in Prompts!Object
         /\ m.type = "port" => m.named \in Prompts!Object
         /\ m.type \in Prompts!Answers => m.gen \in Nat /\ m.obj \in Prompts!Object
BY DEF Prompts!Message, Prompts!RowActionMsg, Prompts!ConfirmedMsg, Prompts!CancelledMsg, Prompts!PickerCancelledMsg, Prompts!PortSelectedMsg,
       Prompts!Answers, Prompts!Ask, Prompts!Dialog, Prompts!ModalKind

LEMMA KeysAreMessages ==
  /\ \A v \in Verb, o \in Prompts!Object :
       /\ Prompts!RowActionMsg(v, o) \in Prompts!Message /\ Prompts!RowActionMsg(v, o).type = "row"
       /\ Prompts!RowActionMsg(v, o).act = v /\ Prompts!RowActionMsg(v, o).obj = o
  /\ \A k \in Prompts!ModalKind, o \in Prompts!Object :
       /\ Prompts!ConfirmedMsg(k, o) \in Prompts!Message /\ Prompts!ConfirmedMsg(k, o).type = "confirmed"
       /\ Prompts!ConfirmedMsg(k, o).kind = k /\ Prompts!ConfirmedMsg(k, o).named = o
  /\ \A o \in Prompts!Object :
       /\ Prompts!PortSelectedMsg(o) \in Prompts!Message /\ Prompts!PortSelectedMsg(o).type = "port"
       /\ Prompts!PortSelectedMsg(o).named = o
  /\ Prompts!CancelledMsg \in Prompts!Message /\ Prompts!CancelledMsg.type = "cancelled"
  /\ Prompts!PickerCancelledMsg \in Prompts!Message /\ Prompts!PickerCancelledMsg.type = "pickerCancelled"
<1>1. \A v \in Verb, o \in Prompts!Object : [act |-> v, obj |-> o] \in Prompts!Ask
  BY DEF Prompts!Ask
<1>2. \A k \in Prompts!ModalKind, o \in Prompts!Object : [kind |-> k, obj |-> o] \in Prompts!Dialog
  BY DEF Prompts!Dialog
<1>3. ASSUME NEW v \in Verb, NEW o \in Prompts!Object PROVE Prompts!RowActionMsg(v, o) \in Prompts!Message
  <2>1. Prompts!RowActionMsg(v, o) = Prompts!RowActionMsg([act |-> v, obj |-> o].act, [act |-> v, obj |-> o].obj)
    OBVIOUS
  <2> QED BY <1>1, <2>1, Zenon DEF Prompts!Message
<1>4. ASSUME NEW k \in Prompts!ModalKind, NEW o \in Prompts!Object PROVE Prompts!ConfirmedMsg(k, o) \in Prompts!Message
  <2>1. Prompts!ConfirmedMsg(k, o) = Prompts!ConfirmedMsg([kind |-> k, obj |-> o].kind, [kind |-> k, obj |-> o].obj)
    OBVIOUS
  <2> QED BY <1>2, <2>1, Zenon DEF Prompts!Message
<1>5. /\ \A o \in Prompts!Object : Prompts!PortSelectedMsg(o) \in Prompts!Message
      /\ Prompts!CancelledMsg \in Prompts!Message /\ Prompts!PickerCancelledMsg \in Prompts!Message
  BY Zenon DEF Prompts!Message
<1> QED BY <1>3, <1>4, <1>5 DEF Prompts!RowActionMsg, Prompts!ConfirmedMsg, Prompts!PortSelectedMsg, Prompts!CancelledMsg, Prompts!PickerCancelledMsg

LEMMA AnswersAreMessages ==
  ASSUME NEW g \in Nat, NEW o \in Prompts!Object
  PROVE  /\ Prompts!ServiceResolvedMsg(g, o) \in Prompts!Message /\ Prompts!PortsLoadedMsg(g, o) \in Prompts!Message
         /\ Prompts!ServiceResolvedMsg(g, o).type \in Prompts!Answers /\ Prompts!PortsLoadedMsg(g, o).type \in Prompts!Answers
         /\ Prompts!ServiceResolvedMsg(g, o).gen = g /\ Prompts!PortsLoadedMsg(g, o).gen = g
BY DEF Prompts!Message, Prompts!Answers, Prompts!ServiceResolvedMsg, Prompts!PortsLoadedMsg

(* The slot a kind of dialog uses.                                          *)
LEMMA Slots ==
  /\ Prompts!Slot("delete") = "deleteRef" /\ Prompts!Slot("drain") = "drainRef"
  /\ \A k : k \notin {"delete", "drain"} => Prompts!Slot(k) = "mutateRef"
BY DEF Prompts!Slot, Prompts!SlotsApart

(* What Run does is done to what the slot of that kind holds.               *)
LEMMA Runs ==
  ASSUME Prompts!Inv, NEW k \in Prompts!ModalKind, NEW o \in Prompts!Object, Prompts!Run(k, o) \/ UNCHANGED wrote,
         UNCHANGED asks, outran => outran',
         ~outran' /\ k \in {"delete", "drain", "forward", "local"} => stash[Prompts!Slot(k)] = o
  PROVE  /\ wrote' \in Prompts!Write \cup {Prompts!Undone}
         /\ Prompts!OnlyWhatWasAskedFor' /\ Prompts!ActsOnWhatWasNamed'
<1>1. CASE UNCHANGED wrote
  BY <1>1 DEF Prompts!Inv, Prompts!TypeOK, Prompts!OnlyWhatWasAskedFor, Prompts!ActsOnWhatWasNamed, Prompts!Acts
<1>2. CASE Prompts!Run(k, o) /\ stash[Prompts!Slot(k)] # Prompts!None
  <2>1. wrote' = [act |-> k, obj |-> stash[Prompts!Slot(k)], named |-> o]
    BY <1>2 DEF Prompts!Run
  <2>2. stash[Prompts!Slot(k)] \in Prompts!Object
    BY <1>2 DEF Prompts!Inv, Prompts!TypeOK, Prompts!Slot, Prompts!SlotsApart
  <2>3. wrote' \in Prompts!Write
    BY <2>1, <2>2 DEF Prompts!Write
  <2>4. Prompts!OnlyWhatWasAskedFor'
    BY <2>1, <1>2, Slots DEF Prompts!Inv, Prompts!Sources, Prompts!OnlyWhatWasAskedFor, Prompts!Asked
  <2> QED BY <2>1, <2>3, <2>4 DEF Prompts!ActsOnWhatWasNamed, Prompts!Acts
<1>3. CASE Prompts!Run(k, o) /\ stash[Prompts!Slot(k)] = Prompts!None
  BY <1>1, <1>3 DEF Prompts!Run
<1> QED BY <1>1, <1>2, <1>3

(* A key is on its way.                                                     *)
LEMMA PromptKeyKeeps ==
  ASSUME Prompts!Inv, NEW m \in Prompts!Message, m.type \notin Prompts!Answers, Prompts!Key(m),
         UNCHANGED <<modal, portPicker, pfPorts, pfPort, stash, pfGen, wrote>>,
         asks \subseteq asks', asks' \subseteq Prompts!Ask, asked' \in 0 .. MaxAsks,
         m.type = "row" => [act |-> m.act, obj |-> m.obj] \in asks' /\ modal = Prompts!Hidden /\ ~portPicker,
         m.type = "confirmed" => modal = [kind |-> m.kind, obj |-> m.named] /\ ~portPicker,
         m.type = "port" => portPicker /\ m.named = pfPorts
  PROVE  Prompts!Inv'
<1> USE DEF Prompts!Inv
<1>1. /\ Prompts!IsABag(prompts') /\ Prompts!BagToSet(prompts') = Prompts!BagToSet(prompts) \cup {m}
      /\ \A n \in Prompts!BagToSet(prompts) : n # m => prompts'[n] = prompts[n]
      /\ m \notin Prompts!BagToSet(prompts) => prompts'[m] = 1
      /\ outran' = (outran \/ Prompts!KeyInFlight)
  BY PutInBag DEF Prompts!Key, Prompts!Overtake, Prompts!TypeOK
<1>2. Prompts!TypeOK'
  BY <1>1 DEF Prompts!TypeOK, Prompts!KeyInFlight
<1>3. Prompts!Sources' /\ Prompts!SlotIsNamed'
  BY <1>1 DEF Prompts!Sources, Prompts!SlotIsNamed, Prompts!Asked
<1>4. Prompts!OneAnswer'
  BY <1>1 DEF Prompts!OneAnswer
<1>5. Prompts!OneKey'
  BY <1>1 DEF Prompts!OneKey, Prompts!KeyInFlight
<1>6. Prompts!OnlyWhatWasAskedFor' /\ Prompts!ActsOnWhatWasNamed'
  BY <1>1 DEF Prompts!OnlyWhatWasAskedFor, Prompts!ActsOnWhatWasNamed, Prompts!Acts
<1> QED BY <1>2, <1>3, <1>4, <1>5, <1>6

LEMMA AskForKeeps ==
  ASSUME Prompts!Inv, NEW w \in Verb, NEW o \in Prompts!Object, Prompts!AskFor(w, o) PROVE Prompts!Inv'
<1>1. /\ ~portPicker /\ modal = Prompts!Hidden /\ Prompts!Key(Prompts!RowActionMsg(w, o))
      /\ asks' = asks \cup {[act |-> w, obj |-> o]} /\ asked < MaxAsks /\ asked' = asked + 1
      /\ UNCHANGED <<modal, portPicker, pfPorts, pfPort, stash, pfGen, wrote>>
  BY DEF Prompts!AskFor
<1>2. asks' \subseteq Prompts!Ask /\ asked' \in 0 .. MaxAsks
  BY <1>1 DEF Prompts!Inv, Prompts!TypeOK, Prompts!Ask
<1>3. /\ Prompts!RowActionMsg(w, o) \in Prompts!Message /\ Prompts!RowActionMsg(w, o).type = "row"
      /\ Prompts!RowActionMsg(w, o).act = w /\ Prompts!RowActionMsg(w, o).obj = o
  BY KeysAreMessages
<1>4. PICK m \in Prompts!Message : m = Prompts!RowActionMsg(w, o)
  BY <1>3
<1>5. m.type \notin Prompts!Answers
  BY <1>3, <1>4 DEF Prompts!Answers
<1> QED BY <1>1, <1>2, <1>3, <1>4, <1>5, PromptKeyKeeps

LEMMA AnswerKeeps == ASSUME Prompts!Inv, Prompts!Answer \/ Prompts!PickPort PROVE Prompts!Inv'
<1> USE DEF Prompts!Inv
<1>1. UNCHANGED <<modal, portPicker, pfPorts, pfPort, stash, pfGen, wrote, asks, asked>>
  BY DEF Prompts!Answer, Prompts!PickPort, Prompts!history
<1>2. CASE Prompts!Answer
  <2>1. modal.kind \in Prompts!ModalKind /\ modal.obj \in Prompts!Object /\ modal = [kind |-> modal.kind, obj |-> modal.obj]
        /\ ~portPicker
    BY <1>2 DEF Prompts!Answer, Prompts!TypeOK, Prompts!Dialog
  <2>2. \/ Prompts!Key(Prompts!ConfirmedMsg(modal.kind, modal.obj)) \/ Prompts!Key(Prompts!CancelledMsg)
    BY <1>2 DEF Prompts!Answer
  <2>3. /\ Prompts!ConfirmedMsg(modal.kind, modal.obj) \in Prompts!Message
        /\ Prompts!ConfirmedMsg(modal.kind, modal.obj).type = "confirmed"
        /\ Prompts!ConfirmedMsg(modal.kind, modal.obj).kind = modal.kind
        /\ Prompts!ConfirmedMsg(modal.kind, modal.obj).named = modal.obj
        /\ Prompts!CancelledMsg \in Prompts!Message /\ Prompts!CancelledMsg.type = "cancelled"
    BY <2>1, KeysAreMessages
  <2>4. PICK m \in Prompts!Message : Prompts!Key(m) /\ m \in {Prompts!ConfirmedMsg(modal.kind, modal.obj), Prompts!CancelledMsg}
    BY <2>2, <2>3
  <2>5. m.type \in {"confirmed", "cancelled"}
        /\ (m.type = "confirmed" => m.kind = modal.kind /\ m.named = modal.obj)
    BY <2>3, <2>4
  <2> QED BY <1>1, <2>1, <2>4, <2>5, PromptKeyKeeps DEF Prompts!Answers, Prompts!TypeOK
<1>3. CASE Prompts!PickPort
  <2>1. portPicker /\ pfPorts \in Prompts!Object
    BY <1>3 DEF Prompts!PickPort, Prompts!TypeOK, Prompts!Sources
  <2>2. PICK m \in Prompts!Message : Prompts!Key(m) /\ m \in {Prompts!PortSelectedMsg(pfPorts), Prompts!PickerCancelledMsg}
    BY <1>3, <2>1, KeysAreMessages DEF Prompts!PickPort
  <2>3. m.type \in {"port", "pickerCancelled"} /\ (m.type = "port" => m.named = pfPorts)
    BY <2>1, <2>2, KeysAreMessages
  <2> QED BY <1>1, <2>1, <2>2, <2>3, PromptKeyKeeps DEF Prompts!Answers, Prompts!TypeOK
<1> QED BY <1>2, <1>3

(* What the reader does at once, without a message.                         *)
LEMMA AtOnceKeeps == ASSUME Prompts!Inv, Prompts!Quit \/ Prompts!ForwardFree \/ Prompts!PromptLocal PROVE Prompts!Inv'
<1> USE DEF Prompts!Inv
<1>1. /\ UNCHANGED <<pfPorts, stash, pfGen, prompts, asks, asked>>
      /\ outran' = (outran \/ Prompts!KeyInFlight)
      /\ portPicker' \in BOOLEAN /\ (portPicker' => portPicker)
  <2>1. portPicker \in BOOLEAN
    BY DEF Prompts!TypeOK
  <2>2. Prompts!Quit => portPicker' = portPicker
    BY DEF Prompts!Quit
  <2>3. Prompts!ForwardFree \/ Prompts!PromptLocal => portPicker' = FALSE
    BY DEF Prompts!ForwardFree, Prompts!PromptLocal
  <2>4. UNCHANGED <<pfPorts, stash, pfGen, prompts, asks, asked>> /\ outran' = (outran \/ Prompts!KeyInFlight)
    BY DEF Prompts!Quit, Prompts!ForwardFree, Prompts!PromptLocal, Prompts!Overtake, Prompts!history
  <2>5. portPicker' \in BOOLEAN /\ (portPicker' => portPicker)
    <3>1. portPicker' = portPicker \/ portPicker' = FALSE
      BY <2>2, <2>3, Zenon
    <3>2. CASE portPicker' = portPicker
      BY <2>1, <3>2
    <3>3. CASE portPicker' = FALSE
      BY <3>3
    <3> QED BY <3>1, <3>2, <3>3
  <2> QED BY <2>4, <2>5, Zenon
<1>2. ~outran' => \A m \in Prompts!BagToSet(prompts') : m.type \in Prompts!Answers
  BY <1>1 DEF Prompts!KeyInFlight
<1>3. Prompts!OneKey'
  BY <1>2 DEF Prompts!OneKey
<1>4. Prompts!Sources'
  BY <1>1 DEF Prompts!Sources, Prompts!Asked
<1>5. CASE Prompts!Quit
  <2>1. modal' = Prompts!Hidden /\ UNCHANGED <<portPicker, pfPort, wrote>>
    BY <1>5 DEF Prompts!Quit
  <2>2. Prompts!Hidden.kind = Prompts!None
    BY DEF Prompts!Hidden
  <2>3. Prompts!TypeOK'
    BY <1>1, <2>1 DEF Prompts!TypeOK
  <2>4. Prompts!SlotIsNamed' /\ Prompts!OneAnswer'
    BY <1>1, <2>1, <2>2 DEF Prompts!SlotIsNamed, Prompts!OneAnswer, Prompts!Forwarding, Prompts!None
  <2>5. Prompts!OnlyWhatWasAskedFor' /\ Prompts!ActsOnWhatWasNamed'
    BY <1>1, <2>1 DEF Prompts!OnlyWhatWasAskedFor, Prompts!ActsOnWhatWasNamed, Prompts!Acts
  <2> QED BY <1>3, <1>4, <2>3, <2>4, <2>5
<1>6. CASE Prompts!ForwardFree
  <2>1. portPicker /\ ~portPicker' /\ Prompts!Run("forward", pfPorts) /\ UNCHANGED <<modal, pfPort>>
    BY <1>6 DEF Prompts!ForwardFree
  <2>2. pfPorts \in Prompts!Object
    BY <2>1 DEF Prompts!TypeOK, Prompts!Sources
  <2>3. ~outran' => stash[Prompts!Slot("forward")] = pfPorts
    BY <1>1, <2>1, Slots DEF Prompts!SlotIsNamed
  <2>4. /\ wrote' \in Prompts!Write \cup {Prompts!Undone}
        /\ Prompts!OnlyWhatWasAskedFor' /\ Prompts!ActsOnWhatWasNamed'
    BY <1>1, <2>1, <2>2, <2>3, Runs DEF Prompts!ModalKind
  <2>5. Prompts!TypeOK'
    BY <1>1, <2>1, <2>4 DEF Prompts!TypeOK
  <2>6. Prompts!SlotIsNamed' /\ Prompts!OneAnswer'
    BY <1>1, <2>1 DEF Prompts!SlotIsNamed, Prompts!OneAnswer
  <2> QED BY <1>3, <1>4, <2>4, <2>5, <2>6
<1>7. CASE Prompts!PromptLocal
  <2>1. portPicker /\ ~portPicker' /\ pfPort' = pfPorts /\ modal' = [kind |-> "local", obj |-> pfPorts]
        /\ UNCHANGED wrote
    BY <1>7 DEF Prompts!PromptLocal, Prompts!Show
  <2>2. pfPorts \in Prompts!Object /\ stash["mutateRef"] # Prompts!None
    BY <2>1 DEF Prompts!TypeOK, Prompts!Sources
  <2>3. modal' \in Prompts!Dialog /\ Prompts!Slot(modal'.kind) = "mutateRef"
    BY <2>1, <2>2, Slots DEF Prompts!Dialog, Prompts!ModalKind
  <2>4. Prompts!TypeOK'
    BY <1>1, <2>1, <2>2, <2>3 DEF Prompts!TypeOK, Prompts!Slot, Prompts!SlotsApart
  <2>5. Prompts!SlotIsNamed' /\ Prompts!OneAnswer'
    BY <1>1, <2>1 DEF Prompts!SlotIsNamed, Prompts!OneAnswer, Prompts!Forwarding
  <2>6. Prompts!OnlyWhatWasAskedFor' /\ Prompts!ActsOnWhatWasNamed'
    BY <1>1, <2>1 DEF Prompts!OnlyWhatWasAskedFor, Prompts!ActsOnWhatWasNamed, Prompts!Acts
  <2> QED BY <1>3, <1>4, <2>4, <2>5, <2>6
<1> QED BY <1>5, <1>6, <1>7

(* A key's message is handled: if nothing overtook it, no other is left.    *)
LEMMA KeyIsTaken ==
  ASSUME Prompts!Inv, NEW m \in Prompts!BagToSet(prompts), m.type \notin Prompts!Answers, Prompts!Take(m), UNCHANGED outran
  PROVE  /\ Prompts!IsABag(prompts') /\ Prompts!BagToSet(prompts') \subseteq Prompts!BagToSet(prompts)
         /\ \A n \in Prompts!BagToSet(prompts') : n.type \in Prompts!Answers => prompts'[n] = prompts[n]
         /\ ~outran => \A n \in Prompts!BagToSet(prompts') : n.type \in Prompts!Answers
         /\ Prompts!OneKey'
<1>1. /\ Prompts!IsABag(prompts') /\ Prompts!BagToSet(prompts') \subseteq Prompts!BagToSet(prompts)
      /\ \A n \in Prompts!BagToSet(prompts) \ {m} : prompts'[n] = prompts[n]
      /\ prompts[m] = 1 => m \notin Prompts!BagToSet(prompts')
  BY TakeFromBag DEF Prompts!Take, Prompts!Inv, Prompts!TypeOK
<1>2. ~outran => \A n \in Prompts!BagToSet(prompts') : n.type \in Prompts!Answers
  BY <1>1 DEF Prompts!Inv, Prompts!OneKey
<1>3. Prompts!OneKey'
  BY <1>2 DEF Prompts!OneKey
<1> QED BY <1>1, <1>2, <1>3

(* The dialogs and the picker as a key's message leaves them.               *)
LEMMA ConfirmedKeeps ==
  ASSUME Prompts!Inv, NEW m \in Prompts!BagToSet(prompts),
         Prompts!HandleModalConfirmed(m) \/ Prompts!HandleModalCancelled(m) \/ Prompts!HandlePickerCancelled(m)
  PROVE  Prompts!Inv'
<1> USE DEF Prompts!Inv
<1>0. m \in Prompts!Message
  BY DEF Prompts!TypeOK
<1>1. /\ m.type \in {"confirmed", "cancelled", "pickerCancelled"} /\ Prompts!Take(m)
      /\ UNCHANGED <<pfPorts, pfPort, stash, pfGen, asks, asked, outran>>
      /\ portPicker' \in BOOLEAN /\ (portPicker' => portPicker)
      /\ modal' = modal \/ modal' = Prompts!Hidden
  <2>1. portPicker \in BOOLEAN
    BY DEF Prompts!TypeOK
  <2>2. /\ Prompts!HandleModalConfirmed(m) => portPicker' = portPicker /\ m.type = "confirmed" /\ modal' = Prompts!Hidden
        /\ Prompts!HandleModalCancelled(m) => portPicker' = portPicker /\ m.type = "cancelled" /\ modal' = Prompts!Hidden
        /\ Prompts!HandlePickerCancelled(m) => portPicker' = FALSE /\ m.type = "pickerCancelled" /\ modal' = modal
    BY DEF Prompts!HandleModalConfirmed, Prompts!HandleModalCancelled, Prompts!HandlePickerCancelled
  <2>3. Prompts!Take(m) /\ UNCHANGED <<pfPorts, pfPort, stash, pfGen, asks, asked, outran>>
    BY DEF Prompts!HandleModalConfirmed, Prompts!HandleModalCancelled, Prompts!HandlePickerCancelled, Prompts!history
  <2>5. portPicker' \in BOOLEAN /\ (portPicker' => portPicker)
    <3>1. portPicker' = portPicker \/ portPicker' = FALSE
      BY <2>2, Zenon
    <3>2. CASE portPicker' = portPicker
      BY <2>1, <3>2
    <3>3. CASE portPicker' = FALSE
      BY <3>3
    <3> QED BY <3>1, <3>2, <3>3
  <2>6. modal' = modal \/ modal' = Prompts!Hidden
    BY <2>2, Zenon
  <2>7. m.type \in {"confirmed", "cancelled", "pickerCancelled"}
    BY <2>2, Zenon
  <2> QED BY <2>3, <2>5, <2>6, <2>7, Zenon
<1>2. m.type \notin Prompts!Answers
  BY <1>1 DEF Prompts!Answers
<1>3. /\ Prompts!IsABag(prompts') /\ Prompts!BagToSet(prompts') \subseteq Prompts!BagToSet(prompts)
      /\ \A n \in Prompts!BagToSet(prompts') : n.type \in Prompts!Answers => prompts'[n] = prompts[n]
      /\ Prompts!OneKey'
  BY <1>1, <1>2, KeyIsTaken
<1>4. Prompts!Hidden.kind = Prompts!None
  BY DEF Prompts!Hidden
<1>5. Prompts!Sources'
  BY <1>1, <1>3 DEF Prompts!Sources, Prompts!Asked
<1>6. Prompts!SlotIsNamed' /\ Prompts!OneAnswer'
  <2>1. Prompts!SlotIsNamed'
    BY <1>1, <1>4 DEF Prompts!SlotIsNamed, Prompts!Forwarding, Prompts!None
  <2>2. Prompts!OneAnswer'
    BY <1>1, <1>3, <1>4 DEF Prompts!OneAnswer, Prompts!Forwarding, Prompts!None
  <2> QED BY <2>1, <2>2
<1>7. wrote' \in Prompts!Write \cup {Prompts!Undone} /\ Prompts!OnlyWhatWasAskedFor' /\ Prompts!ActsOnWhatWasNamed'
  <2>1. CASE UNCHANGED wrote
    BY <1>1, <2>1 DEF Prompts!OnlyWhatWasAskedFor, Prompts!ActsOnWhatWasNamed, Prompts!Acts, Prompts!TypeOK
  <2>2. CASE Prompts!HandleModalConfirmed(m) /\ Prompts!Run(m.kind, m.named)
    <3>1. m.type = "confirmed" /\ m.kind \in Prompts!ModalKind /\ m.named \in Prompts!Object
      BY <1>0, <2>2, PromptShape DEF Prompts!HandleModalConfirmed
    <3>2. ~outran => modal.kind = m.kind /\ modal.obj = m.named
      BY <1>2, <3>1 DEF Prompts!OneKey
    <3>3. ~outran' /\ m.kind \in {"delete", "drain", "forward", "local"} => stash[Prompts!Slot(m.kind)] = m.named
      BY <1>1, <3>2, Slots DEF Prompts!SlotIsNamed, Prompts!Forwarding
    <3> QED BY <1>1, <2>2, <3>1, <3>3, Runs
  <2> QED BY <2>1, <2>2 DEF Prompts!HandleModalConfirmed, Prompts!HandleModalCancelled, Prompts!HandlePickerCancelled
<1>8. Prompts!TypeOK'
  BY <1>1, <1>3, <1>7 DEF Prompts!TypeOK
<1> QED BY <1>3, <1>5, <1>6, <1>7, <1>8

LEMMA PortSelectedKeeps == ASSUME Prompts!Inv, NEW m \in Prompts!BagToSet(prompts), Prompts!HandlePortSelected(m) PROVE Prompts!Inv'
<1> USE DEF Prompts!Inv
<1>0. m \in Prompts!Message
  BY DEF Prompts!TypeOK
<1>1. /\ m.type = "port" /\ Prompts!Take(m) /\ portPicker' = FALSE
      /\ UNCHANGED <<pfPorts, pfPort, pfGen, asks, asked, outran>>
  BY DEF Prompts!HandlePortSelected, Prompts!history
<1>2. m.type \notin Prompts!Answers /\ m.named \in Prompts!Object
  BY <1>0, <1>1, PromptShape DEF Prompts!Answers
<1>3. /\ Prompts!IsABag(prompts') /\ Prompts!BagToSet(prompts') \subseteq Prompts!BagToSet(prompts)
      /\ \A n \in Prompts!BagToSet(prompts') : n.type \in Prompts!Answers => prompts'[n] = prompts[n]
      /\ Prompts!OneKey'
  BY <1>1, <1>2, KeyIsTaken
<1>4. ~outran => portPicker /\ m.named = pfPorts
  BY <1>1, <1>2 DEF Prompts!OneKey
<1>5. CASE Prompts!Run("forward", m.named) /\ UNCHANGED <<modal, stash>>
  <2>1. ~outran' => stash[Prompts!Slot("forward")] = m.named
    BY <1>1, <1>4, Slots DEF Prompts!SlotIsNamed
  <2>2. wrote' \in Prompts!Write \cup {Prompts!Undone} /\ Prompts!OnlyWhatWasAskedFor' /\ Prompts!ActsOnWhatWasNamed'
    BY <1>1, <1>2, <1>5, <2>1, Runs DEF Prompts!ModalKind
  <2>3. Prompts!Sources' /\ Prompts!SlotIsNamed'
    BY <1>1, <1>3, <1>5 DEF Prompts!Sources, Prompts!SlotIsNamed, Prompts!Asked
  <2>4. Prompts!OneAnswer'
    BY <1>1, <1>3, <1>5 DEF Prompts!OneAnswer
  <2>5. Prompts!TypeOK'
    BY <1>1, <1>3, <1>5, <2>2 DEF Prompts!TypeOK
  <2> QED BY <1>3, <2>2, <2>3, <2>4, <2>5
<1>6. CASE m.named # pfPorts /\ stash["mutateRef"] # Prompts!None /\ Prompts!Open("forward", stash["mutateRef"]) /\ UNCHANGED wrote
  <2>1. outran
    BY <1>4, <1>6
  <2>2. /\ modal' = [kind |-> "forward", obj |-> stash["mutateRef"]] /\ stash["mutateRef"] \in Prompts!Object
        /\ stash' = [stash EXCEPT !["mutateRef"] = stash["mutateRef"]]
    BY <1>6, Slots DEF Prompts!Open, Prompts!Show, Prompts!TypeOK
  <2>3. stash' = stash
    BY <2>2 DEF Prompts!TypeOK
  <2>4. Prompts!Sources' /\ Prompts!SlotIsNamed'
    BY <1>1, <1>3, <2>1, <2>2, <2>3 DEF Prompts!Sources, Prompts!SlotIsNamed, Prompts!Asked
  <2>5. Prompts!OneAnswer'
    BY <1>1, <1>3, <2>1 DEF Prompts!OneAnswer
  <2>6. modal' \in Prompts!Dialog /\ stash'[Prompts!Slot(modal'.kind)] # Prompts!None
    BY <1>6, <2>2, <2>3, Slots DEF Prompts!Dialog, Prompts!ModalKind
  <2>7. Prompts!TypeOK'
    BY <1>1, <1>3, <1>6, <2>3, <2>6 DEF Prompts!TypeOK
  <2>8. Prompts!OnlyWhatWasAskedFor' /\ Prompts!ActsOnWhatWasNamed'
    BY <1>1, <1>6 DEF Prompts!OnlyWhatWasAskedFor, Prompts!ActsOnWhatWasNamed, Prompts!Acts
  <2> QED BY <1>3, <2>4, <2>5, <2>7, <2>8
<1> QED BY <1>5, <1>6, Slots DEF Prompts!HandlePortSelected

(* A request goes out, and the message that led to it is gone.              *)
LEMMA RequestKeeps ==
  ASSUME Prompts!Inv, NEW m \in Prompts!BagToSet(prompts), NEW n \in Prompts!Message, Prompts!Request(m, n),
         n.type \in Prompts!Answers, n.gen = pfGen + 1,
         UNCHANGED <<modal, portPicker, pfPorts, pfPort, stash, wrote, asks, asked>>,
         \/ m.type \notin Prompts!Answers /\ UNCHANGED outran
         \/ m.type \in Prompts!Answers /\ Prompts!Overtake,
         ~outran' => ~portPicker /\ modal.kind \notin Prompts!Forwarding
  PROVE  Prompts!Inv'
<1> USE DEF Prompts!Inv
<1> DEFINE B == Prompts!Unbagged(prompts, m)
<1>1. pfGen \in Nat /\ pfGen' = pfGen + 1 /\ prompts' = Prompts!Bagged(B, n)
  BY DEF Prompts!Request, Prompts!Swap, Prompts!TypeOK
<1>2. /\ Prompts!IsABag(B) /\ Prompts!BagToSet(B) \subseteq Prompts!BagToSet(prompts)
      /\ \A x \in Prompts!BagToSet(prompts) \ {m} : B[x] = prompts[x]
      /\ prompts[m] = 1 => Prompts!BagToSet(B) = Prompts!BagToSet(prompts) \ {m}
  BY TakeFromBag DEF Prompts!TypeOK
<1> HIDE DEF B
<1>3. /\ Prompts!IsABag(prompts') /\ Prompts!BagToSet(prompts') = Prompts!BagToSet(B) \cup {n}
      /\ \A x \in Prompts!BagToSet(B) : x # n => prompts'[x] = B[x]
      /\ n \notin Prompts!BagToSet(B) => prompts'[n] = 1
  BY <1>1, <1>2, PutInBag
<1>4. \A x \in Prompts!BagToSet(prompts) : x.type \in Prompts!Answers => x.gen \in Nat /\ x.gen <= pfGen /\ prompts[x] = 1
  BY PromptShape DEF Prompts!TypeOK, Prompts!OneAnswer
<1>5. n \notin Prompts!BagToSet(B)
  BY <1>1, <1>2, <1>4
<1>6. \A x \in Prompts!BagToSet(B) : x.type \in Prompts!Answers => prompts'[x] = 1 /\ x.gen \in Nat /\ x.gen < pfGen'
  BY <1>1, <1>2, <1>3, <1>4, <1>5
<1>7. Prompts!OneAnswer'
  <2>1. n.gen = pfGen' /\ prompts'[n] = 1 /\ pfGen' \in Nat
    BY <1>1, <1>3, <1>5
  <2>2. \A x \in Prompts!BagToSet(prompts') : x.type \in Prompts!Answers /\ x.gen = pfGen' => x = n
    BY <1>3, <1>6, <2>1
  <2>3. \A x \in Prompts!BagToSet(prompts') : x.type \in Prompts!Answers => x.gen <= pfGen' /\ prompts'[x] = 1
    BY <1>3, <1>6, <2>1
  <2>4. ~outran' => ~portPicker' /\ modal'.kind \notin Prompts!Forwarding
    OBVIOUS
  <2> QED BY <2>2, <2>3, <2>4 DEF Prompts!OneAnswer
<1>8. ~outran' => \A x \in Prompts!BagToSet(prompts') : x.type \in Prompts!Answers
  <2>1. CASE m.type \notin Prompts!Answers /\ UNCHANGED outran
    BY <1>2, <1>3, <2>1 DEF Prompts!OneKey
  <2>2. CASE m.type \in Prompts!Answers /\ Prompts!Overtake
    BY <1>2, <1>3, <2>2 DEF Prompts!Overtake, Prompts!KeyInFlight
  <2> QED BY <2>1, <2>2
<1>9. Prompts!OneKey'
  BY <1>8 DEF Prompts!OneKey
<1>10. outran => outran'
  BY DEF Prompts!Overtake
<1>11. outran' \in BOOLEAN
  <2>1. outran \in BOOLEAN
    BY DEF Prompts!TypeOK
  <2>2. CASE UNCHANGED outran
    BY <2>1, <2>2
  <2>3. CASE Prompts!Overtake
    BY <2>3 DEF Prompts!Overtake
  <2> QED BY <2>2, <2>3
<1>12. Prompts!TypeOK'
  <2>1. Prompts!BagToSet(prompts') \subseteq Prompts!Message
    BY <1>2, <1>3 DEF Prompts!TypeOK
  <2> QED BY <1>1, <1>3, <1>11, <2>1 DEF Prompts!TypeOK
<1>13. Prompts!Sources'
  BY <1>2, <1>3 DEF Prompts!Sources, Prompts!Asked, Prompts!Answers
<1>14. Prompts!SlotIsNamed'
  BY <1>10 DEF Prompts!SlotIsNamed
<1>15. Prompts!OnlyWhatWasAskedFor' /\ Prompts!ActsOnWhatWasNamed'
  BY <1>10 DEF Prompts!OnlyWhatWasAskedFor, Prompts!ActsOnWhatWasNamed, Prompts!Acts
<1> QED BY <1>7, <1>9, <1>12, <1>13, <1>14, <1>15

(* An answer is handled: its bag is without it, and no key was overtaken    *)
(* only if none is on its way.                                              *)
LEMMA AnswerIsTaken ==
  ASSUME Prompts!Inv, NEW m \in Prompts!BagToSet(prompts), m.type \in Prompts!Answers, Prompts!Take(m), Prompts!Overtake
  PROVE  /\ Prompts!IsABag(prompts') /\ Prompts!BagToSet(prompts') = Prompts!BagToSet(prompts) \ {m}
         /\ \A n \in Prompts!BagToSet(prompts') : prompts'[n] = prompts[n]
         /\ outran' \in BOOLEAN /\ (outran => outran')
         /\ ~outran' => \A n \in Prompts!BagToSet(prompts') : n.type \in Prompts!Answers
         /\ Prompts!OneKey'
<1>1. /\ Prompts!IsABag(prompts') /\ Prompts!BagToSet(prompts') = Prompts!BagToSet(prompts) \ {m}
      /\ \A n \in Prompts!BagToSet(prompts') : prompts'[n] = prompts[n]
  BY TakeFromBag DEF Prompts!Take, Prompts!Inv, Prompts!TypeOK, Prompts!OneAnswer
<1>2. outran' \in BOOLEAN /\ (outran => outran')
  BY DEF Prompts!Overtake
<1>3. ~outran' => \A n \in Prompts!BagToSet(prompts') : n.type \in Prompts!Answers
  BY <1>1 DEF Prompts!Overtake, Prompts!KeyInFlight
<1> QED BY <1>1, <1>2, <1>3 DEF Prompts!OneKey

LEMMA RowActionKeeps == ASSUME Prompts!Inv, NEW m \in Prompts!BagToSet(prompts), Prompts!HandleRowAction(m) PROVE Prompts!Inv'
<1> USE DEF Prompts!Inv
<1>0. m \in Prompts!Message
  BY DEF Prompts!TypeOK
<1>1. /\ m.type = "row" /\ UNCHANGED <<portPicker, pfPorts, pfPort, wrote, asks, asked, outran>>
  BY DEF Prompts!HandleRowAction, Prompts!history
<1>2. m.type \notin Prompts!Answers /\ m.act \in Verb /\ m.obj \in Prompts!Object
  BY <1>0, <1>1, PromptShape DEF Prompts!Answers
<1>3. ~outran => modal = Prompts!Hidden /\ ~portPicker
  BY <1>1, <1>2 DEF Prompts!OneKey
<1>4. CASE m.act # "forward" /\ Prompts!Open(m.act, m.obj) /\ Prompts!Take(m) /\ UNCHANGED pfGen
  <2>1. /\ Prompts!IsABag(prompts') /\ Prompts!BagToSet(prompts') \subseteq Prompts!BagToSet(prompts)
        /\ \A n \in Prompts!BagToSet(prompts') : n.type \in Prompts!Answers => prompts'[n] = prompts[n]
        /\ Prompts!OneKey'
    BY <1>1, <1>2, <1>4, KeyIsTaken
  <2>2. /\ modal' = [kind |-> m.act, obj |-> m.obj] /\ stash' = [stash EXCEPT ![Prompts!Slot(m.act)] = m.obj]
        /\ m.act \in {"delete", "drain", "scale", "restart"} /\ m.obj # Prompts!None
        /\ Prompts!Slot(m.act) \in {"deleteRef", "drainRef", "mutateRef"}
    BY <1>2, <1>4, Slots DEF Prompts!Open, Prompts!Show
  <2>3. stash \in [{"deleteRef", "drainRef", "mutateRef"} -> Prompts!Object \cup {Prompts!None}]
    BY DEF Prompts!TypeOK
  <2>4. [act |-> m.act, obj |-> m.obj] \in asks
    BY <1>1 DEF Prompts!Sources, Prompts!Asked
  <2>5. modal' \in Prompts!Dialog /\ stash' \in [{"deleteRef", "drainRef", "mutateRef"} -> Prompts!Object \cup {Prompts!None}]
        /\ stash'[Prompts!Slot(modal'.kind)] # Prompts!None
    BY <1>2, <2>2, <2>3 DEF Prompts!Dialog, Prompts!ModalKind
  <2>6. Prompts!TypeOK'
    BY <1>1, <1>4, <2>1, <2>5 DEF Prompts!TypeOK
  <2>7. Prompts!Sources'
    BY <1>1, <1>2, <2>1, <2>2, <2>3, <2>4, Slots DEF Prompts!Sources, Prompts!Asked
  <2>8. Prompts!SlotIsNamed'
    BY <1>1, <1>3, <2>2, <2>3, Slots DEF Prompts!SlotIsNamed, Prompts!Forwarding
  <2>9. Prompts!OneAnswer'
    BY <1>1, <1>4, <2>1, <2>2 DEF Prompts!OneAnswer, Prompts!Forwarding
  <2>10. Prompts!OnlyWhatWasAskedFor' /\ Prompts!ActsOnWhatWasNamed'
    BY <1>1 DEF Prompts!OnlyWhatWasAskedFor, Prompts!ActsOnWhatWasNamed, Prompts!Acts
  <2> QED BY <2>1, <2>6, <2>7, <2>8, <2>9, <2>10
<1>5. CASE /\ m.act = "forward" /\ UNCHANGED <<modal, stash>>
           /\ \E p \in Prompts!Object : \/ Prompts!Request(m, Prompts!PortsLoadedMsg(pfGen + 1, p))
                                        \/ Prompts!Request(m, Prompts!ServiceResolvedMsg(pfGen + 1, p))
  <2>1. PICK p \in Prompts!Object : \/ Prompts!Request(m, Prompts!PortsLoadedMsg(pfGen + 1, p))
                                    \/ Prompts!Request(m, Prompts!ServiceResolvedMsg(pfGen + 1, p))
    BY <1>5
  <2>2. pfGen + 1 \in Nat
    BY DEF Prompts!TypeOK
  <2>3. PICK n \in Prompts!Message : Prompts!Request(m, n) /\ n.type \in Prompts!Answers /\ n.gen = pfGen + 1
    BY <2>1, <2>2, AnswersAreMessages
  <2>4. ~outran' => ~portPicker /\ modal.kind \notin Prompts!Forwarding
    BY <1>1, <1>3 DEF Prompts!Hidden, Prompts!Forwarding, Prompts!None
  <2> QED BY <1>1, <1>2, <1>5, <2>3, <2>4, RequestKeeps
<1>6. PodName \subseteq Prompts!Object
  BY DEF Prompts!Object
<1> QED BY <1>2, <1>4, <1>5, <1>6 DEF Prompts!HandleRowAction

LEMMA ServiceResolvedKeeps == ASSUME Prompts!Inv, NEW m \in Prompts!BagToSet(prompts), Prompts!HandleServiceResolved(m) PROVE Prompts!Inv'
<1> USE DEF Prompts!Inv
<1>0. m \in Prompts!Message
  BY DEF Prompts!TypeOK
<1>1. /\ m.type = "service" /\ Prompts!Overtake
      /\ UNCHANGED <<modal, portPicker, pfPorts, pfPort, stash, wrote, asks, asked>>
  BY DEF Prompts!HandleServiceResolved, Prompts!history
<1>2. m.type \in Prompts!Answers /\ m.gen \in Nat /\ m.obj \in Prompts!Object
  BY <1>0, <1>1, PromptShape DEF Prompts!Answers
<1>3. CASE Prompts!Newest(m) /\ Prompts!Request(m, Prompts!PortsLoadedMsg(pfGen + 1, m.obj))
  <2>1. pfGen + 1 \in Nat /\ m.gen = pfGen
    BY <1>3 DEF Prompts!TypeOK, Prompts!Newest
  <2>2. PICK n \in Prompts!Message : Prompts!Request(m, n) /\ n.type \in Prompts!Answers /\ n.gen = pfGen + 1
    BY <1>2, <1>3, <2>1, AnswersAreMessages
  <2>3. ~outran' => ~portPicker /\ modal.kind \notin Prompts!Forwarding
    BY <1>1, <1>2, <2>1 DEF Prompts!OneAnswer, Prompts!Overtake
  <2> QED BY <1>1, <1>2, <2>2, <2>3, RequestKeeps
<1>4. CASE Prompts!Take(m) /\ UNCHANGED pfGen
  <2>1. /\ Prompts!IsABag(prompts') /\ Prompts!BagToSet(prompts') = Prompts!BagToSet(prompts) \ {m}
        /\ \A n \in Prompts!BagToSet(prompts') : prompts'[n] = prompts[n]
        /\ outran' \in BOOLEAN /\ (outran => outran')
        /\ Prompts!OneKey'
    BY <1>1, <1>2, <1>4, AnswerIsTaken
  <2>2. Prompts!TypeOK'
    BY <1>1, <1>4, <2>1 DEF Prompts!TypeOK
  <2>3. Prompts!Sources' /\ Prompts!SlotIsNamed'
    BY <1>1, <2>1 DEF Prompts!Sources, Prompts!SlotIsNamed, Prompts!Asked
  <2>4. Prompts!OneAnswer'
    BY <1>1, <1>4, <2>1 DEF Prompts!OneAnswer
  <2>5. Prompts!OnlyWhatWasAskedFor' /\ Prompts!ActsOnWhatWasNamed'
    BY <1>1, <2>1 DEF Prompts!OnlyWhatWasAskedFor, Prompts!ActsOnWhatWasNamed, Prompts!Acts
  <2> QED BY <2>1, <2>2, <2>3, <2>4, <2>5
<1> QED BY <1>3, <1>4 DEF Prompts!HandleServiceResolved

LEMMA PortsLoadedKeeps == ASSUME Prompts!Inv, NEW m \in Prompts!BagToSet(prompts), Prompts!HandlePortsLoaded(m) PROVE Prompts!Inv'
<1> USE DEF Prompts!Inv
<1>0. m \in Prompts!Message
  BY DEF Prompts!TypeOK
<1>1. /\ m.type = "ports" /\ Prompts!Overtake /\ Prompts!Take(m) /\ UNCHANGED <<pfPort, pfGen, wrote, asks, asked>>
  BY DEF Prompts!HandlePortsLoaded, Prompts!history
<1>2. m.type \in Prompts!Answers /\ m.gen \in Nat /\ m.obj \in Prompts!Object
  BY <1>0, <1>1, PromptShape DEF Prompts!Answers
<1>3. /\ Prompts!IsABag(prompts') /\ Prompts!BagToSet(prompts') = Prompts!BagToSet(prompts) \ {m}
      /\ \A n \in Prompts!BagToSet(prompts') : prompts'[n] = prompts[n]
      /\ outran' \in BOOLEAN /\ (outran => outran')
      /\ Prompts!OneKey'
  BY <1>1, <1>2, AnswerIsTaken
<1>4. Prompts!OnlyWhatWasAskedFor' /\ Prompts!ActsOnWhatWasNamed'
  BY <1>1, <1>3 DEF Prompts!OnlyWhatWasAskedFor, Prompts!ActsOnWhatWasNamed, Prompts!Acts
<1>5. stash \in [{"deleteRef", "drainRef", "mutateRef"} -> Prompts!Object \cup {Prompts!None}] /\ m.obj # Prompts!None
  BY <1>2 DEF Prompts!TypeOK
<1>6. CASE UNCHANGED <<modal, portPicker, pfPorts, stash>>
  <2>1. Prompts!TypeOK'
    BY <1>1, <1>3, <1>6 DEF Prompts!TypeOK
  <2>2. Prompts!Sources' /\ Prompts!SlotIsNamed'
    BY <1>1, <1>3, <1>6 DEF Prompts!Sources, Prompts!SlotIsNamed, Prompts!Asked
  <2>3. Prompts!OneAnswer'
    BY <1>1, <1>3, <1>6 DEF Prompts!OneAnswer
  <2> QED BY <1>3, <1>4, <2>1, <2>2, <2>3
<1>7. ASSUME Prompts!Newest(m), stash' = [stash EXCEPT !["mutateRef"] = m.obj],
             \/ modal' = [kind |-> "forward", obj |-> m.obj] /\ UNCHANGED <<portPicker, pfPorts>>
             \/ portPicker' = TRUE /\ pfPorts' = m.obj /\ UNCHANGED modal
      PROVE  Prompts!Inv'
  <2>1. \A n \in Prompts!BagToSet(prompts') : n.type \in Prompts!Answers => n.gen # pfGen
    BY <1>1, <1>2, <1>3, <1>7 DEF Prompts!Newest, Prompts!OneAnswer
  <2>2. Prompts!OneAnswer'
    BY <1>1, <1>3, <2>1 DEF Prompts!OneAnswer
  <2>3. ~outran => ~portPicker /\ modal.kind \notin Prompts!Forwarding
    BY <1>2, <1>7 DEF Prompts!Newest, Prompts!OneAnswer
  <2>4. /\ stash' \in [{"deleteRef", "drainRef", "mutateRef"} -> Prompts!Object \cup {Prompts!None}]
        /\ stash'["mutateRef"] = m.obj /\ stash'["deleteRef"] = stash["deleteRef"]
        /\ stash'["drainRef"] = stash["drainRef"]
    BY <1>2, <1>5, <1>7
  <2>5. Prompts!SlotIsNamed'
    BY <1>3, <1>7, <2>3, <2>4 DEF Prompts!SlotIsNamed, Prompts!Forwarding
  <2>6. Prompts!Sources'
    BY <1>1, <1>3, <1>5, <1>7, <2>4 DEF Prompts!Sources, Prompts!Asked
  <2>7. modal' \in Prompts!Dialog \cup {Prompts!Hidden} /\ (modal' # Prompts!Hidden => stash'[Prompts!Slot(modal'.kind)] # Prompts!None)
    <3>1. CASE modal' = [kind |-> "forward", obj |-> m.obj]
      BY <1>2, <1>5, <2>4, <3>1, Slots DEF Prompts!Dialog, Prompts!ModalKind
    <3>2. CASE modal' = modal
      <4>1. modal # Prompts!Hidden => Prompts!Slot(modal.kind) \in {"deleteRef", "drainRef", "mutateRef"}
                                      /\ stash[Prompts!Slot(modal.kind)] # Prompts!None
        BY Slots DEF Prompts!TypeOK
      <4> QED BY <1>5, <2>4, <3>2, <4>1 DEF Prompts!TypeOK
    <3> QED BY <1>7, <3>1, <3>2
  <2>8. portPicker' \in BOOLEAN /\ pfPorts' \in Prompts!Object \cup {Prompts!None}
    <3>1. CASE UNCHANGED <<portPicker, pfPorts>>
      BY <3>1 DEF Prompts!TypeOK
    <3>2. CASE portPicker' = TRUE /\ pfPorts' = m.obj
      BY <1>2, <3>2
    <3> QED BY <1>7, <3>1, <3>2
  <2>9. Prompts!TypeOK'
    BY <1>1, <1>3, <2>4, <2>7, <2>8 DEF Prompts!TypeOK
  <2> QED BY <1>3, <1>4, <2>2, <2>5, <2>6, <2>9
<1> QED BY <1>6, <1>7, Slots DEF Prompts!HandlePortsLoaded, Prompts!Open, Prompts!Show

LEMMA PromptsInit == Prompts!Init => Prompts!Inv
<1> SUFFICES ASSUME Prompts!Init PROVE Prompts!Inv
  OBVIOUS
<1>1. Prompts!BagToSet(prompts) = {} /\ Prompts!IsABag(prompts)
  BY DEF Prompts!Init, Prompts!EmptyBag, Prompts!SetToBag, Prompts!BagToSet, Prompts!IsABag
<1>2. Prompts!Hidden.kind = Prompts!None /\ Prompts!Undone.act = Prompts!None
  BY DEF Prompts!Hidden, Prompts!Undone
<1>3. Prompts!TypeOK
  <2>1. modal = Prompts!Hidden /\ stash \in [{"deleteRef", "drainRef", "mutateRef"} -> Prompts!Object \cup {Prompts!None}]
    BY DEF Prompts!Init
  <2>2. portPicker \in BOOLEAN /\ outran \in BOOLEAN
    BY DEF Prompts!Init
  <2>3. {pfPorts, pfPort} \subseteq Prompts!Object \cup {Prompts!None} /\ wrote \in Prompts!Write \cup {Prompts!Undone}
    BY DEF Prompts!Init
  <2>4. pfGen \in Nat /\ asks \subseteq Prompts!Ask /\ asked \in 0 .. MaxAsks
    BY DEF Prompts!Init
  <2> QED BY <1>1, <2>1, <2>2, <2>3, <2>4 DEF Prompts!TypeOK
<1>4. Prompts!Sources /\ Prompts!SlotIsNamed /\ Prompts!OneAnswer /\ Prompts!OneKey
  BY <1>1, <1>2 DEF Prompts!Init, Prompts!Sources, Prompts!SlotIsNamed, Prompts!OneAnswer, Prompts!OneKey, Prompts!Forwarding, Prompts!None
<1>5. Prompts!OnlyWhatWasAskedFor /\ Prompts!ActsOnWhatWasNamed
  BY <1>2 DEF Prompts!Init, Prompts!OnlyWhatWasAskedFor, Prompts!ActsOnWhatWasNamed, Prompts!Acts, Prompts!None
<1> QED BY <1>3, <1>4, <1>5 DEF Prompts!Inv

LEMMA PromptsStep == Prompts!Inv /\ [Prompts!Next]_promptsVars => Prompts!Inv'
<1> SUFFICES ASSUME Prompts!Inv, [Prompts!Next]_promptsVars PROVE Prompts!Inv'
  OBVIOUS
<1>1. CASE UNCHANGED promptsVars
  BY <1>1 DEF promptsVars, Prompts!history, Prompts!Inv, Prompts!TypeOK, Prompts!Sources, Prompts!SlotIsNamed, Prompts!OneAnswer, Prompts!OneKey, Prompts!Asked,
              Prompts!OnlyWhatWasAskedFor, Prompts!ActsOnWhatWasNamed, Prompts!Acts
<1>2. ASSUME NEW m \in Prompts!BagToSet(prompts), Prompts!Handle(m) PROVE Prompts!Inv'
  BY <1>2, RowActionKeeps, ServiceResolvedKeeps, PortsLoadedKeeps, PortSelectedKeeps, ConfirmedKeeps
     DEF Prompts!Handle
<1> QED BY <1>1, <1>2, AskForKeeps, AnswerKeeps, AtOnceKeeps DEF Prompts!Next


----------------------------- (* Canvas *) ----------------------------------
HIDE OnScreenAssumption
  DEF Prompts!ObjectAssumption, Prompts!VerbAssumption, Prompts!DialogBoundAssumption
USE OnScreenAssumption DEF Probe!CanvasAssumption

LEMMA ReportedIs ==
  ASSUME honours
  PROVE  \A th : Probe!Reported(th) = th.polarity
BY DEF Probe!Reported

LEMMA Framed ==
  ASSUME NEW k \in Probe!Tick
  PROVE  [k EXCEPT !.framed = TRUE] \in Probe!Tick /\ [k EXCEPT !.framed = TRUE].gen = k.gen
BY DEF Probe!Tick

LEMMA ProbeInit == Probe!Init => Probe!Inv
<1> SUFFICES ASSUME Probe!Init PROVE Probe!Inv
  OBVIOUS
<1>1. ticks \subseteq Probe!Tick /\ \A k \in ticks : k.gen <= canvasGen
  BY DEF Probe!Init, Probe!Tick
<1>2. Probe!TypeOK
  <2>1. honours \in BOOLEAN /\ awaiting \in BOOLEAN /\ warned \in BOOLEAN /\ misled \in BOOLEAN
    BY DEF Probe!Init
  <2>2. {painted, worn} \subseteq Painted /\ kept \in Painted \cup {Probe!None} /\ canvasGen \in 0 .. MaxPicks
        /\ answers \in Seq(Painted)
    BY DEF Probe!Init
  <2> QED BY <1>1, <2>1, <2>2 DEF Probe!TypeOK
<1> QED BY <1>1, <1>2 DEF Probe!Init, Probe!Inv, Probe!Undisturbed

LEMMA ProbeStep == Probe!Inv /\ [Probe!Next]_probeVars => Probe!Inv' /\ Probe!WarnsIfMoved
<1> SUFFICES ASSUME Probe!Inv, [Probe!Next]_probeVars PROVE Probe!Inv' /\ Probe!WarnsIfMoved
  OBVIOUS
<1>0. /\ Probe!TypeOK /\ Probe!Undisturbed /\ \A k \in ticks : k.gen <= canvasGen
      /\ ticks \subseteq Probe!Tick /\ answers \in Seq(Painted) /\ canvasGen \in 0 .. MaxPicks
      /\ {painted, worn} \subseteq Painted /\ \A k \in ticks : k.gen \in 0 .. MaxPicks
  BY DEF Probe!Inv, Probe!TypeOK, Probe!Tick
<1>1. CASE UNCHANGED probeVars
  BY <1>1 DEF probeVars, Probe!Inv, Probe!TypeOK, Probe!Undisturbed, Probe!Belated, Probe!WarnsIfMoved, Probe!Due
<1>2. CASE Probe!Paint
  <2>1. /\ painted' = worn /\ ticks' = {[k EXCEPT !.framed = TRUE] : k \in ticks}
        /\ misled' = (misled /\ (kept # Probe!None \/ (awaiting /\ Probe!Belated)))
        /\ UNCHANGED <<honours, worn, kept, canvasGen, awaiting, answers, warned>>
    BY <1>2 DEF Probe!Paint
  <2>2. ticks' \subseteq Probe!Tick /\ \A k \in ticks' : k.gen <= canvasGen
    BY <1>0, <2>1, Framed
  <2>3. Probe!TypeOK'
    BY <1>0, <2>1, <2>2 DEF Probe!TypeOK
  <2>4. Probe!Undisturbed'
    <3>1. ~misled' /\ awaiting' => ~Probe!Belated
      BY <1>0, <2>1 DEF Probe!Undisturbed
    <3>2. Probe!Belated' <=> Probe!Belated
      BY <2>1 DEF Probe!Belated
    <3> QED BY <2>1, <3>1, <3>2 DEF Probe!Undisturbed
  <2> QED BY <2>1, <2>2, <2>3, <2>4 DEF Probe!Inv, Probe!WarnsIfMoved
<1>3. ASSUME NEW k \in ticks, Probe!HandleCanvasProbe(k) PROVE Probe!Inv' /\ Probe!WarnsIfMoved
  <2>1. /\ k.framed /\ ticks' = ticks \ {k}
        /\ UNCHANGED <<honours, painted, worn, kept, canvasGen, warned>>
    BY <1>3 DEF Probe!HandleCanvasProbe
  <2>2. CASE Probe!Due(k) /\ awaiting' = TRUE /\ answers' = Append(answers, painted) /\ misled' = (misled \/ Probe!Belated)
    <3>1. /\ answers' \in Seq(Painted) /\ Len(answers') = Len(answers) + 1 /\ Len(answers) \in Nat
          /\ DOMAIN answers = 1 .. Len(answers) /\ DOMAIN answers' = 1 .. (Len(answers) + 1)
          /\ \A i \in 1 .. Len(answers) : answers'[i] = answers[i]
          /\ answers'[Len(answers) + 1] = painted
      BY <1>0, <2>2
    <3>2. Probe!TypeOK'
      BY <1>0, <2>1, <2>2, <3>1 DEF Probe!TypeOK
    <3>3. ASSUME ~misled' PROVE painted' = worn' /\ ~Probe!Belated'
      <4>1. ~misled /\ ~Probe!Belated
        BY <2>2, <3>3
      <4>2. painted = worn
        BY <1>0, <2>1, <2>2, <4>1 DEF Probe!Undisturbed
      <4>3. \A i \in 1 .. (Len(answers) + 1) : answers'[i] = worn
        <5> TAKE i \in 1 .. (Len(answers) + 1)
        <5>1. i \in 1 .. Len(answers) \/ i = Len(answers) + 1
          BY <3>1
        <5> QED BY <3>1, <4>1, <4>2, <5>1 DEF Probe!Belated
      <4> QED BY <2>1, <3>1, <4>2, <4>3 DEF Probe!Belated
    <3>4. Probe!Undisturbed'
      BY <3>3 DEF Probe!Undisturbed
    <3> QED BY <1>0, <2>1, <3>2, <3>4 DEF Probe!Inv, Probe!WarnsIfMoved
  <2>3. CASE UNCHANGED <<awaiting, answers, misled>>
    <3>1. Probe!TypeOK' /\ (\A j \in ticks' : j.gen <= canvasGen') /\ Probe!WarnsIfMoved
      BY <1>0, <2>1, <2>3 DEF Probe!TypeOK, Probe!WarnsIfMoved
    <3>2. Probe!Undisturbed'
      BY <1>0, <2>1, <2>3 DEF Probe!Undisturbed, Probe!Belated, Probe!Due
    <3> QED BY <3>1, <3>2 DEF Probe!Inv
  <2> QED BY <1>3, <2>2, <2>3 DEF Probe!HandleCanvasProbe
<1>4. CASE Probe!Unsolicited
  <2>1. /\ answers' = Append(answers, painted)
        /\ UNCHANGED <<honours, painted, worn, kept, canvasGen, awaiting, ticks, warned, misled>>
    BY <1>4 DEF Probe!Unsolicited
  <2>2. /\ answers' \in Seq(Painted) /\ Len(answers') = Len(answers) + 1 /\ Len(answers) \in Nat
        /\ DOMAIN answers = 1 .. Len(answers) /\ DOMAIN answers' = 1 .. (Len(answers) + 1)
        /\ \A i \in 1 .. Len(answers) : answers'[i] = answers[i]
        /\ answers'[Len(answers) + 1] = painted
    BY <1>0, <2>1
  <2>3. Probe!TypeOK'
    BY <1>0, <2>1, <2>2 DEF Probe!TypeOK
  <2>4. ASSUME ~misled, awaiting PROVE painted = worn /\ ~Probe!Belated'
    <3>1. painted = worn /\ ~Probe!Belated
      BY <1>0, <2>4 DEF Probe!Undisturbed
    <3>2. \A i \in 1 .. (Len(answers) + 1) : answers'[i] = worn
      <4> TAKE i \in 1 .. (Len(answers) + 1)
      <4>1. i \in 1 .. Len(answers) \/ i = Len(answers) + 1
        BY <2>2
      <4> QED BY <2>2, <3>1, <4>1 DEF Probe!Belated
    <3> QED BY <2>1, <2>2, <3>1, <3>2 DEF Probe!Belated
  <2>5. Probe!Undisturbed'
    BY <1>0, <2>1, <2>4 DEF Probe!Undisturbed, Probe!Due
  <2> QED BY <1>0, <2>1, <2>3, <2>5 DEF Probe!Inv, Probe!WarnsIfMoved
<1>5. CASE Probe!HandleBackgroundColor
  <2>1. /\ answers # <<>> /\ answers' = Tail(answers) /\ awaiting' = FALSE
        /\ warned' = (warned \/ (awaiting /\ Probe!Reported(Head(answers)) # worn.polarity))
        /\ UNCHANGED <<honours, painted, worn, kept, canvasGen, ticks, misled>>
    BY <1>5 DEF Probe!HandleBackgroundColor
  <2>2. answers' \in Seq(Painted) /\ Head(answers) = answers[1] /\ 1 \in DOMAIN answers
    BY <1>0, <2>1, HeadTailProperties
  <2>3. Probe!TypeOK'
    BY <1>0, <2>1, <2>2 DEF Probe!TypeOK
  <2>4. Probe!Undisturbed'
    BY <1>0, <2>1 DEF Probe!Undisturbed, Probe!Due
  <2>5. Probe!WarnsIfMoved
    <3> SUFFICES ASSUME warned', ~warned, honours, ~misled PROVE FALSE
      BY DEF Probe!WarnsIfMoved
    <3>1. awaiting /\ Probe!Reported(answers[1]) # worn.polarity
      BY <2>1, <2>2
    <3>2. answers[1] = worn
      BY <1>0, <2>2, <3>1 DEF Probe!Undisturbed, Probe!Belated
    <3> QED BY <3>1, <3>2, ReportedIs
  <2> QED BY <1>0, <2>1, <2>3, <2>4, <2>5 DEF Probe!Inv
<1>6. CASE Probe!Apply
  <2>0. PICK new \in Probe!Tick : new.gen = canvasGen' /\ new.framed = (painted = worn') /\ ticks' = ticks \cup {new}
    <3>1. canvasGen' \in 0 .. MaxPicks
      BY <1>0, <1>6 DEF Probe!Apply
    <3>2. [gen |-> canvasGen', framed |-> painted = worn'] \in Probe!Tick
      BY <3>1 DEF Probe!Tick
    <3> QED BY <1>6, <3>2 DEF Probe!Apply
  <2>1. /\ canvasGen < MaxPicks /\ canvasGen' = canvasGen + 1 /\ awaiting' = FALSE /\ worn' \in Painted /\ kept' = Probe!None
        /\ misled' = FALSE /\ UNCHANGED <<honours, painted, answers, warned>>
    BY <1>6 DEF Probe!Apply, Probe!Retire
  <2>2. canvasGen' \in 0 .. MaxPicks
    BY <1>0, <2>1
  <2>3. ticks' \subseteq Probe!Tick /\ \A k \in ticks' : k.gen <= canvasGen'
    <3>1. \A k \in ticks : k.gen <= canvasGen'
      BY <1>0, <2>1
    <3>2. new.gen <= canvasGen'
      BY <2>0, <2>2
    <3> QED BY <1>0, <2>0, <3>1, <3>2
  <2>4. ASSUME NEW k \in ticks', k.framed, k.gen = canvasGen' PROVE painted = worn'
    <3>1. \A j \in ticks : j.gen # canvasGen'
      BY <1>0, <2>1
    <3>2. k = new
      BY <2>0, <2>4, <3>1
    <3> QED BY <2>0, <2>4, <3>2
  <2>5. Probe!TypeOK'
    BY <1>0, <2>1, <2>2, <2>3 DEF Probe!TypeOK
  <2>6. Probe!Undisturbed'
    BY <2>1, <2>4 DEF Probe!Undisturbed, Probe!Due
  <2> QED BY <2>1, <2>3, <2>5, <2>6 DEF Probe!Inv, Probe!WarnsIfMoved
<1>7. CASE Probe!Preview \/ Probe!RestoreThemeAnchor
  <2>1. /\ misled' = TRUE /\ worn' \in Painted /\ kept' \in Painted \cup {Probe!None}
        /\ UNCHANGED <<honours, painted, canvasGen, awaiting, ticks, answers, warned>>
    BY <1>0, <1>7 DEF Probe!Preview, Probe!RestoreThemeAnchor, Probe!TypeOK
  <2> QED BY <1>0, <2>1 DEF Probe!TypeOK, Probe!Inv, Probe!Undisturbed, Probe!WarnsIfMoved
<1> QED BY <1>1, <1>2, <1>3, <1>4, <1>5, <1>6, <1>7 DEF Probe!Next


------------------------------ (* Keys *) -----------------------------------
HIDE OnScreenAssumption DEF Probe!CanvasAssumption
USE OnScreenAssumption DEF Engine!KeysAssumption

(* Induction over the natural numbers, for a set of them.                   *)
LEMMA Least ==
  ASSUME NEW T, T \subseteq Nat, T # {}
  PROVE  \E n \in T : \A k \in T : n <= k
<1>1. PICK n \in T : \A k \in T : <<k, n>> \notin OpToRel(<, Nat)
  BY WFMin, NatLessThanWellFounded, Zenon
<1>2. \A k \in T : ~(k < n)
  BY <1>1, Zenon DEF OpToRel
<1> QED BY <1>2

LEMMA SetInduction ==
  ASSUME NEW T, T \subseteq Nat, 0 \in T, \A n \in T : n + 1 \in T
  PROVE  T = Nat
<1>1. SUFFICES ASSUME Nat \ T # {} PROVE FALSE
  OBVIOUS
<1>2. PICK n \in Nat \ T : \A y \in Nat \ T : n <= y
  BY <1>1, Least
<1>3. n # 0 /\ n - 1 \in Nat
  BY <1>2
<1>5. n - 1 \in T
  BY <1>2, <1>3
<1>6. (n - 1) + 1 \in T
  BY <1>5
<1> QED BY <1>6, <1>2

LEMMA LargestIs ==
  ASSUME NEW k \in Nat, NEW s \in SUBSET (1 .. (k + 1)), k + 1 \in s
  PROVE  Engine!Max(s) = k + 1
<1>1. \A y \in s : k + 1 >= y
  OBVIOUS
<1>2. \A x \in s : (\A y \in s : x >= y) => x = k + 1
  OBVIOUS
<1> QED BY <1>1, <1>2 DEF Engine!Max

(* FoldLeft takes a sequence's elements one by one: Scan.                   *)
Folds(base, tr, D) ==
  \E g : g = [s \in SUBSET D |-> IF s = {} THEN base ELSE Engine!Scan(g[s \ {Engine!Max(s)}], tr[Engine!Max(s)])]

LEMMA ScanExists ==
  ASSUME NEW base, NEW tr, NEW n \in Nat
  PROVE  Folds(base, tr, 1 .. n)
<1> DEFINE T == {k \in Nat : \E g : g = [s \in SUBSET (1 .. k) |->
                       IF s = {} THEN base ELSE Engine!Scan(g[s \ {Engine!Max(s)}], tr[Engine!Max(s)])]}
<1>1. 0 \in T
  <2>1. \A s \in SUBSET (1 .. 0) : s = {}
    OBVIOUS
  <2> DEFINE g == [s \in SUBSET (1 .. 0) |-> base]
  <2>2. g = [s \in SUBSET (1 .. 0) |->
                       IF s = {} THEN base ELSE Engine!Scan(g[s \ {Engine!Max(s)}], tr[Engine!Max(s)])]
    BY <2>1
  <2> QED BY <2>2
<1>2. ASSUME NEW k \in T PROVE k + 1 \in T
  <2>1. PICK g : g = [s \in SUBSET (1 .. k) |->
                       IF s = {} THEN base ELSE Engine!Scan(g[s \ {Engine!Max(s)}], tr[Engine!Max(s)])]
    OBVIOUS
  <2> DEFINE h == [s \in SUBSET (1 .. (k + 1)) |->
                     IF k + 1 \in s THEN Engine!Scan(g[s \ {k + 1}], tr[k + 1]) ELSE g[s]]
  <2>2. ASSUME NEW s \in SUBSET (1 .. (k + 1))
        PROVE  h[s] = IF s = {} THEN base ELSE Engine!Scan(h[s \ {Engine!Max(s)}], tr[Engine!Max(s)])
    <3>1. CASE k + 1 \in s
      <4>1. Engine!Max(s) = k + 1
        BY <3>1, LargestIs
      <4>2. s \ {k + 1} \in SUBSET (1 .. (k + 1)) /\ k + 1 \notin s \ {k + 1}
        OBVIOUS
      <4>3. h[s \ {k + 1}] = g[s \ {k + 1}]
        BY <4>2
      <4>4. h[s] = Engine!Scan(g[s \ {k + 1}], tr[k + 1]) /\ s # {}
        BY <3>1
      <4> QED BY <4>1, <4>3, <4>4
    <3>2. CASE k + 1 \notin s
      <4>1. s \in SUBSET (1 .. k)
        BY <3>2
      <4>2. h[s] = g[s]
        BY <3>2
      <4>3. g[s] = IF s = {} THEN base ELSE Engine!Scan(g[s \ {Engine!Max(s)}], tr[Engine!Max(s)])
        BY <2>1, <4>1
      <4>4. s \ {Engine!Max(s)} \in SUBSET (1 .. (k + 1)) /\ k + 1 \notin s \ {Engine!Max(s)}
        BY <3>2
      <4>5. h[s \ {Engine!Max(s)}] = g[s \ {Engine!Max(s)}]
        BY <4>4
      <4> QED BY <4>2, <4>3, <4>5
    <3> QED BY <3>1, <3>2
  <2>3. h = [s \in SUBSET (1 .. (k + 1)) |->
               IF s = {} THEN base ELSE Engine!Scan(h[s \ {Engine!Max(s)}], tr[Engine!Max(s)])]
    <3>1. h = [s \in SUBSET (1 .. (k + 1)) |-> h[s]]
      OBVIOUS
    <3> HIDE DEF h
    <3>2. [s \in SUBSET (1 .. (k + 1)) |-> h[s]]
            = [s \in SUBSET (1 .. (k + 1)) |->
                 IF s = {} THEN base ELSE Engine!Scan(h[s \ {Engine!Max(s)}], tr[Engine!Max(s)])]
      BY <2>2
    <3> QED BY <3>1, <3>2
  <2>4. k + 1 \in Nat
    OBVIOUS
  <2> HIDE DEF h
  <2> QED BY <2>3, <2>4, Zenon
<1>3. T = Nat
  <2>1. T \subseteq Nat
    OBVIOUS
  <2> HIDE DEF T
  <2> QED BY <1>1, <1>2, <2>1, SetInduction
<1> QED BY <1>3 DEF Folds

(* ...which is what FoldLeft is.                                            *)
Taken(base, tr) ==
  CHOOSE g : g = [s \in SUBSET DOMAIN tr |->
                    IF s = {} THEN base ELSE Engine!Scan(g[s \ {Engine!Max(s)}], tr[Engine!Max(s)])]

LEMMA FoldIs ==
  ASSUME NEW base, NEW K, NEW tr \in Seq(K)
  PROVE  Engine!FoldLeft(Engine!Scan, base, tr) = Taken(base, tr)[DOMAIN tr]
BY DEF Engine!FoldLeft, Engine!MapThenFoldSet, Taken

From(base, tr, g, s) == IF s = {} THEN base ELSE Engine!Scan(g[s \ {Engine!Max(s)}], tr[Engine!Max(s)])

LEMMA TakenIs ==
  ASSUME NEW base, NEW K, NEW tr \in Seq(K)
  PROVE  \A s \in SUBSET DOMAIN tr : Taken(base, tr)[s] = From(base, tr, Taken(base, tr), s)
<1>1. PICK n \in Nat : DOMAIN tr = 1 .. n
  OBVIOUS
<1>2. Folds(base, tr, 1 .. n)
  BY ScanExists
<1>4. Folds(base, tr, DOMAIN tr)
  BY <1>1, <1>2
<1> DEFINE G == Taken(base, tr)
<1>3. G = [x \in SUBSET DOMAIN tr |->
             IF x = {} THEN base ELSE Engine!Scan(G[x \ {Engine!Max(x)}], tr[Engine!Max(x)])]
  BY <1>4, Zenon DEF Taken, Folds
<1> HIDE DEF G
<1> QED BY <1>3, Zenon DEF G, From

LEMMA UpTo ==
  ASSUME NEW base, NEW K, NEW tr \in Seq(K), NEW k \in Nat, k + 1 <= Len(tr)
  PROVE  Taken(base, tr)[1 .. (k + 1)] = Engine!Scan(Taken(base, tr)[1 .. k], tr[k + 1])
<1>1. PICK s : /\ s = 1 .. (k + 1)
               /\ s \in SUBSET DOMAIN tr /\ s \in SUBSET (1 .. (k + 1)) /\ k + 1 \in s /\ s # {}
  OBVIOUS
<1>2. Engine!Max(s) = k + 1
  BY <1>1, LargestIs
<1>3. s \ {k + 1} = 1 .. k
  BY <1>1
<1>4. Taken(base, tr)[s] = From(base, tr, Taken(base, tr), s)
  BY <1>1, TakenIs
<1> QED BY <1>1, <1>2, <1>3, <1>4 DEF From

LEMMA FoldEmpty ==
  ASSUME NEW base, NEW K, NEW tr \in Seq(K), DOMAIN tr = {}
  PROVE  Engine!FoldLeft(Engine!Scan, base, tr) = base
<1>1. Engine!FoldLeft(Engine!Scan, base, tr) = Taken(base, tr)[{}]
  BY FoldIs
<1>2. Taken(base, tr)[{}] = From(base, tr, Taken(base, tr), {})
  BY TakenIs
<1> QED BY <1>1, <1>2 DEF From

LEMMA FoldAppend ==
  ASSUME NEW base, NEW tr \in Seq(Engine!Press), NEW x \in Engine!Press
  PROVE  Engine!FoldLeft(Engine!Scan, base, Append(tr, x)) = Engine!Scan(Engine!FoldLeft(Engine!Scan, base, tr), x)
<1> DEFINE n   == Len(tr)
           tr2 == Append(tr, x)
           T   == {k \in Nat : k <= n => Taken(base, tr2)[1 .. k] = Taken(base, tr)[1 .. k]}
<1>1. /\ n \in Nat /\ tr2 \in Seq(Engine!Press) /\ Len(tr2) = n + 1 /\ tr2[n + 1] = x
      /\ DOMAIN tr = 1 .. n /\ DOMAIN tr2 = 1 .. (n + 1)
  OBVIOUS
<1>2. \A i \in 1 .. n : tr2[i] = tr[i]
  OBVIOUS
<1> HIDE DEF n, tr2
<1>3. 0 \in T
  <2>1. 1 .. 0 = {}
    OBVIOUS
  <2>2. /\ Taken(base, tr)[{}] = From(base, tr, Taken(base, tr), {})
        /\ Taken(base, tr2)[{}] = From(base, tr2, Taken(base, tr2), {})
    BY <1>1, TakenIs
  <2> QED BY <2>1, <2>2 DEF From
<1>4. ASSUME NEW k \in T PROVE k + 1 \in T
  <2>1. SUFFICES ASSUME k + 1 <= n
                 PROVE  Taken(base, tr2)[1 .. (k + 1)] = Taken(base, tr)[1 .. (k + 1)]
    OBVIOUS
  <2>2. k \in Nat /\ k <= n /\ k + 1 <= Len(tr) /\ k + 1 <= Len(tr2)
    BY <1>1, <2>1 DEF n
  <2>3. Taken(base, tr2)[1 .. k] = Taken(base, tr)[1 .. k]
    BY <2>2
  <2>4. /\ Taken(base, tr)[1 .. (k + 1)] = Engine!Scan(Taken(base, tr)[1 .. k], tr[k + 1])
        /\ Taken(base, tr2)[1 .. (k + 1)] = Engine!Scan(Taken(base, tr2)[1 .. k], tr2[k + 1])
    BY <1>1, <2>2, UpTo
  <2>5. tr2[k + 1] = tr[k + 1]
    BY <1>1, <1>2, <2>2, <2>1
  <2> QED BY <2>3, <2>4, <2>5
<1>5. T = Nat
  <2>1. T \subseteq Nat
    OBVIOUS
  <2> HIDE DEF T
  <2> QED BY <1>3, <1>4, <2>1, SetInduction
<1>6. Taken(base, tr2)[1 .. n] = Taken(base, tr)[1 .. n]
  BY <1>1, <1>5
<1>7. Taken(base, tr2)[1 .. (n + 1)] = Engine!Scan(Taken(base, tr2)[1 .. n], x)
  <2>1. n + 1 <= Len(tr2)
    BY <1>1
  <2>2. Taken(base, tr2)[1 .. (n + 1)] = Engine!Scan(Taken(base, tr2)[1 .. n], tr2[n + 1])
    BY <1>1, <2>1, UpTo
  <2> QED BY <1>1, <2>2
<1>8. Engine!FoldLeft(Engine!Scan, base, tr2) = Taken(base, tr2)[1 .. (n + 1)]
  BY <1>1, FoldIs
<1>9. Engine!FoldLeft(Engine!Scan, base, tr) = Taken(base, tr)[1 .. n]
  BY <1>1, FoldIs
<1> QED BY <1>6, <1>7, <1>8, <1>9 DEF tr2

(* What the analyzer knows after one more record.                           *)
LEMMA TallyNone ==
  ASSUME NEW tr \in Seq(Engine!Press), tr = <<>>
  PROVE  Engine!Tally(tr) = [run |-> <<>>, out |-> <<>>]
<1>1. DOMAIN tr = {}
  OBVIOUS
<1> QED BY <1>1, FoldEmpty DEF Engine!Tally

LEMMA TallyOne ==
  ASSUME NEW tr \in Seq(Engine!Press), NEW rec \in Engine!Press
  PROVE  Engine!Tally(Append(tr, rec)) = Engine!Scan(Engine!Tally(tr), rec)
<1> DEFINE base == [run |-> <<>>, out |-> <<>>]
<1> HIDE DEF base
<1>1. Engine!FoldLeft(Engine!Scan, base, Append(tr, rec)) = Engine!Scan(Engine!FoldLeft(Engine!Scan, base, tr), rec)
  BY FoldAppend
<1> QED BY <1>1 DEF Engine!Tally, base

LEMMA RangeAppend ==
  ASSUME NEW K, NEW s \in Seq(K), NEW x \in K
  PROVE  /\ Engine!Range(Append(s, x)) = Engine!Range(s) \cup {x} /\ Len(Append(s, x)) = Len(s) + 1
         /\ Append(s, x) \in Seq(K)
<1>1. /\ Append(s, x) \in Seq(K) /\ Len(Append(s, x)) = Len(s) + 1
      /\ DOMAIN Append(s, x) = 1 .. (Len(s) + 1) /\ DOMAIN s = 1 .. Len(s) /\ Len(s) \in Nat
  OBVIOUS
<1>2. \A i \in 1 .. Len(s) : Append(s, x)[i] = s[i]
  OBVIOUS
<1>3. Append(s, x)[Len(s) + 1] = x
  OBVIOUS
<1>4. Engine!Range(Append(s, x)) \subseteq Engine!Range(s) \cup {x}
  BY <1>1, <1>2, <1>3 DEF Engine!Range
<1>5. x \in Engine!Range(Append(s, x)) /\ Engine!Range(s) \subseteq Engine!Range(Append(s, x))
  BY <1>1, <1>2, <1>3 DEF Engine!Range
<1> QED BY <1>1, <1>4, <1>5

LEMMA FlushedIs ==
  ASSUME NEW st \in Engine!Tallies, NEW after
  PROVE  /\ Engine!Flushed(st, after) \in Engine!Tallies /\ Engine!Flushed(st, after).run = <<>>
         /\ \/ Engine!Flushed(st, after).out = st.out
            \/ st.run # <<>> /\ Engine!Flushed(st, after).out = Append(st.out, st.run)
         /\ after # <<>> /\ st.run \o after \in Bound => Engine!Flushed(st, after).out = st.out
         /\ st.run = <<>> => Engine!Flushed(st, after).out = st.out
         /\ st.run # <<>> /\ after = <<>> => Engine!Flushed(st, after).out = Append(st.out, st.run)
BY DEF Engine!Flushed, Engine!Tallies

LEMMA ScanIs ==
  ASSUME NEW st \in Engine!Tallies, NEW rec \in Engine!Press
  PROVE  Engine!Scan(st, rec) \in Engine!Tallies
<1>1. Engine!Flushed(st, <<rec.key>>) \in Engine!Tallies /\ Engine!Flushed(st, <<>>) \in Engine!Tallies
  BY FlushedIs
<1>2. rec.key \in KeyName
  BY DEF Engine!Press
<1>3. ASSUME NEW from \in Engine!Tallies
      PROVE  [from EXCEPT !.run = Append(@, rec.key)] \in Engine!Tallies
  <2>1. from.run \in Seq(KeyName) /\ from.out \in Seq(Seq(KeyName))
    BY DEF Engine!Tallies
  <2>2. Append(from.run, rec.key) \in Seq(KeyName)
    BY <1>2, <2>1
  <2>3. [from EXCEPT !.run = Append(@, rec.key)]
          = [run |-> Append(from.run, rec.key), out |-> from.out]
    <3> DEFINE r == Append(from.run, rec.key)
    <3> HIDE DEF r
    <3>1. from = [run |-> from.run, out |-> from.out]
      BY DEF Engine!Tallies
    <3>2. [from EXCEPT !.run = r] = [run |-> r, out |-> from.out]
      BY <3>1
    <3> QED BY <3>2 DEF r
  <2> QED BY <2>1, <2>2, <2>3 DEF Engine!Tallies
<1>4. CASE ~rec.held
  BY <1>1, <1>4 DEF Engine!Scan
<1>5. CASE rec.held
  <2> DEFINE from == IF st.run # <<>> /\ rec.late THEN Engine!Flushed(st, <<>>) ELSE st
  <2>1. from \in Engine!Tallies
    BY <1>1
  <2>2. Engine!Scan(st, rec) = [from EXCEPT !.run = Append(@, rec.key)]
    BY <1>5 DEF Engine!Scan
  <2> HIDE DEF from
  <2> QED BY <1>3, <2>1, <2>2
<1> QED BY <1>4, <1>5

LEMMA EngineInit == Engine!Init => Engine!Inv
<1> SUFFICES ASSUME Engine!Init PROVE Engine!Inv
  OBVIOUS
<1>1. Engine!TypeOK
  <2>1. surface \in Engine!Surface /\ pending.seq = <<>>
    BY DEF Engine!Init, Engine!Surface, Engine!Empty
  <2>2. trace \in Seq(Engine!Press) /\ Len(trace) = 0 /\ abandoned \in Seq(Seq(KeyName))
    BY DEF Engine!Init
  <2>3. pending \in [seq : Seq(KeyName), on : Engine!Surface, n : 0 .. Len(trace)]
    <3>1. Engine!Confirm \in Engine!Surface /\ 0 \in 0 .. Len(trace) /\ <<>> \in Seq(KeyName)
      BY <2>2 DEF Engine!Surface
    <3> QED BY <3>1 DEF Engine!Init, Engine!Empty
  <2>4. Len(trace) <= MaxPresses /\ seqGen \in 0 .. Len(trace)
    BY <2>2 DEF Engine!Init
  <2>5. timers \subseteq [gen : 1 .. seqGen, n : 1 .. Len(trace)]
    BY DEF Engine!Init
  <2>6. expired \in BOOLEAN /\ strayed \in BOOLEAN
    BY DEF Engine!Init
  <2> QED BY <2>1, <2>2, <2>3, <2>4, <2>5, <2>6 DEF Engine!TypeOK
<1>2. trace \in Seq(Engine!Press) /\ trace = <<>>
  BY <1>1 DEF Engine!Init, Engine!TypeOK
<1>3. Engine!Tally(trace) = [run |-> <<>>, out |-> <<>>]
  BY <1>2, TallyNone
<1>4. Engine!Tally(trace) \in Engine!Tallies
  BY <1>3 DEF Engine!Tallies
<1>5. Engine!LastTimer /\ Engine!TimersRunTheirOwn
  BY DEF Engine!Init, Engine!LastTimer, Engine!TimersRunTheirOwn, Engine!NoRun, Engine!Empty
<1>6. Engine!TalliedSoFar
  <2>1. Engine!Range(<<>>) = {} /\ Len(<<>>) = 0
    BY DEF Engine!Range
  <2> QED BY <1>3, <2>1 DEF Engine!Init, Engine!TalliedSoFar, Engine!Empty
<1> QED BY <1>1, <1>4, <1>5, <1>6 DEF Engine!Inv

(* A record more, and what the sequencer and the analyzer make of it.       *)
LEMMA InputIs ==
  ASSUME Engine!Inv, NEW k \in KeyName
  PROVE  /\ Engine!Input(k) \in Seq(KeyName) /\ Engine!Input(k) # <<>>
         /\ Engine!Input(k) = <<k>> \/ (Engine!Input(k) = Append(pending.seq, k) /\ Engine!Fits(Engine!Input(k)))
         /\ pending.seq = <<>> => Engine!Input(k) = <<k>>
         /\ pending.seq # <<>> /\ Len(Engine!Input(k)) # 1 =>
              Engine!Input(k) = Append(pending.seq, k) /\ Engine!Fits(Engine!Input(k))
<1>1. pending.seq \in Seq(KeyName)
  BY DEF Engine!Inv, Engine!TypeOK
<1>2. Append(pending.seq, k) \in Seq(KeyName) /\ Append(pending.seq, k) # <<>>
  BY <1>1
<1>3. pending.seq = <<>> => Append(pending.seq, k) = <<k>>
  BY <1>1
<1>4. Len(<<k>>) = 1 /\ <<k>> \in Seq(KeyName) /\ <<k>> # <<>>
  OBVIOUS
<1> QED BY <1>2, <1>3, <1>4 DEF Engine!Input

LEMMA TimersStep ==
  ASSUME Engine!Inv, Engine!Next PROVE Engine!LastTimer' /\ Engine!TimersRunTheirOwn'
<1>1. /\ seqGen \in Nat /\ \A tick \in timers : tick.gen \in Nat /\ tick.gen <= seqGen
      /\ Engine!LastTimer /\ Engine!TimersRunTheirOwn
  BY DEF Engine!Inv, Engine!TypeOK
<1>2. ASSUME NEW k \in KeyName, Engine!PressKey(k) PROVE Engine!LastTimer' /\ Engine!TimersRunTheirOwn'
  <2> DEFINE n == Len(trace) + 1
  <2>1. Engine!TimersRunTheirOwn'
    BY <1>1, <1>2 DEF Engine!PressKey, Engine!TimersRunTheirOwn
  <2>2. CASE Engine!Longer(Engine!Input(k))
    <3>1. /\ seqGen' = seqGen + 1 /\ timers' = timers \cup {[gen |-> seqGen + 1, n |-> n]}
          /\ pending'.n = n
      BY <1>2, <2>2 DEF Engine!PressKey
    <3>2. ASSUME NEW tick \in timers', tick.gen = seqGen' PROVE tick.n = pending'.n
      <4>1. tick \notin timers
        BY <1>1, <3>1, <3>2
      <4> QED BY <3>1, <3>2, <4>1
    <3> QED BY <2>1, <3>2 DEF Engine!LastTimer
  <2>3. CASE ~Engine!Longer(Engine!Input(k))
    <3>1. pending' = Engine!Empty
      BY <1>2, <2>3 DEF Engine!PressKey
    <3> QED BY <2>1, <3>1 DEF Engine!LastTimer, Engine!Empty
  <2> QED BY <2>2, <2>3
<1>3. ASSUME NEW k \in KeyName, Engine!PressElsewhere(k) PROVE Engine!LastTimer' /\ Engine!TimersRunTheirOwn'
  BY <1>1, <1>3 DEF Engine!PressElsewhere, Engine!LastTimer, Engine!TimersRunTheirOwn
<1>4. ASSUME NEW tick \in timers, Engine!Timeout(tick) PROVE Engine!LastTimer' /\ Engine!TimersRunTheirOwn'
  <2>1. CASE Engine!Stale(tick)
    BY <1>1, <1>4, <2>1 DEF Engine!Timeout, Engine!LastTimer, Engine!TimersRunTheirOwn
  <2>2. CASE ~Engine!Stale(tick)
    <3>1. tick.n = pending.n
      BY <1>1, <2>2 DEF Engine!Stale, Engine!LastTimer
    <3>2. pending' = Engine!Empty
      BY <1>4, <2>2 DEF Engine!Timeout
    <3>3. ran' = ran \/ ran' = [seq |-> pending.seq, on |-> surface, armed |-> tick.n, last |-> pending.n]
      BY <1>4, <2>2 DEF Engine!Timeout
    <3> QED BY <1>1, <3>1, <3>2, <3>3 DEF Engine!LastTimer, Engine!TimersRunTheirOwn, Engine!Empty
  <2> QED BY <2>1, <2>2
<1>5. ASSUME NEW s \in Engine!Surface, Engine!Surfaces(s) PROVE Engine!LastTimer' /\ Engine!TimersRunTheirOwn'
  BY <1>1, <1>5 DEF Engine!Surfaces, Engine!LastTimer, Engine!TimersRunTheirOwn
<1> QED BY <1>2, <1>3, <1>4, <1>5 DEF Engine!Next

LEMMA EngineTyped ==
  ASSUME Engine!Inv, Engine!Next PROVE Engine!TypeOK'
<1>1. /\ surface \in Engine!Surface /\ pending.seq \in Seq(KeyName) /\ pending.on \in Engine!Surface
      /\ pending \in [seq : Seq(KeyName), on : Engine!Surface, n : 0 .. Len(trace)]
      /\ pending.seq # <<>> => pending.on \in Browse
      /\ trace \in Seq(Engine!Press) /\ Len(trace) \in Nat /\ Len(trace) <= MaxPresses
      /\ seqGen \in Nat /\ seqGen <= Len(trace)
      /\ timers \subseteq [gen : 1 .. seqGen, n : 1 .. Len(trace)]
      /\ expired \in BOOLEAN /\ strayed \in BOOLEAN /\ abandoned \in Seq(Seq(KeyName))
  BY DEF Engine!Inv, Engine!TypeOK
<1>2. Engine!Empty \in [seq : Seq(KeyName), on : Engine!Surface, n : Nat] /\ Engine!Empty.n = 0 /\ Engine!Empty.seq = <<>>
  <2>1. <<>> \in Seq(KeyName) /\ Engine!Confirm \in Engine!Surface
    BY DEF Engine!Surface
  <2> QED BY <2>1 DEF Engine!Empty
<1>3. ASSUME NEW rec \in Engine!Press, trace' = Append(trace, rec)
      PROVE  trace' \in Seq(Engine!Press) /\ Len(trace') = Len(trace) + 1
  BY <1>1, <1>3
<1>4. Append(abandoned, pending.seq) \in Seq(Seq(KeyName))
  BY <1>1
<1>5. ASSUME NEW k \in KeyName, Engine!PressKey(k) PROVE Engine!TypeOK'
  <2> DEFINE s == Engine!Input(k)
             n == Len(trace) + 1
             rec == [key |-> k, surface |-> surface, acted |-> s \in Bound /\ ~Engine!Longer(s),
                     held |-> Engine!Longer(s), late |-> expired]
  <2>1. rec \in Engine!Press
    <3>1. Engine!Longer(s) \in BOOLEAN
      BY DEF Engine!Longer
    <3> QED BY <1>1, <3>1 DEF Engine!Press
  <2>2. trace' = Append(trace, rec)
    BY <1>5 DEF Engine!PressKey
  <2>3. trace' \in Seq(Engine!Press) /\ Len(trace') = n /\ n <= MaxPresses
    BY <1>3, <1>5, <2>1, <2>2 DEF Engine!PressKey
  <2>4. s \in Seq(KeyName)
    BY InputIs
  <2>5. surface \in Browse /\ surface' = surface /\ expired' = FALSE
    BY <1>5 DEF Engine!PressKey
  <2>6. strayed' \in BOOLEAN
    BY <1>1, <1>5 DEF Engine!PressKey, Engine!Longer
  <2>7. abandoned' \in Seq(Seq(KeyName))
    BY <1>1, <1>4, <1>5 DEF Engine!PressKey
  <2> HIDE DEF s, rec
  <2>8. CASE Engine!Longer(s)
    <3>1. /\ seqGen' = seqGen + 1 /\ timers' = timers \cup {[gen |-> seqGen + 1, n |-> n]}
          /\ pending' = [seq |-> s, on |-> IF Len(s) = 1 THEN surface ELSE pending.on, n |-> n]
      BY <1>5, <2>8 DEF Engine!PressKey, s
    <3>2. seqGen' \in 0 .. Len(trace')
      BY <1>1, <2>3, <3>1
    <3>3. timers' \subseteq [gen : 1 .. seqGen', n : 1 .. Len(trace')]
      <4>1. ASSUME NEW x \in timers' PROVE x \in [gen : 1 .. (seqGen + 1), n : 1 .. n]
        <5>1. CASE x \in timers
          BY <1>1, <5>1
        <5>2. CASE x = [gen |-> seqGen + 1, n |-> n]
          BY <1>1, <5>2
        <5> QED BY <3>1, <5>1, <5>2
      <4> QED BY <2>3, <3>1, <4>1
    <3>4. pending'.seq # <<>> => pending'.on \in Browse
      <4>1. CASE Len(s) = 1
        BY <2>5, <3>1, <4>1
      <4>2. CASE Len(s) # 1
        <5>1. pending.seq # <<>>
          <6>1. s = <<k>> => Len(s) = 1
            OBVIOUS
          <6> QED BY <4>2, <6>1, InputIs DEF s
        <5> QED BY <1>1, <3>1, <4>2, <5>1
      <4> QED BY <4>1, <4>2
    <3>5. pending' \in [seq : Seq(KeyName), on : Engine!Surface, n : 0 .. Len(trace')]
      <4>1. (IF Len(s) = 1 THEN surface ELSE pending.on) \in Engine!Surface /\ n \in 0 .. Len(trace')
        BY <1>1, <2>3
      <4> QED BY <2>4, <3>1, <4>1
    <3> QED BY <1>1, <2>3, <2>5, <2>6, <2>7, <3>2, <3>3, <3>4, <3>5 DEF Engine!TypeOK
  <2>9. CASE ~Engine!Longer(s)
    <3>1. seqGen' = seqGen /\ timers' = timers /\ pending' = Engine!Empty
      BY <1>5, <2>9 DEF Engine!PressKey, s
    <3>2. seqGen' \in 0 .. Len(trace')
      BY <1>1, <2>3, <3>1
    <3>3. timers' \subseteq [gen : 1 .. seqGen', n : 1 .. Len(trace')]
      BY <1>1, <2>3, <3>1
    <3>4. pending' \in [seq : Seq(KeyName), on : Engine!Surface, n : 0 .. Len(trace')]
      BY <1>2, <2>3, <3>1, <1>1
    <3> QED BY <1>1, <1>2, <2>3, <2>5, <2>6, <2>7, <3>1, <3>2, <3>3, <3>4 DEF Engine!TypeOK
  <2> QED BY <2>8, <2>9
<1>6. ASSUME NEW k \in KeyName, Engine!PressElsewhere(k) PROVE Engine!TypeOK'
  <2> DEFINE rec == [key |-> k, surface |-> surface, held |-> FALSE, late |-> expired,
                     acted |-> surface = Engine!Confirm /\ k \in AcceptKeys]
  <2>1. rec \in Engine!Press
    BY <1>1 DEF Engine!Press
  <2>2. trace' = Append(trace, rec)
    BY <1>6 DEF Engine!PressElsewhere
  <2> HIDE DEF rec
  <2>3. trace' \in Seq(Engine!Press) /\ Len(trace') = Len(trace) + 1 /\ Len(trace') <= MaxPresses
    BY <1>1, <1>3, <1>6, <2>1, <2>2 DEF Engine!PressElsewhere
  <2>4. UNCHANGED <<surface, pending, seqGen, timers, ran, abandoned>>
    BY <1>6 DEF Engine!PressElsewhere
  <2>5. expired' \in BOOLEAN /\ strayed' \in BOOLEAN
    BY <1>1, <1>6 DEF Engine!PressElsewhere
  <2>6. pending' \in [seq : Seq(KeyName), on : Engine!Surface, n : 0 .. Len(trace')]
    <3>1. pending.n \in 0 .. Len(trace')
      BY <1>1, <2>3
    <3> QED BY <1>1, <2>4, <3>1
  <2>7. timers' \subseteq [gen : 1 .. seqGen', n : 1 .. Len(trace')]
    BY <1>1, <2>3, <2>4
  <2>8. seqGen' \in 0 .. Len(trace')
    BY <1>1, <2>3, <2>4
  <2> QED BY <1>1, <2>3, <2>4, <2>5, <2>6, <2>7, <2>8 DEF Engine!TypeOK
<1>7. ASSUME NEW tick \in timers, Engine!Timeout(tick) PROVE Engine!TypeOK'
  <2>1. UNCHANGED <<surface, seqGen, trace>> /\ timers' \subseteq timers
    BY <1>7 DEF Engine!Timeout
  <2>2. pending' = pending \/ pending' = Engine!Empty
    BY <1>7 DEF Engine!Timeout
  <2>3. abandoned' \in Seq(Seq(KeyName))
    BY <1>1, <1>4, <1>7 DEF Engine!Timeout
  <2>4. expired' \in BOOLEAN /\ strayed' \in BOOLEAN
    BY <1>1, <1>7 DEF Engine!Timeout
  <2>5. Engine!Empty \in [seq : Seq(KeyName), on : Engine!Surface, n : 0 .. Len(trace)]
    BY <1>1, <1>2
  <2>6. /\ pending' \in [seq : Seq(KeyName), on : Engine!Surface, n : 0 .. Len(trace)]
        /\ pending'.seq # <<>> => pending'.on \in Browse
    BY <1>1, <1>2, <2>2, <2>5
  <2>7. seqGen' \in 0 .. Len(trace')
    BY <1>1, <2>1
  <2> QED BY <1>1, <2>1, <2>3, <2>4, <2>6, <2>7 DEF Engine!TypeOK
<1>8. ASSUME NEW s \in Engine!Surface, Engine!Surfaces(s) PROVE Engine!TypeOK'
  BY <1>8 DEF Engine!Surfaces, Engine!Inv, Engine!TypeOK
<1> QED BY <1>5, <1>6, <1>7, <1>8 DEF Engine!Next

(* What a press that is not held leaves of the run: nothing; it is reported *)
(* unless the keys complete a binding.                                      *)
LEMMA LeftOf ==
  ASSUME NEW st \in Engine!Tallies, NEW from, NEW given \in Seq(Seq(KeyName)), NEW after,
         from = Engine!Flushed(st, after),
         Engine!Range(st.out) \subseteq Engine!Range(given), Len(st.out) <= Len(given),
         st.run # <<>> =>
           \/ st.run \in Engine!Range(given) /\ Len(st.out) < Len(given)
           \/ after # <<>> /\ st.run \o after \in Bound
  PROVE  from.run = <<>> /\ Engine!Range(from.out) \subseteq Engine!Range(given) /\ Len(from.out) <= Len(given)
<1>1. /\ from.run = <<>>
      /\ \/ from.out = st.out
         \/ st.run # <<>> /\ from.out = Append(st.out, st.run)
      /\ after # <<>> /\ st.run \o after \in Bound => from.out = st.out
  BY FlushedIs
<1>2. CASE from.out = st.out
  BY <1>1, <1>2
<1>3. CASE from.out # st.out
  <2>1. /\ st.run # <<>> /\ from.out = Append(st.out, st.run)
        /\ st.run \in Engine!Range(given) /\ Len(st.out) < Len(given)
    BY <1>1, <1>3
  <2>2. st.out \in Seq(Seq(KeyName)) /\ st.run \in Seq(KeyName)
    BY DEF Engine!Tallies
  <2>3. Engine!Range(from.out) = Engine!Range(st.out) \cup {st.run} /\ Len(from.out) = Len(st.out) + 1
    BY <2>1, <2>2, RangeAppend
  <2>4. Len(st.out) \in Nat /\ Len(given) \in Nat
    BY <2>2
  <2> QED BY <1>1, <2>1, <2>3, <2>4
<1> QED BY <1>2, <1>3

LEMMA TallyStep ==
  ASSUME Engine!Inv, Engine!Next PROVE Engine!Tally(trace') \in Engine!Tallies /\ Engine!TalliedSoFar'
<1> DEFINE st == Engine!Tally(trace)
           st2 == Engine!Tally(trace')
<1>1. /\ pending.seq \in Seq(KeyName) /\ trace \in Seq(Engine!Press)
      /\ abandoned \in Seq(Seq(KeyName)) /\ expired \in BOOLEAN /\ strayed \in BOOLEAN
      /\ surface \in Engine!Surface /\ st \in Engine!Tallies
  BY DEF Engine!Inv, Engine!TypeOK
<1>2. ~strayed =>
        /\ pending.seq # <<>> => st.run = pending.seq /\ ~expired
        /\ pending.seq = <<>> /\ st.run # <<>> =>
             expired /\ st.run \in Engine!Range(abandoned) /\ Len(st.out) < Len(abandoned)
        /\ Engine!Range(st.out) \subseteq Engine!Range(abandoned) /\ Len(st.out) <= Len(abandoned)
  BY DEF Engine!Inv, Engine!TalliedSoFar
<1>3. SUFFICES
        /\ st2 \in Engine!Tallies
        /\ ~strayed' =>
             /\ pending'.seq # <<>> => st2.run = pending'.seq /\ ~expired'
             /\ pending'.seq = <<>> /\ st2.run # <<>> =>
                  expired' /\ st2.run \in Engine!Range(abandoned') /\ Len(st2.out) < Len(abandoned')
             /\ Engine!Range(st2.out) \subseteq Engine!Range(abandoned') /\ Len(st2.out) <= Len(abandoned')
  BY DEF Engine!TalliedSoFar
<1> DEFINE Goal ==
        /\ st2 \in Engine!Tallies
        /\ ~strayed' =>
             /\ pending'.seq # <<>> => st2.run = pending'.seq /\ ~expired'
             /\ pending'.seq = <<>> /\ st2.run # <<>> =>
                  expired' /\ st2.run \in Engine!Range(abandoned') /\ Len(st2.out) < Len(abandoned')
             /\ Engine!Range(st2.out) \subseteq Engine!Range(abandoned') /\ Len(st2.out) <= Len(abandoned')
<1>4. Engine!Empty.seq = <<>>
  BY DEF Engine!Empty
<1>5. /\ Append(abandoned, pending.seq) \in Seq(Seq(KeyName))
      /\ Engine!Range(Append(abandoned, pending.seq)) = Engine!Range(abandoned) \cup {pending.seq}
      /\ Len(Append(abandoned, pending.seq)) = Len(abandoned) + 1
      /\ Len(abandoned) \in Nat /\ Len(st.out) \in Nat
  <2>1. st.out \in Seq(Seq(KeyName))
    BY <1>1 DEF Engine!Tallies
  <2> QED BY <1>1, <2>1, RangeAppend
<1>6. ASSUME NEW k \in KeyName, Engine!PressKey(k) PROVE Goal
  <2> DEFINE s == Engine!Input(k)
             rec == [key |-> k, surface |-> surface, acted |-> s \in Bound /\ ~Engine!Longer(s),
                     held |-> Engine!Longer(s), late |-> expired]
             fresh == Len(s) = 1 /\ pending.seq # <<>>
  <2>1. rec \in Engine!Press /\ trace' = Append(trace, rec)
    <3>1. Engine!Longer(s) \in BOOLEAN
      BY DEF Engine!Longer
    <3> QED BY <1>1, <1>6, <3>1 DEF Engine!Press, Engine!PressKey
  <2>2. st2 = Engine!Scan(st, rec)
    BY <1>1, <2>1, TallyOne
  <2>3. st2 \in Engine!Tallies
    BY <1>1, <2>1, <2>2, ScanIs
  <2>4. rec.key = k /\ rec.held = Engine!Longer(s) /\ rec.late = expired
    OBVIOUS
  <2>5. abandoned' = (IF fresh THEN Append(abandoned, pending.seq) ELSE abandoned)
    BY <1>6 DEF Engine!PressKey
  <2>6. ~strayed' => ~strayed /\ ~(fresh /\ Engine!Longer(s))
    BY <1>6 DEF Engine!PressKey
  <2>7. expired' = FALSE
    BY <1>6 DEF Engine!PressKey
  <2>8. pending'.seq = IF Engine!Longer(s) THEN s ELSE <<>>
    BY <1>6, <1>4 DEF Engine!PressKey
  <2>9. /\ s = <<k>> \/ (s = Append(pending.seq, k) /\ Engine!Fits(s))
        /\ pending.seq = <<>> => s = <<k>>
        /\ pending.seq # <<>> /\ ~fresh => s = Append(pending.seq, k) /\ Engine!Fits(s)
        /\ s # <<>>
    BY InputIs
  <2> HIDE DEF rec, s
  <2>10. CASE ~strayed' /\ Engine!Longer(s)
    <3> DEFINE from == IF st.run # <<>> /\ rec.late THEN Engine!Flushed(st, <<>>) ELSE st
    <3>1. abandoned' = abandoned /\ ~strayed /\ ~fresh
      BY <2>10, <2>5, <2>6
    <3>2. st2 = [from EXCEPT !.run = Append(@, rec.key)] /\ from \in Engine!Tallies
      BY <1>1, <2>2, <2>4, <2>10, FlushedIs DEF Engine!Scan
    <3>3. /\ Engine!Range(from.out) \subseteq Engine!Range(abandoned) /\ Len(from.out) <= Len(abandoned)
          /\ Append(from.run, k) = s
      <4>1. CASE pending.seq # <<>>
        <5>1. from = st
          BY <1>2, <2>4, <3>1, <4>1
        <5> QED BY <1>2, <2>9, <3>1, <4>1, <5>1
      <4>2. CASE pending.seq = <<>> /\ st.run = <<>>
        <5>1. from = st /\ Append(<<>>, k) = <<k>>
          BY <4>2
        <5> QED BY <1>2, <2>9, <3>1, <4>2, <5>1
      <4>3. CASE pending.seq = <<>> /\ st.run # <<>>
        <5>1. from = Engine!Flushed(st, <<>>)
          BY <1>2, <2>4, <3>1, <4>3
        <5>2. st.run \in Engine!Range(abandoned) /\ Len(st.out) < Len(abandoned)
          BY <1>2, <3>1, <4>3
        <5> HIDE DEF from
        <5>3. /\ from.run = <<>>
              /\ Engine!Range(from.out) \subseteq Engine!Range(abandoned) /\ Len(from.out) <= Len(abandoned)
          BY <1>1, <1>2, <3>1, <5>1, <5>2, LeftOf
        <5>4. Append(<<>>, k) = <<k>>
          OBVIOUS
        <5> QED BY <2>9, <4>3, <5>3, <5>4
      <4> QED BY <4>1, <4>2, <4>3
    <3> HIDE DEF from
    <3>4. st2.run = Append(from.run, k) /\ st2.out = from.out
      BY <2>4, <3>2 DEF Engine!Tallies
    <3> HIDE DEF st2
    <3> QED BY <2>3, <2>7, <2>8, <2>9, <2>10, <3>1, <3>3, <3>4 DEF st2
  <2>11. CASE ~strayed' /\ ~Engine!Longer(s)
    <3>1. st2 = Engine!Flushed(st, <<k>>)
      BY <2>2, <2>4, <2>11 DEF Engine!Scan
    <3>2. ~strayed
      BY <2>6, <2>11
    <3>3. pending.seq # <<>> /\ ~fresh => pending.seq \o <<k>> \in Bound
      <4>0. pending.seq \in Seq(KeyName) /\ k \in KeyName
        BY <1>1
      <4>1. Append(pending.seq, k) = pending.seq \o <<k>>
        BY <4>0, AppendIsConcat
      <4> QED BY <2>9, <2>11, <4>1 DEF Engine!Fits
    <3>4. /\ Engine!Range(st.out) \subseteq Engine!Range(abandoned') /\ Len(st.out) <= Len(abandoned')
          /\ abandoned' \in Seq(Seq(KeyName))
      BY <1>1, <1>2, <1>5, <2>5, <3>2
    <3>5. st.run # <<>> =>
            \/ st.run \in Engine!Range(abandoned') /\ Len(st.out) < Len(abandoned')
            \/ <<k>> # <<>> /\ st.run \o <<k>> \in Bound
      <4>1. CASE pending.seq = <<>>
        BY <1>2, <2>5, <3>2, <4>1
      <4>2. CASE pending.seq # <<>> /\ fresh
        <5>1. st.run = pending.seq /\ Len(st.out) <= Len(abandoned)
          BY <1>2, <3>2, <4>2
        <5> QED BY <1>5, <2>5, <4>2, <5>1
      <4>3. CASE pending.seq # <<>> /\ ~fresh
        <5>1. st.run = pending.seq
          BY <1>2, <3>2, <4>3
        <5> QED BY <3>3, <4>3, <5>1
      <4> QED BY <4>1, <4>2, <4>3
    <3>6. st2.run = <<>> /\ Engine!Range(st2.out) \subseteq Engine!Range(abandoned') /\ Len(st2.out) <= Len(abandoned')
      BY <1>1, <3>1, <3>4, <3>5, LeftOf
    <3> QED BY <2>3, <2>8, <2>11, <3>6
  <2> QED BY <2>3, <2>10, <2>11
<1>7. ASSUME NEW k \in KeyName, Engine!PressElsewhere(k) PROVE Goal
  <2> DEFINE rec == [key |-> k, surface |-> surface, held |-> FALSE, late |-> expired,
                     acted |-> surface = Engine!Confirm /\ k \in AcceptKeys]
  <2>1. rec \in Engine!Press /\ trace' = Append(trace, rec)
    BY <1>1, <1>7 DEF Engine!Press, Engine!PressElsewhere
  <2>2. st2 = Engine!Flushed(st, <<k>>)
    <3>1. st2 = Engine!Scan(st, rec)
      BY <1>1, <2>1, TallyOne
    <3> QED BY <3>1 DEF Engine!Scan
  <2>3. st2 \in Engine!Tallies
    BY <1>1, <2>2, FlushedIs
  <2>4. SUFFICES ASSUME ~strayed' PROVE Goal
    BY <2>3
  <2>5. ~strayed /\ pending.seq = <<>> /\ pending' = pending /\ abandoned' = abandoned
    BY <1>7, <2>4 DEF Engine!PressElsewhere
  <2>6. st2.run = <<>> /\ Engine!Range(st2.out) \subseteq Engine!Range(abandoned) /\ Len(st2.out) <= Len(abandoned)
    BY <1>1, <1>2, <2>2, <2>5, LeftOf
  <2> QED BY <2>3, <2>5, <2>6
<1>8. ASSUME NEW tick \in timers, Engine!Timeout(tick) PROVE Goal
  <2>1. st2 = st
    BY <1>8 DEF Engine!Timeout
  <2>2. CASE Engine!Stale(tick)
    BY <1>1, <1>2, <1>8, <2>1, <2>2 DEF Engine!Timeout
  <2>3. CASE ~Engine!Stale(tick)
    <3>1. pending' = Engine!Empty /\ expired' /\ pending.seq # <<>>
      BY <1>8, <2>3 DEF Engine!Timeout, Engine!Stale
    <3>2. CASE pending.seq \in Bound
      <4>1. strayed'
        BY <1>8, <2>3, <3>2 DEF Engine!Timeout
      <4> QED BY <1>1, <2>1, <4>1
    <3>3. CASE pending.seq \notin Bound
      <4>1. abandoned' = Append(abandoned, pending.seq) /\ strayed' = strayed
        BY <1>8, <2>3, <3>3 DEF Engine!Timeout
      <4>2. SUFFICES ASSUME ~strayed PROVE Goal
        BY <1>1, <2>1, <4>1
      <4>3. st.run = pending.seq /\ Engine!Range(st.out) \subseteq Engine!Range(abandoned) /\ Len(st.out) <= Len(abandoned)
        BY <1>2, <3>1, <4>2
      <4>4. /\ Engine!Range(st.out) \subseteq Engine!Range(abandoned') /\ Len(st.out) < Len(abandoned')
            /\ st.run \in Engine!Range(abandoned')
        BY <1>5, <4>1, <4>3
      <4> QED BY <1>1, <1>4, <1>5, <2>1, <3>1, <4>4
    <3> QED BY <3>2, <3>3
  <2> QED BY <2>2, <2>3
<1>9. ASSUME NEW x \in Engine!Surface, Engine!Surfaces(x) PROVE Goal
  BY <1>1, <1>2, <1>9 DEF Engine!Surfaces
<1> QED BY <1>6, <1>7, <1>8, <1>9 DEF Engine!Next

LEMMA EngineStep == Engine!Inv /\ [Engine!Next]_engineVars => Engine!Inv'
<1>1. CASE Engine!Inv /\ Engine!Next
  BY <1>1, EngineTyped, TimersStep, TallyStep DEF Engine!Inv
<1>2. CASE Engine!Inv /\ UNCHANGED engineVars
  BY <1>2 DEF engineVars, Engine!Inv, Engine!TypeOK, Engine!LastTimer, Engine!TimersRunTheirOwn, Engine!TalliedSoFar
<1> QED BY <1>1, <1>2

LEMMA EngineReport == Engine!Inv => Engine!ReportIsTrue
<1> SUFFICES ASSUME Engine!Inv, ~strayed
             PROVE  Engine!Range(Engine!Report) \subseteq Engine!Range(Engine!GivenUp) /\ Len(Engine!Report) <= Len(Engine!GivenUp)
  BY DEF Engine!ReportIsTrue
<1> DEFINE st == Engine!Tally(trace)
<1>1. /\ pending.seq \in Seq(KeyName) /\ abandoned \in Seq(Seq(KeyName)) /\ st \in Engine!Tallies
  BY DEF Engine!Inv, Engine!TypeOK
<1>2. /\ pending.seq # <<>> => st.run = pending.seq /\ ~expired
      /\ pending.seq = <<>> /\ st.run # <<>> =>
           expired /\ st.run \in Engine!Range(abandoned) /\ Len(st.out) < Len(abandoned)
      /\ Engine!Range(st.out) \subseteq Engine!Range(abandoned) /\ Len(st.out) <= Len(abandoned)
  BY DEF Engine!Inv, Engine!TalliedSoFar
<1>3. Engine!Report = Engine!Flushed(st, <<>>).out
  BY DEF Engine!Report, Engine!AbandonedSequences
<1>4. Len(st.out) \in Nat /\ Len(abandoned) \in Nat
  <2>1. st.out \in Seq(Seq(KeyName))
    BY <1>1 DEF Engine!Tallies
  <2> QED BY <1>1, <2>1
<1>5. CASE pending.seq # <<>>
  <2>1. Engine!GivenUp = Append(abandoned, pending.seq)
    <3>1. Append(abandoned, pending.seq) = abandoned \o <<pending.seq>>
      BY <1>1
    <3> QED BY <1>5, <3>1 DEF Engine!GivenUp
  <2>2. /\ Engine!Range(Engine!GivenUp) = Engine!Range(abandoned) \cup {pending.seq}
        /\ Len(Engine!GivenUp) = Len(abandoned) + 1 /\ Engine!GivenUp \in Seq(Seq(KeyName))
    BY <1>1, <2>1, RangeAppend
  <2>3. /\ Engine!Range(st.out) \subseteq Engine!Range(Engine!GivenUp) /\ Len(st.out) <= Len(Engine!GivenUp)
        /\ st.run \in Engine!Range(Engine!GivenUp) /\ Len(st.out) < Len(Engine!GivenUp)
    BY <1>2, <1>4, <1>5, <2>2
  <2> QED BY <1>1, <1>3, <2>2, <2>3, LeftOf
<1>6. CASE pending.seq = <<>>
  <2>1. Engine!GivenUp = abandoned
    <3>1. abandoned \o <<>> = abandoned
      BY <1>1
    <3> QED BY <1>6, <3>1 DEF Engine!GivenUp
  <2> QED BY <1>1, <1>2, <1>3, <1>6, <2>1, LeftOf
<1> QED BY <1>5, <1>6


------------------------------ (* Logs *) -----------------------------------
HIDE OnScreenAssumption DEF Engine!KeysAssumption
USE OnScreenAssumption DEF Lines!LogsAssumption

(* Logs' own instance of FiniteSets counts as FiniteSets does.              *)
LEMMA LinesCount == \A S : Lines!Cardinality(S) = Cardinality(S)
BY DEF Lines!IsFiniteSet, IsFiniteSet, Lines!Cardinality, Cardinality


(* Two numbers' greater and smaller.                                        *)
LEMMA OfTwo ==
  ASSUME NEW a \in Nat, NEW b \in Nat
  PROVE  /\ Lines!Max({a, b}) = (IF a >= b THEN a ELSE b) /\ Lines!Min({a, b}) = (IF a <= b THEN a ELSE b)
<1>1. \A x \in {a, b} : (\A y \in {a, b} : x >= y) => x = (IF a >= b THEN a ELSE b)
  OBVIOUS
<1>2. (IF a >= b THEN a ELSE b) \in {a, b} /\ \A y \in {a, b} : (IF a >= b THEN a ELSE b) >= y
  OBVIOUS
<1>3. \A x \in {a, b} : (\A y \in {a, b} : x <= y) => x = (IF a <= b THEN a ELSE b)
  OBVIOUS
<1>4. (IF a <= b THEN a ELSE b) \in {a, b} /\ \A y \in {a, b} : (IF a <= b THEN a ELSE b) <= y
  OBVIOUS
<1> QED BY <1>1, <1>2, <1>3, <1>4 DEF Lines!Max, Lines!Min

(* One field of a view at a time.                                           *)
LEMMA FieldsOf ==
  ASSUME NEW v \in Lines!View
  PROVE  /\ v.active \in BOOLEAN /\ v.lines \in Seq(Lines!Line) /\ v.shown \in Seq(Nat) /\ v.trimmed \in BOOLEAN
         /\ v.cursor \in Nat /\ v.anchor \in Nat /\ v.following \in BOOLEAN /\ v.resume \in BOOLEAN
         /\ v.filtering \in BOOLEAN /\ v.query \in Lines!Query /\ v.regex \in BOOLEAN /\ v.re \in {Lines!None, "f"}
BY DEF Lines!View

LEMMA SetFlags ==
  ASSUME NEW v \in Lines!View, NEW b \in BOOLEAN
  PROVE  /\ [v EXCEPT !.active = b] \in Lines!View /\ [v EXCEPT !.trimmed = b] \in Lines!View
         /\ [v EXCEPT !.following = b] \in Lines!View /\ [v EXCEPT !.resume = b] \in Lines!View
         /\ [v EXCEPT !.filtering = b] \in Lines!View /\ [v EXCEPT !.regex = b] \in Lines!View
BY DEF Lines!View

LEMMA SetNumbers ==
  ASSUME NEW v \in Lines!View, NEW b \in Nat
  PROVE  /\ [v EXCEPT !.cursor = b] \in Lines!View /\ [v EXCEPT !.anchor = b] \in Lines!View
BY DEF Lines!View

LEMMA SetLines ==
  ASSUME NEW v \in Lines!View, NEW a \in Seq(Lines!Line), NEW b \in Seq(Nat)
  PROVE  [v EXCEPT !.lines = a, !.shown = b] \in Lines!View
BY DEF Lines!View

(* What is kept, line by line.                                              *)
Grow(v, s, n) == IF Lines!Keeps(v, v.lines[n]) THEN Append(s, n) ELSE s
Grows(v, D) == \E g : g = [n \in D |-> IF n = 0 THEN <<>> ELSE Grow(v, g[n - 1], n)]
KeptUpTo(v) == CHOOSE g : g = [n \in 0 .. Len(v.lines) |-> IF n = 0 THEN <<>> ELSE Grow(v, g[n - 1], n)]

LEMMA GrowsExists ==
  ASSUME NEW v, NEW m \in Nat
  PROVE  Grows(v, 0 .. m)
<1> DEFINE T == {k \in Nat : Grows(v, 0 .. k)}
<1>1. 0 \in T
  <2> DEFINE g == [n \in 0 .. 0 |-> <<>>]
  <2>1. g = [n \in 0 .. 0 |-> IF n = 0 THEN <<>> ELSE Grow(v, g[n - 1], n)]
    OBVIOUS
  <2> QED BY <2>1 DEF Grows
<1>2. ASSUME NEW k \in T PROVE k + 1 \in T
  <2>1. PICK g : g = [n \in 0 .. k |-> IF n = 0 THEN <<>> ELSE Grow(v, g[n - 1], n)]
    BY DEF Grows
  <2> DEFINE h == [n \in 0 .. (k + 1) |-> IF n = k + 1 THEN Grow(v, g[k], k + 1) ELSE g[n]]
  <2>2. ASSUME NEW n \in 0 .. (k + 1)
        PROVE  h[n] = IF n = 0 THEN <<>> ELSE Grow(v, h[n - 1], n)
    <3>1. CASE n = k + 1
      <4>1. k \in 0 .. (k + 1) /\ k # k + 1 /\ n # 0 /\ n - 1 = k
        BY <3>1
      <4>2. h[n - 1] = g[k] /\ h[n] = Grow(v, g[k], k + 1)
        BY <3>1, <4>1
      <4> QED BY <3>1, <4>1, <4>2
    <3>2. CASE n # k + 1
      <4>1. n \in 0 .. k
        BY <3>2
      <4>2. h[n] = g[n]
        BY <3>2
      <4>3. g[n] = IF n = 0 THEN <<>> ELSE Grow(v, g[n - 1], n)
        BY <2>1, <4>1
      <4>4. n # 0 => h[n - 1] = g[n - 1]
        BY <4>1
      <4> QED BY <4>2, <4>3, <4>4
    <3> QED BY <3>1, <3>2
  <2>3. h = [n \in 0 .. (k + 1) |-> IF n = 0 THEN <<>> ELSE Grow(v, h[n - 1], n)]
    <3>1. h = [n \in 0 .. (k + 1) |-> h[n]]
      OBVIOUS
    <3> HIDE DEF h
    <3>2. [n \in 0 .. (k + 1) |-> h[n]]
            = [n \in 0 .. (k + 1) |-> IF n = 0 THEN <<>> ELSE Grow(v, h[n - 1], n)]
      BY <2>2
    <3> QED BY <3>1, <3>2
  <2> HIDE DEF h
  <2>4. Grows(v, 0 .. (k + 1))
    BY <2>3, Zenon DEF Grows
  <2> QED BY <2>4
<1>3. T = Nat
  <2>1. T \subseteq Nat
    OBVIOUS
  <2> HIDE DEF T
  <2> QED BY <1>1, <1>2, <2>1, SetInduction
<1> QED BY <1>3

LEMMA KeptUpToIs ==
  ASSUME NEW v, Len(v.lines) \in Nat
  PROVE  /\ KeptUpTo(v)[0] = <<>>
         /\ \A n \in 1 .. Len(v.lines) : KeptUpTo(v)[n] = Grow(v, KeptUpTo(v)[n - 1], n)
         /\ Lines!Kept(v) = KeptUpTo(v)[Len(v.lines)]
<1> DEFINE G == KeptUpTo(v)
           m == Len(v.lines)
<1>1. Grows(v, 0 .. m)
  BY GrowsExists
<1>2. G = [n \in 0 .. m |-> IF n = 0 THEN <<>> ELSE Grow(v, G[n - 1], n)]
  BY <1>1, Zenon DEF KeptUpTo, Grows
<1>3. Lines!Kept(v) = G[m]
  BY Zenon DEF Lines!Kept, KeptUpTo, Grow
<1> HIDE DEF G
<1>4. G[0] = <<>>
  BY <1>2
<1>5. \A n \in 1 .. m : G[n] = Grow(v, G[n - 1], n)
  BY <1>2
<1> QED BY <1>3, <1>4, <1>5 DEF G

(* Two views that keep the same of their first lines.                       *)
LEMMA KeptUpToAgrees ==
  ASSUME NEW v, NEW w, Len(v.lines) \in Nat, Len(w.lines) \in Nat, NEW m \in Nat,
         m <= Len(v.lines), m <= Len(w.lines),
         \A n \in 1 .. m : Lines!Keeps(v, v.lines[n]) = Lines!Keeps(w, w.lines[n])
  PROVE  \A n \in 0 .. m : KeptUpTo(v)[n] = KeptUpTo(w)[n]
<1> DEFINE T == {k \in Nat : k <= m => KeptUpTo(v)[k] = KeptUpTo(w)[k]}
<1>1. 0 \in T
  BY KeptUpToIs
<1>2. ASSUME NEW k \in T PROVE k + 1 \in T
  <2>1. SUFFICES ASSUME k + 1 <= m PROVE KeptUpTo(v)[k + 1] = KeptUpTo(w)[k + 1]
    OBVIOUS
  <2>2. KeptUpTo(v)[k] = KeptUpTo(w)[k]
    BY <2>1
  <2>3. k + 1 \in 1 .. m /\ k + 1 \in 1 .. Len(v.lines) /\ k + 1 \in 1 .. Len(w.lines) /\ (k + 1) - 1 = k
    BY <2>1
  <2>4. KeptUpTo(v)[k + 1] = Grow(v, KeptUpTo(v)[k], k + 1) /\ KeptUpTo(w)[k + 1] = Grow(w, KeptUpTo(w)[k], k + 1)
    BY <2>3, KeptUpToIs
  <2> QED BY <2>2, <2>3, <2>4 DEF Grow
<1>3. T = Nat
  <2>1. T \subseteq Nat
    OBVIOUS
  <2> HIDE DEF T
  <2> QED BY <1>1, <1>2, <2>1, SetInduction
<1> QED BY <1>3

LEMMA KeptAgrees ==
  ASSUME NEW v \in Lines!View, NEW w, w.lines = v.lines, w.query = v.query, w.regex = v.regex, w.re = v.re
  PROVE  Lines!Kept(w) = Lines!Kept(v)
<1>1. Len(v.lines) \in Nat
  BY FieldsOf
<1>2. \A n \in 1 .. Len(v.lines) : Lines!Keeps(v, v.lines[n]) = Lines!Keeps(w, w.lines[n])
  BY DEF Lines!Keeps
<1>3. KeptUpTo(v)[Len(v.lines)] = KeptUpTo(w)[Len(v.lines)]
  BY <1>1, <1>2, KeptUpToAgrees
<1> QED BY <1>1, <1>3, KeptUpToIs

(* What is kept of the first lines: their places, at most as many.          *)
LEMMA KeptUpToTyped ==
  ASSUME NEW v, Len(v.lines) \in Nat
  PROVE  \A n \in 0 .. Len(v.lines) : KeptUpTo(v)[n] \in Seq(1 .. n)
<1> DEFINE T == {k \in Nat : k <= Len(v.lines) => KeptUpTo(v)[k] \in Seq(1 .. k)}
<1>1. 0 \in T
  <2>1. KeptUpTo(v)[0] = <<>>
    BY KeptUpToIs
  <2>2. <<>> \in Seq(1 .. 0)
    OBVIOUS
  <2> QED BY <2>1, <2>2
<1>2. ASSUME NEW k \in T PROVE k + 1 \in T
  <2>1. SUFFICES ASSUME k + 1 <= Len(v.lines) PROVE KeptUpTo(v)[k + 1] \in Seq(1 .. (k + 1))
    OBVIOUS
  <2>2. KeptUpTo(v)[k] \in Seq(1 .. k)
    BY <2>1
  <2>3. KeptUpTo(v)[k] \in Seq(1 .. (k + 1))
    <3>1. 1 .. k \subseteq 1 .. (k + 1)
      OBVIOUS
    <3> DEFINE s == KeptUpTo(v)[k]
    <3> HIDE DEF s
    <3>2. s \in Seq(1 .. k) => s \in Seq(1 .. (k + 1))
      OBVIOUS
    <3> QED BY <2>2, <3>2 DEF s
  <2>4. k + 1 \in 1 .. Len(v.lines) /\ (k + 1) - 1 = k /\ k + 1 \in 1 .. (k + 1)
    BY <2>1
  <2>5. KeptUpTo(v)[k + 1] = Grow(v, KeptUpTo(v)[k], k + 1)
    BY <2>4, KeptUpToIs
  <2>6. Append(KeptUpTo(v)[k], k + 1) \in Seq(1 .. (k + 1))
    BY <2>3, <2>4
  <2> QED BY <2>3, <2>5, <2>6 DEF Grow
<1>3. T = Nat
  <2>1. T \subseteq Nat
    OBVIOUS
  <2> HIDE DEF T
  <2> QED BY <1>1, <1>2, <2>1, SetInduction
<1> QED BY <1>3

LEMMA KeptTyped ==
  ASSUME NEW v \in Lines!View
  PROVE  Lines!Kept(v) \in Seq(1 .. Len(v.lines)) /\ Lines!Kept(v) \in Seq(Nat)
<1>1. Len(v.lines) \in Nat
  BY FieldsOf
<1>2. Lines!Kept(v) \in Seq(1 .. Len(v.lines))
  <2>1. Lines!Kept(v) = KeptUpTo(v)[Len(v.lines)]
    BY <1>1, KeptUpToIs
  <2>2. \A n \in 0 .. Len(v.lines) : KeptUpTo(v)[n] \in Seq(1 .. n)
    BY <1>1, KeptUpToTyped
  <2>3. Len(v.lines) \in 0 .. Len(v.lines)
    BY <1>1
  <2> QED BY <2>1, <2>2, <2>3
<1> DEFINE s == Lines!Kept(v)
           m == Len(v.lines)
<1> HIDE DEF s, m
<1>3. m \in Nat /\ s \in Seq(1 .. m) => s \in Seq(Nat)
  OBVIOUS
<1> QED BY <1>1, <1>2, <1>3 DEF s, m

(* appendLine keeps it up.                                                  *)
LEMMA ExtendKeeps ==
  ASSUME NEW v \in Lines!View, v.shown = Lines!Kept(v), NEW line \in Lines!Line
  PROVE  /\ Lines!Extend(v, line) \in Lines!View /\ Lines!Extend(v, line).shown = Lines!Kept(Lines!Extend(v, line))
         /\ Lines!Extend(v, line).lines = Append(v.lines, line)
         /\ Lines!Extend(v, line).active = v.active
<1> DEFINE w == Lines!Extend(v, line)
           m == Len(v.lines)
           s == IF Lines!Keeps(v, line) THEN Append(v.shown, m + 1) ELSE v.shown
<1>1. m \in Nat /\ v.lines \in Seq(Lines!Line) /\ v.shown \in Seq(Nat)
  BY FieldsOf
<1>2. w = [v EXCEPT !.lines = Append(v.lines, line), !.shown = s]
  BY DEF Lines!Extend
<1>3. s \in Seq(Nat) /\ Append(v.lines, line) \in Seq(Lines!Line)
  BY <1>1
<1> HIDE DEF w, s
<1>4. w \in Lines!View
  BY <1>2, <1>3, SetLines
<1>5. /\ w.lines = Append(v.lines, line) /\ w.shown = s /\ w.active = v.active
      /\ w.query = v.query /\ w.regex = v.regex /\ w.re = v.re
  BY <1>2 DEF Lines!View
<1>6. /\ Len(w.lines) = m + 1 /\ w.lines[m + 1] = line
      /\ \A n \in 1 .. m : w.lines[n] = v.lines[n]
  BY <1>1, <1>5
<1>7. \A l : Lines!Keeps(w, l) = Lines!Keeps(v, l)
  BY <1>5 DEF Lines!Keeps
<1>8. KeptUpTo(w)[m] = KeptUpTo(v)[m]
  <2>1. \A n \in 1 .. m : Lines!Keeps(v, v.lines[n]) = Lines!Keeps(w, w.lines[n])
    BY <1>6, <1>7
  <2>2. m \in 0 .. m /\ m <= Len(w.lines) /\ Len(w.lines) \in Nat
    BY <1>1, <1>6
  <2>3. m <= Len(v.lines) /\ Len(v.lines) \in Nat /\ m \in Nat
    BY <1>1
  <2> HIDE DEF m
  <2>4. \A n \in 0 .. m : KeptUpTo(v)[n] = KeptUpTo(w)[n]
    BY <2>1, <2>2, <2>3, KeptUpToAgrees, Zenon
  <2> QED BY <2>2, <2>4
<1>9. Lines!Kept(w) = KeptUpTo(w)[m + 1] /\ KeptUpTo(w)[m + 1] = Grow(w, KeptUpTo(w)[m], m + 1) /\ Lines!Kept(v) = KeptUpTo(v)[m]
  <2>1. m + 1 \in 1 .. Len(w.lines) /\ (m + 1) - 1 = m /\ Len(w.lines) \in Nat
    BY <1>1, <1>6
  <2>2. /\ \A n \in 1 .. Len(w.lines) : KeptUpTo(w)[n] = Grow(w, KeptUpTo(w)[n - 1], n)
        /\ Lines!Kept(w) = KeptUpTo(w)[Len(w.lines)]
    BY <2>1, KeptUpToIs
  <2>3. Lines!Kept(v) = KeptUpTo(v)[m]
    BY <1>1, KeptUpToIs
  <2> QED BY <1>6, <2>1, <2>2, <2>3
<1>10. w.shown = Lines!Kept(w)
  BY <1>5, <1>6, <1>7, <1>8, <1>9 DEF Grow, s
<1> QED BY <1>4, <1>5, <1>10 DEF w

(* A sequence and one more number; and one that begins with another.        *)
Split(p, q, r, d) ==
  /\ Len(r) = Len(p) + Len(q)
  /\ \A j \in 1 .. Len(p) : r[j] = p[j]
  /\ \A j \in 1 .. Len(q) : r[Len(p) + j] = q[j] + d

LEMMA OneMore ==
  ASSUME NEW r \in Seq(Nat), NEW q \in Seq(Nat), NEW p, Len(p) \in Nat, NEW x \in Nat, NEW d \in Nat,
         Split(p, q, r, d)
  PROVE  Split(p, Append(q, x), Append(r, d + x), d)
<1>0. PICK l \in Nat : l = Len(p)
  OBVIOUS
<1>9. /\ Len(r) = l + Len(q) /\ \A j \in 1 .. l : r[j] = p[j]
      /\ \A j \in 1 .. Len(q) : r[l + j] = q[j] + d
  BY <1>0, Zenon DEF Split
<1>1. PICK n \in Nat : n = Len(q)
  OBVIOUS
<1>2. Len(Append(q, x)) = n + 1 /\ Len(Append(r, d + x)) = l + (n + 1) /\ Len(r) = l + n
  <2>1. Len(r) = l + n
    BY <1>1, <1>9
  <2>2. Len(Append(q, x)) = Len(q) + 1 /\ Len(Append(r, d + x)) = Len(r) + 1
    OBVIOUS
  <2> QED BY <1>1, <2>1, <2>2
<1>3. \A j \in 1 .. (l + n) : Append(r, d + x)[j] = r[j]
  BY <1>2
<1>4. \A j \in 1 .. n : Append(q, x)[j] = q[j] /\ l + j \in 1 .. (l + n)
  BY <1>1
<1>5. Append(r, d + x)[l + (n + 1)] = d + x /\ Append(q, x)[n + 1] = x
  <2>1. Append(r, d + x)[Len(r) + 1] = d + x /\ Len(r) + 1 = l + (n + 1)
    BY <1>2
  <2> QED BY <1>1, <2>1
<1>6. \A j \in 1 .. l : j \in 1 .. (l + n)
  OBVIOUS
<1>7. ASSUME NEW j \in 1 .. (n + 1) PROVE Append(r, d + x)[l + j] = Append(q, x)[j] + d
  <2>1. CASE j \in 1 .. n
    BY <1>1, <1>3, <1>4, <1>9, <2>1
  <2>2. CASE j = n + 1
    <3>1. Append(r, d + x)[l + j] = d + x /\ Append(q, x)[j] = x
      BY <1>5, <2>2, Zenon
    <3>2. d + x = x + d
      OBVIOUS
    <3> QED BY <3>1, <3>2
  <2>3. j \in 1 .. n \/ j = n + 1
    OBVIOUS
  <2> QED BY <2>1, <2>2, <2>3
<1>8. \A j \in 1 .. l : Append(r, d + x)[j] = p[j]
  BY <1>3, <1>6, <1>9
<1> QED BY <1>0, <1>2, <1>7, <1>8 DEF Split

(* A view that has only the last lines of another.                          *)
LEMMA KeptUpToShift ==
  ASSUME NEW v, NEW w, NEW d \in Nat, NEW n \in Nat,
         Len(w.lines) = n, Len(v.lines) = d + n,
         \A i \in 1 .. n : Lines!Keeps(w, w.lines[i]) = Lines!Keeps(v, v.lines[d + i])
  PROVE  \A k \in 0 .. n : Split(KeptUpTo(v)[d], KeptUpTo(w)[k], KeptUpTo(v)[d + k], d)
<1> DEFINE T == {k \in Nat : k <= n => Split(KeptUpTo(v)[d], KeptUpTo(w)[k], KeptUpTo(v)[d + k], d)}
<1>1. PICK p : p = KeptUpTo(v)[d] /\ p \in Seq(1 .. d)
  <2>1. d \in 0 .. (d + n)
    OBVIOUS
  <2>2. \A k \in 0 .. (d + n) : KeptUpTo(v)[k] \in Seq(1 .. k)
    BY KeptUpToTyped
  <2> QED BY <2>1, <2>2
<1>2. \A k \in 0 .. n : KeptUpTo(w)[k] \in Seq(1 .. k) /\ KeptUpTo(v)[d + k] \in Seq(1 .. (d + k))
  <2>1. \A k \in 0 .. n : d + k \in 0 .. (d + n)
    OBVIOUS
  <2>2. \A k \in 0 .. (d + n) : KeptUpTo(v)[k] \in Seq(1 .. k)
    BY KeptUpToTyped
  <2>3. \A k \in 0 .. n : KeptUpTo(w)[k] \in Seq(1 .. k)
    BY KeptUpToTyped
  <2> QED BY <2>1, <2>2, <2>3
<1>3. 0 \in T
  <2>1. KeptUpTo(w)[0] = <<>> /\ d + 0 = d
    BY KeptUpToIs
  <2>2. Split(p, <<>>, p, d)
    BY <1>1 DEF Split
  <2> QED BY <1>1, <2>1, <2>2
<1>4. ASSUME NEW k \in T PROVE k + 1 \in T
  <2>1. SUFFICES ASSUME k + 1 <= n
                 PROVE  Split(KeptUpTo(v)[d], KeptUpTo(w)[k + 1], KeptUpTo(v)[d + (k + 1)], d)
    OBVIOUS
  <2>2. PICK q, r, q1, r1 : /\ q = KeptUpTo(w)[k] /\ r = KeptUpTo(v)[d + k]
                            /\ q1 = KeptUpTo(w)[k + 1] /\ r1 = KeptUpTo(v)[d + (k + 1)]
    OBVIOUS
  <2>3. k \in Nat /\ k \in 0 .. n /\ Split(p, q, r, d)
    BY <1>1, <2>1, <2>2
  <2>4. /\ k + 1 \in 1 .. n /\ (k + 1) - 1 = k
        /\ d + (k + 1) \in 1 .. (d + n) /\ (d + (k + 1)) - 1 = d + k
    BY <2>1, <2>3
  <2>5. q1 = IF Lines!Keeps(w, w.lines[k + 1]) THEN Append(q, k + 1) ELSE q
    <3>1. KeptUpTo(w)[k + 1] = Grow(w, KeptUpTo(w)[(k + 1) - 1], k + 1)
      BY <2>4, KeptUpToIs
    <3> QED BY <2>2, <2>4, <3>1 DEF Grow
  <2>6. r1 = IF Lines!Keeps(v, v.lines[d + (k + 1)]) THEN Append(r, d + (k + 1)) ELSE r
    <3>1. \A i \in 1 .. (d + n) : KeptUpTo(v)[i] = Grow(v, KeptUpTo(v)[i - 1], i)
      BY KeptUpToIs
    <3>2. KeptUpTo(v)[d + (k + 1)] = Grow(v, KeptUpTo(v)[(d + (k + 1)) - 1], d + (k + 1))
      BY <2>4, <3>1
    <3> QED BY <2>2, <2>4, <3>2 DEF Grow
  <2>7. Lines!Keeps(w, w.lines[k + 1]) = Lines!Keeps(v, v.lines[d + (k + 1)])
    BY <2>4
  <2>8. q \in Seq(Nat) /\ r \in Seq(Nat) /\ Len(p) \in Nat
    <3>1. q \in Seq(1 .. k) /\ r \in Seq(1 .. (d + k))
      BY <1>2, <2>2, <2>3
    <3> QED BY <1>1, <2>3, <3>1
  <2>9. Split(p, q1, r1, d)
    <3>1. CASE q1 = q /\ r1 = r
      BY <2>3, <3>1
    <3>2. CASE q1 = Append(q, k + 1) /\ r1 = Append(r, d + (k + 1))
      <4>1. k + 1 \in Nat
        BY <2>3
      <4> QED BY <2>3, <2>8, <3>2, <4>1, OneMore
    <3> QED BY <2>5, <2>6, <2>7, <3>1, <3>2
  <2> QED BY <1>1, <2>2, <2>9
<1>5. T = Nat
  <2>1. T \subseteq Nat
    OBVIOUS
  <2> HIDE DEF T
  <2> QED BY <1>3, <1>4, <2>1, SetInduction
<1>6. ASSUME NEW k \in 0 .. n PROVE Split(KeptUpTo(v)[d], KeptUpTo(w)[k], KeptUpTo(v)[d + k], d)
  <2>1. k \in Nat /\ k <= n
    OBVIOUS
  <2> HIDE DEF T
  <2>2. k \in T
    BY <1>5, <2>1
  <2> QED BY <2>1, <2>2 DEF T
<1> QED BY <1>6

LEMMA RestIs ==
  ASSUME NEW s \in Seq(Nat), NEW a \in Nat, NEW b \in Nat, Len(s) = a + b
  PROVE  /\ Len(SubSeq(s, a + 1, a + b)) = b /\ DOMAIN SubSeq(s, a + 1, a + b) = 1 .. b
         /\ \A k \in 1 .. b : SubSeq(s, a + 1, a + b)[k] = s[a + k]
OBVIOUS

(* What trim leaves of a view: d lines fewer, c of them shown, and the       *)
(* cursors c places back.                                                   *)
MovedBack(at, c) == IF c = 0 THEN at ELSE IF at > c + 1 THEN at - c ELSE 1
Dropped(v, w, d, c, l) ==
  /\ DOMAIN v.shown = 1 .. (c + l) /\ DOMAIN w.shown = 1 .. l
  /\ \A i \in DOMAIN w.lines : d + i \in DOMAIN v.lines /\ w.lines[i] = v.lines[d + i]
  /\ \A j \in 1 .. c : v.shown[j] <= d
  /\ \A j \in 1 .. l : v.shown[c + j] = w.shown[j] + d
  /\ w.following = v.following
  /\ w.cursor = MovedBack(v.cursor, c) /\ (v.anchor > 0 => w.anchor = MovedBack(v.anchor, c))

LEMMA TrimKeeps ==
  ASSUME NEW v \in Lines!View, v.shown = Lines!Kept(v)
  PROVE  /\ Lines!Trim(v) \in Lines!View /\ Lines!Trim(v).shown = Lines!Kept(Lines!Trim(v))
         /\ Lines!Trim(v).active = v.active /\ Len(Lines!Trim(v).lines) < MaxLines + Chunk
         /\ \E d, c, l \in Nat : Dropped(v, Lines!Trim(v), d, c, l)
<1>1. /\ v.lines \in Seq(Lines!Line) /\ Len(v.lines) \in Nat /\ v.cursor \in Nat /\ v.anchor \in Nat
      /\ v.active \in BOOLEAN /\ v.shown \in Seq(1 .. Len(v.lines)) /\ v.shown \in Seq(Nat)
  BY FieldsOf, KeptTyped
<1>2. CASE Len(v.lines) < MaxLines + Chunk
  <2>1. Lines!Trim(v) = v
    BY <1>2 DEF Lines!Trim
  <2>2. PICK l \in Nat : DOMAIN v.shown = 1 .. l
    BY <1>1
  <2>3. \A j \in 1 .. l : v.shown[j] \in Nat
    BY <1>1, <2>2
  <2>4. Dropped(v, v, 0, 0, l)
    BY <1>1, <2>2, <2>3 DEF Dropped, MovedBack
  <2> QED BY <1>1, <1>2, <2>1, <2>4
<1>3. CASE ~(Len(v.lines) < MaxLines + Chunk)
  <2> DEFINE d == Len(v.lines) - MaxLines
             cut == Cardinality({k \in DOMAIN v.shown : v.shown[k] <= d})
             back(at) == IF at > cut + 1 THEN at - cut ELSE 1
             rest == SubSeq(v.shown, cut + 1, Len(v.shown))
             lines == SubSeq(v.lines, d + 1, Len(v.lines))
             now == [k \in DOMAIN rest |-> rest[k] - d]
             cursor == IF cut > 0 THEN back(v.cursor) ELSE v.cursor
             at2 == IF cut > 0 /\ v.anchor > 0 THEN back(v.anchor) ELSE v.anchor
             w == Lines!Trim(v)
  <2>1. w = [v EXCEPT !.lines = lines, !.trimmed = TRUE, !.shown = now, !.cursor = cursor, !.anchor = at2]
    BY <1>3, LinesCount DEF Lines!Trim
  <2>2. d \in Nat /\ Len(v.lines) = d + MaxLines
    BY <1>1, <1>3
  <2>3. /\ lines \in Seq(Lines!Line) /\ Len(lines) = MaxLines
        /\ \A i \in 1 .. MaxLines : d + i \in DOMAIN v.lines /\ lines[i] = v.lines[d + i]
    BY <1>1, <2>2
  <2> HIDE DEF w, lines, now, cursor, at2
  <2>4. /\ w.lines = lines /\ w.shown = now /\ w.active = v.active /\ w.query = v.query
        /\ w.regex = v.regex /\ w.re = v.re /\ w.following = v.following
        /\ w.cursor = cursor /\ w.anchor = at2
    BY <2>1 DEF Lines!View
  <2>5. \A i \in 1 .. Len(w.lines) : Lines!Keeps(w, w.lines[i]) = Lines!Keeps(v, v.lines[d + i])
    BY <2>3, <2>4 DEF Lines!Keeps
  <2>6. Len(w.lines) = MaxLines /\ Len(w.lines) \in Nat
    BY <2>3, <2>4
  <2>7. PICK p, q : p = KeptUpTo(v)[d] /\ q = KeptUpTo(w)[MaxLines]
    OBVIOUS
  <2>8. Lines!Kept(w) = q /\ v.shown = KeptUpTo(v)[d + MaxLines]
    BY <1>1, <2>2, <2>6, <2>7, KeptUpToIs
  <2>9. p \in Seq(1 .. d) /\ q \in Seq(1 .. MaxLines)
    <3>1. d \in 0 .. Len(v.lines) /\ MaxLines \in 0 .. Len(w.lines)
      BY <2>2, <2>6
    <3>2. KeptUpTo(v)[d] \in Seq(1 .. d)
      BY <1>1, <3>1, KeptUpToTyped
    <3>3. KeptUpTo(w)[MaxLines] \in Seq(1 .. MaxLines)
      BY <2>6, <3>1, KeptUpToTyped
    <3> QED BY <2>7, <3>2, <3>3
  <2>10. Split(p, q, v.shown, d)
    <3>1. MaxLines \in 0 .. MaxLines
      OBVIOUS
    <3>2. \A i \in 1 .. MaxLines : Lines!Keeps(w, w.lines[i]) = Lines!Keeps(v, v.lines[d + i])
      BY <2>5, <2>6
    <3> HIDE DEF d
    <3>3. \A k \in 0 .. MaxLines : Split(KeptUpTo(v)[d], KeptUpTo(w)[k], KeptUpTo(v)[d + k], d)
      BY <2>2, <2>6, <3>2, KeptUpToShift
    <3> QED BY <2>7, <2>8, <3>1, <3>3
  <2>11. PICK lp \in Nat, lq \in Nat :
           /\ lp = Len(p) /\ lq = Len(q) /\ Len(v.shown) = lp + lq /\ DOMAIN v.shown = 1 .. (lp + lq)
           /\ \A j \in 1 .. lp : p[j] \in 1 .. d /\ v.shown[j] = p[j]
           /\ \A j \in 1 .. lq : q[j] \in Nat /\ q[j] > 0 /\ v.shown[lp + j] = q[j] + d
    <3>1. PICK lp \in Nat, lq \in Nat : lp = Len(p) /\ lq = Len(q)
      BY <2>9
    <3>2. Len(v.shown) = lp + lq /\ DOMAIN v.shown = 1 .. (lp + lq)
      BY <1>1, <2>10, <3>1 DEF Split
    <3>3. \A j \in 1 .. lp : p[j] \in 1 .. d /\ v.shown[j] = p[j]
      <4> HIDE DEF d
      <4>1. \A j \in 1 .. lp : p[j] \in 1 .. d
        BY <2>2, <2>9, <3>1
      <4>2. \A j \in 1 .. lp : v.shown[j] = p[j]
        BY <2>10, <3>1, Zenon DEF Split
      <4> QED BY <4>1, <4>2
    <3>4. \A j \in 1 .. lq : q[j] \in 1 .. MaxLines /\ v.shown[lp + j] = q[j] + d
      <4> HIDE DEF d
      <4>1. \A j \in 1 .. lq : q[j] \in 1 .. MaxLines
        BY <2>9, <3>1
      <4>2. \A j \in 1 .. lq : v.shown[lp + j] = q[j] + d
        BY <2>10, <3>1, Zenon DEF Split
      <4> QED BY <4>1, <4>2
    <3>5. \A j \in 1 .. lq : q[j] \in Nat /\ q[j] > 0
      BY <3>4
    <3> HIDE DEF d
    <3> QED BY <3>1, <3>2, <3>3, <3>4, <3>5
  <2>16. cut = lp
    <3> HIDE DEF d
    <3>1. \A k \in 1 .. lp : k \in DOMAIN v.shown /\ v.shown[k] <= d
      BY <2>2, <2>11
    <3>2. ASSUME NEW k \in DOMAIN v.shown, k \notin 1 .. lp PROVE ~(v.shown[k] <= d)
      <4>1. k - lp \in 1 .. lq /\ lp + (k - lp) = k
        BY <2>11, <3>2
      <4>2. v.shown[k] = q[k - lp] + d /\ q[k - lp] \in Nat /\ q[k - lp] > 0
        BY <2>11, <4>1
      <4> QED BY <2>2, <4>2
    <3>3. {k \in DOMAIN v.shown : v.shown[k] <= d} = 1 .. lp
      BY <3>1, <3>2
    <3>4. Cardinality(1 .. lp) = lp
      <4>1. Cardinality(1 .. lp) = IF 1 > lp THEN 0 ELSE lp - 1 + 1
        BY FS_Interval
      <4> QED BY <4>1
    <3> QED BY <3>3, <3>4
  <2> HIDE DEF cut, d
  <2>12. now = q
    <3>1. /\ Len(rest) = lq /\ DOMAIN rest = 1 .. lq
          /\ \A k \in 1 .. lq : rest[k] = v.shown[lp + k]
      <4>1. rest = SubSeq(v.shown, lp + 1, lp + lq)
        BY <2>11, <2>16
      <4> HIDE DEF rest
      <4>2. v.shown \in Seq(Nat) /\ Len(v.shown) = lp + lq
        BY <1>1, <2>11
      <4> QED BY <4>1, <4>2, RestIs
    <3> HIDE DEF rest
    <3>2. \A k \in 1 .. lq : rest[k] - d = q[k]
      BY <2>2, <2>11, <3>1
    <3>3. q = [k \in 1 .. lq |-> q[k]]
      BY <2>9, <2>11
    <3> QED BY <3>1, <3>2, <3>3 DEF now
  <2>13. now \in Seq(Nat)
    BY <2>9, <2>12
  <2>14. cut \in Nat /\ cursor \in Nat /\ at2 \in Nat
    <3>1. cut \in Nat /\ v.cursor \in Nat /\ v.anchor \in Nat
      BY <1>1, <2>11, <2>16
    <3>2. \A at \in Nat : back(at) \in Nat
      BY <3>1
    <3> HIDE DEF back
    <3> QED BY <3>1, <3>2 DEF cursor, at2
  <2>15. w \in Lines!View
    BY <2>1, <2>3, <2>13, <2>14 DEF Lines!View
  <2>17. \A i \in DOMAIN w.lines : d + i \in DOMAIN v.lines /\ w.lines[i] = v.lines[d + i]
    BY <2>3, <2>4
  <2>18. w.cursor = MovedBack(v.cursor, lp) /\ (v.anchor > 0 => w.anchor = MovedBack(v.anchor, lp))
    <3>1. lp = 0 <=> ~(lp > 0)
      OBVIOUS
    <3> QED BY <2>4, <2>16, <3>1 DEF MovedBack, cursor, at2
  <2>19. Dropped(v, w, d, lp, lq)
    <3>1. DOMAIN w.shown = 1 .. lq
      BY <2>4, <2>9, <2>11, <2>12
    <3>2. \A j \in 1 .. lp : v.shown[j] <= d
      BY <2>2, <2>11
    <3>3. \A j \in 1 .. lq : v.shown[lp + j] = w.shown[j] + d
      BY <2>4, <2>11, <2>12
    <3> QED BY <2>4, <2>11, <2>17, <2>18, <3>1, <3>2, <3>3 DEF Dropped
  <2>20. \E dd, c, l \in Nat : Dropped(v, w, dd, c, l)
    BY <2>2, <2>19
  <2> QED BY <2>4, <2>6, <2>8, <2>12, <2>15, <2>20 DEF w
<1> QED BY <1>2, <1>3

LEMMA LastIs ==
  ASSUME NEW k \in Nat, NEW s \in SUBSET (1 .. (k + 1)), k + 1 \in s
  PROVE  Lines!Max(s) = k + 1
<1>1. \A y \in s : k + 1 >= y
  OBVIOUS
<1>2. \A x \in s : (\A y \in s : x >= y) => x = k + 1
  OBVIOUS
<1> QED BY <1>1, <1>2 DEF Lines!Max

(* FoldLeft takes a batch's lines one by one: Extend.                       *)
Batches(v, batch, D) ==
  \E g : g = [s \in SUBSET D |-> IF s = {} THEN v ELSE Lines!Extend(g[s \ {Lines!Max(s)}], batch[Lines!Max(s)])]

LEMMA BatchesExist ==
  ASSUME NEW v, NEW batch, NEW n \in Nat
  PROVE  Batches(v, batch, 1 .. n)
<1> DEFINE T == {k \in Nat : \E g : g = [s \in SUBSET (1 .. k) |->
                       IF s = {} THEN v ELSE Lines!Extend(g[s \ {Lines!Max(s)}], batch[Lines!Max(s)])]}
<1>1. 0 \in T
  <2>1. \A s \in SUBSET (1 .. 0) : s = {}
    OBVIOUS
  <2> DEFINE g == [s \in SUBSET (1 .. 0) |-> v]
  <2>2. g = [s \in SUBSET (1 .. 0) |->
                       IF s = {} THEN v ELSE Lines!Extend(g[s \ {Lines!Max(s)}], batch[Lines!Max(s)])]
    BY <2>1
  <2> QED BY <2>2
<1>2. ASSUME NEW k \in T PROVE k + 1 \in T
  <2>1. PICK g : g = [s \in SUBSET (1 .. k) |->
                       IF s = {} THEN v ELSE Lines!Extend(g[s \ {Lines!Max(s)}], batch[Lines!Max(s)])]
    OBVIOUS
  <2> DEFINE h == [s \in SUBSET (1 .. (k + 1)) |->
                     IF k + 1 \in s THEN Lines!Extend(g[s \ {k + 1}], batch[k + 1]) ELSE g[s]]
  <2>2. ASSUME NEW s \in SUBSET (1 .. (k + 1))
        PROVE  h[s] = IF s = {} THEN v ELSE Lines!Extend(h[s \ {Lines!Max(s)}], batch[Lines!Max(s)])
    <3>1. CASE k + 1 \in s
      <4>1. Lines!Max(s) = k + 1
        BY <3>1, LastIs
      <4>2. s \ {k + 1} \in SUBSET (1 .. (k + 1)) /\ k + 1 \notin s \ {k + 1}
        OBVIOUS
      <4>3. h[s \ {k + 1}] = g[s \ {k + 1}]
        BY <4>2
      <4>4. h[s] = Lines!Extend(g[s \ {k + 1}], batch[k + 1]) /\ s # {}
        BY <3>1
      <4> QED BY <4>1, <4>3, <4>4
    <3>2. CASE k + 1 \notin s
      <4>1. s \in SUBSET (1 .. k)
        BY <3>2
      <4>2. h[s] = g[s]
        BY <3>2
      <4>3. g[s] = IF s = {} THEN v ELSE Lines!Extend(g[s \ {Lines!Max(s)}], batch[Lines!Max(s)])
        BY <2>1, <4>1
      <4>4. s \ {Lines!Max(s)} \in SUBSET (1 .. (k + 1)) /\ k + 1 \notin s \ {Lines!Max(s)}
        BY <3>2
      <4>5. h[s \ {Lines!Max(s)}] = g[s \ {Lines!Max(s)}]
        BY <4>4
      <4> QED BY <4>2, <4>3, <4>5
    <3> QED BY <3>1, <3>2
  <2>3. h = [s \in SUBSET (1 .. (k + 1)) |->
               IF s = {} THEN v ELSE Lines!Extend(h[s \ {Lines!Max(s)}], batch[Lines!Max(s)])]
    <3>1. h = [s \in SUBSET (1 .. (k + 1)) |-> h[s]]
      OBVIOUS
    <3> HIDE DEF h
    <3>2. [s \in SUBSET (1 .. (k + 1)) |-> h[s]]
            = [s \in SUBSET (1 .. (k + 1)) |->
                 IF s = {} THEN v ELSE Lines!Extend(h[s \ {Lines!Max(s)}], batch[Lines!Max(s)])]
      BY <2>2
    <3> QED BY <3>1, <3>2
  <2>4. k + 1 \in Nat
    OBVIOUS
  <2> HIDE DEF h
  <2> QED BY <2>3, <2>4, Zenon
<1>3. T = Nat
  <2>1. T \subseteq Nat
    OBVIOUS
  <2> HIDE DEF T
  <2> QED BY <1>1, <1>2, <2>1, SetInduction
<1> QED BY <1>3 DEF Batches

(* ...which is what FoldLeft is.                                            *)
Added(v, batch) ==
  CHOOSE g : g = [s \in SUBSET DOMAIN batch |->
                    IF s = {} THEN v ELSE Lines!Extend(g[s \ {Lines!Max(s)}], batch[Lines!Max(s)])]

LEMMA BatchIs ==
  ASSUME NEW v, NEW K, NEW batch \in Seq(K)
  PROVE  Lines!FoldLeft(Lines!Extend, v, batch) = Added(v, batch)[DOMAIN batch]
BY DEF Lines!FoldLeft, Lines!MapThenFoldSet, Added

AddedTo(v, batch, g, s) == IF s = {} THEN v ELSE Lines!Extend(g[s \ {Lines!Max(s)}], batch[Lines!Max(s)])

LEMMA AddedIs ==
  ASSUME NEW v, NEW K, NEW batch \in Seq(K)
  PROVE  \A s \in SUBSET DOMAIN batch : Added(v, batch)[s] = AddedTo(v, batch, Added(v, batch), s)
<1>1. PICK n \in Nat : DOMAIN batch = 1 .. n
  OBVIOUS
<1>2. Batches(v, batch, 1 .. n)
  BY BatchesExist
<1>4. Batches(v, batch, DOMAIN batch)
  BY <1>1, <1>2
<1> DEFINE G == Added(v, batch)
<1>3. G = [x \in SUBSET DOMAIN batch |->
             IF x = {} THEN v ELSE Lines!Extend(G[x \ {Lines!Max(x)}], batch[Lines!Max(x)])]
  BY <1>4, Zenon DEF Added, Batches
<1> HIDE DEF G
<1> QED BY <1>3, Zenon DEF G, AddedTo

LEMMA AddedUpTo ==
  ASSUME NEW v, NEW K, NEW batch \in Seq(K), NEW k \in Nat, k + 1 <= Len(batch)
  PROVE  Added(v, batch)[1 .. (k + 1)] = Lines!Extend(Added(v, batch)[1 .. k], batch[k + 1])
<1>1. PICK s : /\ s = 1 .. (k + 1)
               /\ s \in SUBSET DOMAIN batch /\ s \in SUBSET (1 .. (k + 1)) /\ k + 1 \in s /\ s # {}
  OBVIOUS
<1>2. Lines!Max(s) = k + 1
  BY <1>1, LastIs
<1>3. s \ {k + 1} = 1 .. k
  BY <1>1
<1>4. Added(v, batch)[s] = AddedTo(v, batch, Added(v, batch), s)
  BY <1>1, AddedIs
<1> QED BY <1>1, <1>2, <1>3, <1>4 DEF AddedTo

LEMMA NoBatch ==
  ASSUME NEW v, NEW K, NEW batch \in Seq(K), DOMAIN batch = {}
  PROVE  Lines!FoldLeft(Lines!Extend, v, batch) = v
<1>1. Lines!FoldLeft(Lines!Extend, v, batch) = Added(v, batch)[{}]
  BY BatchIs
<1>2. Added(v, batch)[{}] = AddedTo(v, batch, Added(v, batch), {})
  BY AddedIs
<1> QED BY <1>1, <1>2 DEF AddedTo

LEMMA BatchKeeps ==
  ASSUME NEW v \in Lines!View, v.shown = Lines!Kept(v), NEW batch \in Seq(Lines!Line), NEW g,
         \A i \in DOMAIN v.lines : v.lines[i].gen = g,
         \A i \in DOMAIN batch : batch[i].gen = g
  PROVE  LET w == Lines!FoldLeft(Lines!Extend, v, batch)
         IN /\ w \in Lines!View /\ w.shown = Lines!Kept(w) /\ w.active = v.active
            /\ \A i \in DOMAIN w.lines : w.lines[i].gen = g
<1> DEFINE Good(w) == /\ w \in Lines!View /\ w.shown = Lines!Kept(w) /\ w.active = v.active
                      /\ \A i \in DOMAIN w.lines : w.lines[i].gen = g
           T == {k \in Nat : k <= Len(batch) => Good(Added(v, batch)[1 .. k])}
<1>1. 0 \in T
  <2>1. 1 .. 0 = {} /\ {} \in SUBSET DOMAIN batch
    OBVIOUS
  <2>2. Added(v, batch)[{}] = AddedTo(v, batch, Added(v, batch), {})
    BY <2>1, AddedIs
  <2>3. Added(v, batch)[1 .. 0] = v
    BY <2>1, <2>2 DEF AddedTo
  <2> QED BY <2>3
<1>2. ASSUME NEW k \in T PROVE k + 1 \in T
  <2>1. SUFFICES ASSUME k + 1 <= Len(batch) PROVE Good(Added(v, batch)[1 .. (k + 1)])
    OBVIOUS
  <2>2. PICK u, line : u = Added(v, batch)[1 .. k] /\ line = batch[k + 1]
    OBVIOUS
  <2>3. k \in Nat /\ Good(u)
    BY <2>1, <2>2
  <2>4. line \in Lines!Line /\ line.gen = g
    BY <2>1, <2>2, <2>3
  <2>5. Added(v, batch)[1 .. (k + 1)] = Lines!Extend(u, line)
    BY <2>1, <2>2, <2>3, AddedUpTo
  <2>6. /\ Lines!Extend(u, line) \in Lines!View /\ Lines!Extend(u, line).shown = Lines!Kept(Lines!Extend(u, line))
        /\ Lines!Extend(u, line).lines = Append(u.lines, line) /\ Lines!Extend(u, line).active = u.active
    BY <2>3, <2>4, ExtendKeeps
  <2>7. \A i \in DOMAIN Append(u.lines, line) : Append(u.lines, line)[i].gen = g
    <3>1. u.lines \in Seq(Lines!Line)
      BY <2>3, FieldsOf
    <3> QED BY <2>3, <2>4, <3>1
  <2> QED BY <2>3, <2>5, <2>6, <2>7
<1>3. T = Nat
  <2>1. T \subseteq Nat
    OBVIOUS
  <2> HIDE DEF T
  <2> QED BY <1>1, <1>2, <2>1, SetInduction
<1>4. PICK n \in Nat : n = Len(batch) /\ DOMAIN batch = 1 .. n
  OBVIOUS
<1>5. Lines!FoldLeft(Lines!Extend, v, batch) = Added(v, batch)[1 .. n]
  BY <1>4, BatchIs
<1>6. Good(Added(v, batch)[1 .. n])
  <2>1. n \in T
    BY <1>3
  <2> QED BY <1>4, <2>1
<1> QED BY <1>5, <1>6

(* placeCursor: whatever the cursor was, it is on a line that is shown.     *)
Placed(v) ==
  /\ v.cursor \in DOMAIN v.shown \cup {0} /\ (v.cursor = 0) = (v.shown = <<>>)
  /\ v.anchor <= Len(v.shown) /\ (v.following => v.cursor = Len(v.shown))

LEMMA PlaceIs ==
  ASSUME NEW v \in Lines!View
  PROVE  /\ Lines!Place(v) \in Lines!View /\ Placed(Lines!Place(v))
         /\ Lines!Place(v).lines = v.lines /\ Lines!Place(v).shown = v.shown /\ Lines!Place(v).active = v.active
         /\ Lines!Place(v).following = v.following /\ Lines!Kept(Lines!Place(v)) = Lines!Kept(v)
<1> DEFINE n == Len(v.shown)
           cursor == CASE n = 0 -> 0
                       [] n > 0 /\ v.following -> n
                       [] OTHER -> Lines!Max({1, Lines!Min({v.cursor, n})})
           at == Lines!Min({v.anchor, n})
           w == Lines!Place(v)
<1>1. n \in Nat /\ v.cursor \in Nat /\ v.anchor \in Nat /\ v.following \in BOOLEAN /\ v.shown \in Seq(Nat)
  BY FieldsOf
<1>2. at \in Nat /\ at <= n
  <2>1. PICK a \in Nat, k \in Nat : a = v.anchor /\ k = n
    BY <1>1
  <2>2. Lines!Min({a, k}) = IF a <= k THEN a ELSE k
    BY OfTwo
  <2> QED BY <2>1, <2>2
<1>3. Lines!Max({1, Lines!Min({v.cursor, n})}) \in Nat /\ (n > 0 => Lines!Max({1, Lines!Min({v.cursor, n})}) \in 1 .. n)
  <2>1. PICK c \in Nat, k \in Nat : c = v.cursor /\ k = n
    BY <1>1
  <2>2. PICK m \in Nat : m = Lines!Min({c, k}) /\ m <= k
    <3>1. Lines!Min({c, k}) = IF c <= k THEN c ELSE k
      BY OfTwo
    <3> QED BY <3>1
  <2>3. Lines!Max({1, m}) = IF 1 >= m THEN 1 ELSE m
    BY OfTwo
  <2> QED BY <2>1, <2>2, <2>3
<1>4. /\ cursor \in Nat /\ (n = 0 => cursor = 0) /\ (n > 0 => cursor \in 1 .. n)
      /\ v.following => cursor = n
  BY <1>1, <1>3
<1>5. w = [v EXCEPT !.cursor = cursor, !.anchor = at]
  BY DEF Lines!Place
<1> HIDE DEF w, cursor, at
<1>6. w \in Lines!View
  BY <1>2, <1>4, <1>5 DEF Lines!View
<1>7. /\ w.cursor = cursor /\ w.anchor = at /\ w.lines = v.lines /\ w.shown = v.shown /\ w.active = v.active
      /\ w.following = v.following /\ w.query = v.query /\ w.regex = v.regex /\ w.re = v.re
  BY <1>5 DEF Lines!View
<1>8. Lines!Kept(w) = Lines!Kept(v)
  BY <1>7, KeptAgrees
<1>9. DOMAIN v.shown = 1 .. n /\ (v.shown = <<>>) = (n = 0)
  BY <1>1
<1>10. Placed(w)
  BY <1>1, <1>2, <1>4, <1>7, <1>9 DEF Placed
<1> QED BY <1>6, <1>7, <1>8, <1>10 DEF w

(* What a rebuild finds, and keeps the cursors on.                          *)
Rebuilt(v, g) ==
  /\ v.shown = Lines!Kept(v) /\ Placed(v)
  /\ \A i \in DOMAIN v.lines : v.lines[i].gen = g
Held(v) == v \in Lines!View /\ Len(v.lines) < MaxLines + Chunk

LEMMA PlaceKeeps ==
  ASSUME NEW v, Held(v), v.shown = Lines!Kept(v), NEW g, \A i \in DOMAIN v.lines : v.lines[i].gen = g
  PROVE  Held(Lines!Place(v)) /\ Rebuilt(Lines!Place(v), g) /\ Lines!Place(v).active = v.active
BY PlaceIs DEF Held, Rebuilt

LEMMA CountIsNat ==
  ASSUME NEW s \in Seq(Nat), NEW i
  PROVE  Lines!AtOrAfter(s, i) \in Nat
<1>1. PICK n \in Nat : DOMAIN s = 1 .. n
  OBVIOUS
<1>2. IsFiniteSet(1 .. n)
  BY FS_Interval
<1>3. IsFiniteSet({k \in DOMAIN s : s[k] < i})
  BY <1>1, <1>2, FS_Subset
<1>4. Cardinality({k \in DOMAIN s : s[k] < i}) \in Nat
  BY <1>3, FS_CardinalityType
<1> QED BY <1>4, LinesCount DEF Lines!AtOrAfter

LEMMA FollowsIsNat ==
  ASSUME NEW old, NEW at \in Nat, NEW new \in Seq(Nat)
  PROVE  Lines!Follows(old, at, new) \in Nat
BY CountIsNat DEF Lines!Follows

LEMMA RenderKeeps ==
  ASSUME NEW v, Held(v), NEW g, \A i \in DOMAIN v.lines : v.lines[i].gen = g
  PROVE  Held(Lines!Render(v)) /\ Rebuilt(Lines!Render(v), g) /\ Lines!Render(v).active = v.active
<1> DEFINE c == Lines!Follows(v.shown, v.cursor, Lines!Kept(v))
           a == Lines!Follows(v.shown, v.anchor, Lines!Kept(v))
           w == [v EXCEPT !.shown = Lines!Kept(v), !.cursor = c, !.anchor = a]
<1>1. v \in Lines!View /\ Lines!Kept(v) \in Seq(Nat) /\ v.cursor \in Nat /\ v.anchor \in Nat
  BY FieldsOf, KeptTyped DEF Held
<1>2. c \in Nat /\ a \in Nat
  BY <1>1, FollowsIsNat
<1>3. Lines!Render(v) = Lines!Place(w)
  BY DEF Lines!Render
<1> HIDE DEF c, a
<1>4. w \in Lines!View
  BY <1>1, <1>2 DEF Lines!View
<1>5. /\ w.lines = v.lines /\ w.shown = Lines!Kept(v) /\ w.active = v.active
      /\ w.query = v.query /\ w.regex = v.regex /\ w.re = v.re
  BY <1>1 DEF Lines!View
<1> HIDE DEF w
<1>6. Lines!Kept(w) = Lines!Kept(v)
  BY <1>1, <1>5, KeptAgrees
<1>7. Held(w)
  BY <1>4, <1>5 DEF Held
<1>8. w.shown = Lines!Kept(w) /\ \A i \in DOMAIN w.lines : w.lines[i].gen = g
  BY <1>5, <1>6
<1>9. Held(Lines!Place(w)) /\ Rebuilt(Lines!Place(w), g) /\ Lines!Place(w).active = w.active
  BY <1>7, <1>8, PlaceKeeps
<1> QED BY <1>3, <1>5, <1>9

LEMMA AppendBatchKeeps ==
  ASSUME NEW v, Held(v), NEW g, Rebuilt(v, g), NEW batch \in Seq(Lines!Line),
         \A i \in DOMAIN batch : batch[i].gen = g
  PROVE  /\ Held(Lines!AppendBatch(v, batch)) /\ Rebuilt(Lines!AppendBatch(v, batch), g)
         /\ Lines!AppendBatch(v, batch).active = v.active
<1>1. CASE batch = <<>>
  BY <1>1 DEF Lines!AppendBatch
<1>2. CASE batch # <<>>
  <2>1. PICK w, u : w = Lines!FoldLeft(Lines!Extend, v, batch) /\ u = Lines!Trim(w)
    OBVIOUS
  <2>2. /\ w \in Lines!View /\ w.shown = Lines!Kept(w) /\ w.active = v.active
        /\ \A i \in DOMAIN w.lines : w.lines[i].gen = g
    <3>1. v \in Lines!View /\ v.shown = Lines!Kept(v) /\ \A i \in DOMAIN v.lines : v.lines[i].gen = g
      BY DEF Held, Rebuilt
    <3> QED BY <2>1, <3>1, BatchKeeps
  <2>3. /\ u \in Lines!View /\ u.shown = Lines!Kept(u) /\ u.active = w.active /\ Len(u.lines) < MaxLines + Chunk
        /\ \A i \in DOMAIN u.lines : \E j \in DOMAIN w.lines : u.lines[i] = w.lines[j]
    BY <2>1, <2>2, TrimKeeps DEF Dropped
  <2>4. Held(u) /\ \A i \in DOMAIN u.lines : u.lines[i].gen = g
    BY <2>2, <2>3 DEF Held
  <2>5. Held(Lines!Place(u)) /\ Rebuilt(Lines!Place(u), g) /\ Lines!Place(u).active = u.active
    BY <2>3, <2>4, PlaceKeeps
  <2>6. Lines!AppendBatch(v, batch) = Lines!Place(u)
    BY <1>2, <2>1 DEF Lines!AppendBatch
  <2> QED BY <2>2, <2>3, <2>5, <2>6
<1> QED BY <1>1, <1>2

(* Changes that leave the lines and the filter alone.                       *)
Alike(w, v) ==
  /\ w.lines = v.lines /\ w.shown = v.shown /\ w.active = v.active
  /\ w.query = v.query /\ w.regex = v.regex /\ w.re = v.re

LEMMA AlikeKeeps ==
  ASSUME NEW v, Held(v), v.shown = Lines!Kept(v), NEW w \in Lines!View, Alike(w, v)
  PROVE  Held(w) /\ w.shown = Lines!Kept(w)
<1>1. Lines!Kept(w) = Lines!Kept(v)
  BY KeptAgrees DEF Alike, Held
<1> QED BY <1>1 DEF Alike, Held

LEMMA EndSelectIs ==
  ASSUME NEW v \in Lines!View, NEW resume \in BOOLEAN
  PROVE  Lines!EndSelect(v, resume) \in Lines!View /\ Alike(Lines!EndSelect(v, resume), v)
<1> DEFINE f == v.following \/ (resume /\ v.resume)
<1>1. f \in BOOLEAN
  BY FieldsOf
<1> HIDE DEF f
<1>2. [v EXCEPT !.anchor = 0, !.resume = FALSE, !.following = f] \in Lines!View
  BY <1>1 DEF Lines!View
<1>3. Alike([v EXCEPT !.anchor = 0, !.resume = FALSE, !.following = f], v)
  BY DEF Lines!View, Alike
<1>4. Lines!EndSelect(v, resume) = IF v.anchor = 0 THEN v
                                   ELSE [v EXCEPT !.anchor = 0, !.resume = FALSE, !.following = f]
  BY DEF Lines!EndSelect, f
<1> QED BY <1>2, <1>3, <1>4 DEF Alike

LEMMA CompileIs ==
  ASSUME NEW v \in Lines!View
  PROVE  /\ Lines!Compile(v) \in Lines!View /\ Lines!Compile(v).lines = v.lines /\ Lines!Compile(v).active = v.active
<1> DEFINE r == CASE ~v.regex \/ v.query = Lines!Empty -> Lines!None
                  [] v.regex /\ v.query = "(" -> v.re
                  [] OTHER -> v.query
<1>1. r \in {Lines!None, "f"}
  <2>1. v.query \in {Lines!Empty, "f", "("} /\ v.re \in {Lines!None, "f"} /\ v.regex \in BOOLEAN
    BY FieldsOf DEF Lines!Query
  <2>2. CASE ~v.regex \/ v.query = Lines!Empty
    BY <2>1, <2>2
  <2>3. CASE v.regex /\ v.query = "("
    BY <2>1, <2>3
  <2>4. CASE ~(~v.regex \/ v.query = Lines!Empty) /\ ~(v.regex /\ v.query = "(")
    BY <2>1, <2>4
  <2> QED BY <2>2, <2>3, <2>4
<1>2. Lines!Compile(v) = [v EXCEPT !.re = r]
  BY DEF Lines!Compile
<1> HIDE DEF r
<1> QED BY <1>1, <1>2 DEF Lines!View

LEMMA CloseFilterIs ==
  ASSUME NEW v \in Lines!View
  PROVE  /\ Lines!CloseFilter(v) \in Lines!View /\ Lines!CloseFilter(v).lines = v.lines
         /\ Lines!CloseFilter(v).active = v.active
<1> DEFINE w == [v EXCEPT !.filtering = FALSE, !.query = Lines!Empty]
<1>1. w \in Lines!View /\ w.lines = v.lines /\ w.active = v.active
  <2>1. Lines!Empty \in Lines!Query
    BY DEF Lines!Query
  <2> QED BY <2>1 DEF Lines!View
<1>2. Lines!CloseFilter(v) = IF v.filtering THEN Lines!Compile(w) ELSE v
  BY DEF Lines!CloseFilter
<1> HIDE DEF w
<1> QED BY <1>1, <1>2, CompileIs

LEMMA CloseIs ==
  ASSUME NEW v, Held(v)
  PROVE  Held(Lines!Close(v)) /\ Lines!Close(v).active = FALSE
<1>1. PICK w : w = Lines!CloseFilter(v) /\ w \in Lines!View /\ w.lines = v.lines
  BY CloseFilterIs DEF Held
<1>2. [w EXCEPT !.active = FALSE] \in Lines!View
  BY <1>1, SetFlags
<1>3. [w EXCEPT !.active = FALSE].active = FALSE /\ [w EXCEPT !.active = FALSE].lines = v.lines
  BY <1>1 DEF Lines!View
<1> QED BY <1>1, <1>2, <1>3 DEF Lines!Close, Held

LEMMA MoveToKeeps ==
  ASSUME NEW v, Held(v), NEW g, NEW at \in Nat,
         v.shown = Lines!Kept(v), \A i \in DOMAIN v.lines : v.lines[i].gen = g,
         v.shown = <<>> => Placed(v)
  PROVE  Held(Lines!MoveTo(v, at)) /\ Rebuilt(Lines!MoveTo(v, at), g) /\ Lines!MoveTo(v, at).active = v.active
<1>1. CASE v.shown = <<>>
  BY <1>1 DEF Lines!MoveTo, Rebuilt
<1>2. CASE v.shown # <<>>
  <2>1. PICK w : w = [v EXCEPT !.cursor = at]
    OBVIOUS
  <2>2. w \in Lines!View /\ Alike(w, v)
    BY <2>1 DEF Held, Lines!View, Alike
  <2>3. Held(w) /\ w.shown = Lines!Kept(w)
    BY <2>2, AlikeKeeps
  <2>4. \A i \in DOMAIN w.lines : w.lines[i].gen = g
    BY <2>2 DEF Alike
  <2>5. Held(Lines!Place(w)) /\ Rebuilt(Lines!Place(w), g) /\ Lines!Place(w).active = w.active
    BY <2>3, <2>4, PlaceKeeps
  <2>6. Lines!MoveTo(v, at) = Lines!Place(w)
    BY <1>2, <2>1 DEF Lines!MoveTo
  <2> QED BY <2>2, <2>5, <2>6 DEF Alike
<1> QED BY <1>1, <1>2

LEMMA RestreamKeeps ==
  ASSUME NEW v, Held(v), NEW g
  PROVE  Held(Lines!Restream(v)) /\ Rebuilt(Lines!Restream(v), g) /\ Lines!Restream(v).active = v.active
<1> DEFINE w == [v EXCEPT !.lines = <<>>, !.shown = <<>>, !.cursor = 0, !.anchor = 0,
                          !.trimmed = FALSE, !.resume = FALSE, !.following = TRUE]
<1>1. w \in Lines!View /\ w.lines = <<>> /\ w.active = v.active
  <2>1. <<>> \in Seq(Lines!Line) /\ <<>> \in Seq(Nat) /\ 0 \in Nat
    OBVIOUS
  <2> QED BY <2>1 DEF Held, Lines!View
<1>2. Lines!Restream(v) = Lines!Render(w)
  BY DEF Lines!Restream
<1> HIDE DEF w
<1>3. Held(w)
  BY <1>1 DEF Held
<1>4. \A i \in DOMAIN w.lines : w.lines[i].gen = g
  BY <1>1
<1> QED BY <1>1, <1>2, <1>3, <1>4, RenderKeeps

(* The steps.                                                               *)
LEMMA InvIs ==
  /\ Lines!Inv => /\ Held(view) /\ (view.active => Rebuilt(view, gen)) /\ view \in Lines!View
                  /\ gen \in Nat /\ previous \in BOOLEAN /\ pumps \subseteq Lines!Pump
                  /\ written \in 0 .. MaxWritten /\ logKeys \in 0 .. MaxLogKeys
  /\ /\ Held(view)' /\ (view'.active => Rebuilt(view', gen'))
     /\ gen' \in Nat /\ previous' \in BOOLEAN /\ pumps' \subseteq Lines!Pump
     /\ written' \in 0 .. MaxWritten /\ logKeys' \in 0 .. MaxLogKeys
     => Lines!Inv'
BY DEF Lines!Inv, Lines!TypeOK, Held, Lines!ShownIsARebuild, Rebuilt, Placed

LEMMA LinesInit == Lines!Init => Lines!Inv
<1> SUFFICES ASSUME Lines!Init PROVE Lines!Inv
  OBVIOUS
<1>1. <<>> \in Seq(Lines!Line) /\ <<>> \in Seq(Nat) /\ Lines!Empty \in Lines!Query
  BY DEF Lines!Query
<1>2. view \in Lines!View /\ view.lines = <<>> /\ view.active = FALSE
  BY <1>1 DEF Lines!Init, Lines!Fresh, Lines!View
<1>3. Len(view.lines) < MaxLines + Chunk
  BY <1>2
<1>4. /\ previous \in BOOLEAN /\ gen \in Nat /\ pumps \subseteq Lines!Pump
      /\ written \in 0 .. MaxWritten /\ logKeys \in 0 .. MaxLogKeys
  <2>1. 0 \in Nat /\ 0 \in 0 .. MaxWritten /\ 0 \in 0 .. MaxLogKeys
    OBVIOUS
  <2>2. previous = FALSE /\ gen = 0 /\ pumps = {} /\ written = 0 /\ logKeys = 0
    BY DEF Lines!Init
  <2> QED BY <2>1, <2>2
<1> QED BY <1>2, <1>3, <1>4 DEF Lines!Inv, Lines!TypeOK, Lines!ShownIsARebuild

LEMMA CountsKeys == Lines!Inv /\ Lines!Key => logKeys' \in 0 .. MaxLogKeys /\ view.active
BY DEF Lines!Inv, Lines!TypeOK, Lines!Key

(* A key that leaves the streams alone.                                     *)
LEMMA LogKeyKeeps ==
  ASSUME Lines!Inv, Lines!Key, Lines!Same, Held(view'), Rebuilt(view', gen)
  PROVE  Lines!Inv'
<1>1. logKeys' \in 0 .. MaxLogKeys
  BY CountsKeys
<1> QED BY <1>1, InvIs DEF Lines!Same, Held

(* ...and only the flags, the cursor or the selection of the view.          *)
LEMMA PlacedKeeps ==
  ASSUME Lines!Inv, Lines!Key, Lines!Same, NEW w \in Lines!View, Alike(w, view), view' = Lines!Place(w)
  PROVE  Lines!Inv'
<1>1. Held(view) /\ Rebuilt(view, gen)
  BY InvIs, CountsKeys
<1>2. Held(w) /\ w.shown = Lines!Kept(w)
  BY <1>1, AlikeKeeps DEF Rebuilt
<1>3. \A i \in DOMAIN w.lines : w.lines[i].gen = gen
  BY <1>1 DEF Rebuilt, Alike
<1>4. Held(view') /\ Rebuilt(view', gen)
  BY <1>2, <1>3, PlaceKeeps
<1> QED BY <1>4, LogKeyKeeps

LEMMA MovedKeeps ==
  ASSUME Lines!Inv, Lines!Key, Lines!Same, NEW f \in BOOLEAN, f => view.following, NEW at \in Nat,
         view' = Lines!MoveTo([view EXCEPT !.following = f], at)
  PROVE  Lines!Inv'
<1>1. Held(view) /\ Rebuilt(view, gen)
  BY InvIs, CountsKeys
<1>2. PICK w : w = [view EXCEPT !.following = f]
  OBVIOUS
<1>3. w \in Lines!View /\ Alike(w, view) /\ w.following = f /\ w.cursor = view.cursor /\ w.anchor = view.anchor
  BY <1>1, <1>2 DEF Held, Lines!View, Alike
<1>4. Held(w) /\ w.shown = Lines!Kept(w)
  BY <1>1, <1>3, AlikeKeeps DEF Rebuilt
<1>5. \A i \in DOMAIN w.lines : w.lines[i].gen = gen
  BY <1>1, <1>3 DEF Rebuilt, Alike
<1>6. Placed(w)
  BY <1>1, <1>3 DEF Rebuilt, Alike, Placed
<1>7. Held(view') /\ Rebuilt(view', gen)
  BY <1>2, <1>4, <1>5, <1>6, MoveToKeeps
<1> QED BY <1>7, LogKeyKeeps

LEMMA UpKeeps == \A to \in 1 .. MaxLines : Lines!Inv /\ Lines!Up(to) => Lines!Inv'
<1> SUFFICES ASSUME NEW to \in 1 .. MaxLines, Lines!Inv, Lines!Up(to) PROVE Lines!Inv'
  OBVIOUS
<1>1. to \in Nat
  OBVIOUS
<1> QED BY <1>1, MovedKeeps DEF Lines!Up

(* A flag set, and the cursor placed.                                       *)
LEMMA FollowingPlaced ==
  ASSUME NEW v \in Lines!View, Alike(v, view), NEW f \in BOOLEAN
  PROVE  [v EXCEPT !.following = f] \in Lines!View /\ Alike([v EXCEPT !.following = f], view)
BY DEF Lines!View, Alike

LEMMA DownKeeps == Lines!Inv /\ Lines!Down => Lines!Inv'
<1> SUFFICES ASSUME Lines!Inv, Lines!Down PROVE Lines!Inv'
  OBVIOUS
<1>1. Held(view) /\ view \in Lines!View /\ view.cursor \in Nat /\ Alike(view, view) /\ view.following \in BOOLEAN
  BY InvIs, FieldsOf DEF Alike
<1>2. CASE Lines!AtNewest
  <2>1. [view EXCEPT !.following = TRUE] \in Lines!View /\ Alike([view EXCEPT !.following = TRUE], view)
    BY <1>1, FollowingPlaced
  <2> QED BY <1>2, <2>1, PlacedKeeps DEF Lines!Down
<1>3. CASE ~Lines!AtNewest
  <2>1. [view EXCEPT !.following = view.following] = view
    BY <1>1 DEF Lines!View
  <2>2. view.cursor + 1 \in Nat
    BY <1>1
  <2>3. PICK f \in BOOLEAN, at \in Nat : f = view.following /\ at = view.cursor + 1
    BY <1>1, <2>2
  <2>4. view' = Lines!MoveTo([view EXCEPT !.following = f], at)
    BY <1>3, <2>1, <2>3 DEF Lines!Down
  <2> QED BY <2>3, <2>4, MovedKeeps DEF Lines!Down
<1> QED BY <1>2, <1>3

LEMMA BottomKeeps == Lines!Inv /\ Lines!Bottom => Lines!Inv'
<1> SUFFICES ASSUME Lines!Inv, Lines!Bottom PROVE Lines!Inv'
  OBVIOUS
<1>1. /\ Held(view) /\ view \in Lines!View /\ Alike(view, view) /\ view.following \in BOOLEAN
      /\ view.shown \in Seq(Nat)
  BY InvIs, FieldsOf DEF Alike
<1>2. CASE view.anchor > 0
  <2>1. [view EXCEPT !.following = view.following] = view
    BY <1>1 DEF Lines!View
  <2>2. PICK f \in BOOLEAN, at \in Nat : f = view.following /\ at = Len(view.shown)
    BY <1>1
  <2>3. view' = Lines!MoveTo([view EXCEPT !.following = f], at)
    BY <1>2, <2>1, <2>2 DEF Lines!Bottom
  <2> QED BY <2>2, <2>3, MovedKeeps DEF Lines!Bottom
<1>3. CASE ~(view.anchor > 0)
  <2>1. [view EXCEPT !.following = TRUE] \in Lines!View /\ Alike([view EXCEPT !.following = TRUE], view)
    BY <1>1, FollowingPlaced
  <2> QED BY <1>3, <2>1, PlacedKeeps DEF Lines!Bottom
<1> QED BY <1>2, <1>3

LEMMA ToggleFollowKeeps == Lines!Inv /\ Lines!ToggleFollow => Lines!Inv'
<1> SUFFICES ASSUME Lines!Inv, Lines!ToggleFollow PROVE Lines!Inv'
  OBVIOUS
<1>1. PICK w : w = Lines!EndSelect(view, FALSE) /\ w \in Lines!View /\ Alike(w, view)
  BY InvIs, EndSelectIs
<1>2. PICK f \in BOOLEAN : f = ~view.following
  OBVIOUS
<1>3. [w EXCEPT !.following = f] \in Lines!View /\ Alike([w EXCEPT !.following = f], view)
  BY <1>1, FollowingPlaced
<1>4. view' = Lines!Place([w EXCEPT !.following = f])
  BY <1>1, <1>2 DEF Lines!ToggleFollow
<1> QED BY <1>3, <1>4, PlacedKeeps DEF Lines!ToggleFollow

LEMMA SelectKeeps == Lines!Inv /\ Lines!Select => Lines!Inv'
<1> SUFFICES ASSUME Lines!Inv, Lines!Select PROVE Lines!Inv'
  OBVIOUS
<1>1. view \in Lines!View /\ Alike(view, view) /\ view.cursor \in Nat /\ view.following \in BOOLEAN
      /\ view.anchor \in Nat
  BY InvIs, FieldsOf DEF Alike
<1> DEFINE marked == [view EXCEPT !.anchor = Lines!Max({view.cursor, 1}), !.resume = view.following,
                                  !.following = FALSE]
<1>2. Lines!EndSelect(view, TRUE) \in Lines!View /\ Alike(Lines!EndSelect(view, TRUE), view)
  BY <1>1, EndSelectIs
<1>3. marked \in Lines!View /\ Alike(marked, view)
  <2>1. PICK c \in Nat : c = view.cursor
    BY <1>1
  <2>2. Lines!Max({c, 1}) = IF c >= 1 THEN c ELSE 1
    BY OfTwo
  <2>3. PICK k \in Nat : k = Lines!Max({view.cursor, 1})
    BY <2>1, <2>2
  <2>4. marked = [view EXCEPT !.anchor = k, !.resume = view.following, !.following = FALSE]
    BY <2>3
  <2> QED BY <1>1, <2>4 DEF Lines!View, Alike
<1> HIDE DEF marked
<1>4. \/ view' = Lines!Place(Lines!EndSelect(view, TRUE))
      \/ view' = Lines!Place(view)
      \/ view' = Lines!Place(marked)
  <2>1. CASE view.anchor > 0
    <3>1. view.anchor # 0
      BY <1>1, <2>1
    <3> QED BY <2>1, <3>1 DEF Lines!Select
  <2>2. CASE ~(view.anchor > 0) /\ view.anchor = 0 /\ view.shown = <<>>
    BY <2>2 DEF Lines!Select
  <2>3. CASE ~(view.anchor > 0) /\ ~(view.anchor = 0 /\ view.shown = <<>>)
    BY <2>3 DEF Lines!Select, marked
  <2> QED BY <2>1, <2>2, <2>3
<1>5. Lines!Key /\ Lines!Same
  BY DEF Lines!Select
<1> QED BY <1>1, <1>2, <1>3, <1>4, <1>5, PlacedKeeps

LEMMA YankKeeps == Lines!Inv /\ Lines!Yank => Lines!Inv'
<1> SUFFICES ASSUME Lines!Inv, Lines!Yank PROVE Lines!Inv'
  OBVIOUS
<1>1. Lines!EndSelect(view, TRUE) \in Lines!View /\ Alike(Lines!EndSelect(view, TRUE), view)
  BY InvIs, EndSelectIs
<1> QED BY <1>1, PlacedKeeps DEF Lines!Yank

(* The filter's keys: the lines stay, and what is shown is found anew.      *)
LEMMA RenderedKeeps ==
  ASSUME Lines!Inv, Lines!Key, Lines!Same, NEW w \in Lines!View, w.lines = view.lines, view' = Lines!Render(w)
  PROVE  Lines!Inv'
<1>1. Held(view) /\ Rebuilt(view, gen)
  BY InvIs, CountsKeys
<1>2. Held(w) /\ \A i \in DOMAIN w.lines : w.lines[i].gen = gen
  BY <1>1 DEF Held, Rebuilt
<1>3. Held(view') /\ Rebuilt(view', gen)
  BY <1>2, RenderKeeps
<1> QED BY <1>3, LogKeyKeeps

LEMMA OpenFilterKeeps == Lines!Inv /\ Lines!OpenFilter => Lines!Inv'
<1> SUFFICES ASSUME Lines!Inv, Lines!OpenFilter PROVE Lines!Inv'
  OBVIOUS
<1>1. view \in Lines!View
  BY InvIs
<1>2. PICK w : w = [view EXCEPT !.filtering = TRUE] /\ w \in Lines!View /\ w.lines = view.lines
  <2>1. [view EXCEPT !.filtering = TRUE] \in Lines!View /\ [view EXCEPT !.filtering = TRUE].lines = view.lines
    BY <1>1 DEF Lines!View
  <2> QED BY <2>1
<1> QED BY <1>2, RenderedKeeps DEF Lines!OpenFilter

LEMMA TypeFilterKeeps == \A q \in Lines!Query : Lines!Inv /\ Lines!TypeFilter(q) => Lines!Inv'
<1> SUFFICES ASSUME NEW q \in Lines!Query, Lines!Inv, Lines!TypeFilter(q) PROVE Lines!Inv'
  OBVIOUS
<1>1. view \in Lines!View
  BY InvIs
<1>2. PICK w : w = [view EXCEPT !.query = q] /\ w \in Lines!View /\ w.lines = view.lines
  <2>1. [view EXCEPT !.query = q] \in Lines!View /\ [view EXCEPT !.query = q].lines = view.lines
    BY <1>1 DEF Lines!View
  <2> QED BY <2>1
<1>3. PICK u : u = Lines!Compile(w) /\ u \in Lines!View /\ u.lines = view.lines
  BY <1>2, CompileIs
<1>4. view' = Lines!Render(u)
  BY <1>2, <1>3 DEF Lines!TypeFilter
<1> QED BY <1>3, <1>4, RenderedKeeps DEF Lines!TypeFilter

LEMMA ToggleRegexKeeps == Lines!Inv /\ Lines!ToggleRegex => Lines!Inv'
<1> SUFFICES ASSUME Lines!Inv, Lines!ToggleRegex PROVE Lines!Inv'
  OBVIOUS
<1>1. view \in Lines!View /\ view.regex \in BOOLEAN
  BY InvIs, FieldsOf
<1>2. PICK w : w = [view EXCEPT !.regex = ~view.regex] /\ w \in Lines!View /\ w.lines = view.lines
  <2>1. PICK r \in BOOLEAN : r = ~view.regex
    OBVIOUS
  <2>2. [view EXCEPT !.regex = r] \in Lines!View /\ [view EXCEPT !.regex = r].lines = view.lines
    BY <1>1 DEF Lines!View
  <2> QED BY <2>1, <2>2
<1>3. PICK u : u = Lines!Compile(w) /\ u \in Lines!View /\ u.lines = view.lines
  BY <1>2, CompileIs
<1>4. view' = Lines!Render(u)
  BY <1>2, <1>3 DEF Lines!ToggleRegex
<1> QED BY <1>3, <1>4, RenderedKeeps DEF Lines!ToggleRegex

LEMMA BackKeeps == Lines!Inv /\ Lines!Back => Lines!Inv'
<1> SUFFICES ASSUME Lines!Inv, Lines!Back PROVE Lines!Inv'
  OBVIOUS
<1>1. Lines!Key /\ UNCHANGED <<previous, pumps, written>>
  BY DEF Lines!Back
<1>2. view \in Lines!View /\ Held(view) /\ view.anchor \in Nat
  BY InvIs, FieldsOf
<1>3. CASE view.filtering
  <2>1. view' = Lines!Render(Lines!CloseFilter(view)) /\ UNCHANGED gen
    BY <1>3 DEF Lines!Back
  <2>2. Lines!CloseFilter(view) \in Lines!View /\ Lines!CloseFilter(view).lines = view.lines
    BY <1>2, CloseFilterIs
  <2> QED BY <1>1, <2>1, <2>2, RenderedKeeps DEF Lines!Same
<1>4. CASE ~view.filtering /\ view.anchor > 0
  <2>1. view' = Lines!Place(Lines!EndSelect(view, TRUE)) /\ UNCHANGED gen
    BY <1>4 DEF Lines!Back
  <2>2. Lines!EndSelect(view, TRUE) \in Lines!View /\ Alike(Lines!EndSelect(view, TRUE), view)
    BY <1>2, EndSelectIs
  <2> QED BY <1>1, <2>1, <2>2, PlacedKeeps DEF Lines!Same
<1>5. CASE ~view.filtering /\ ~(view.anchor > 0)
  <2>1. view' = Lines!Close(view) /\ gen' = gen + 1
    BY <1>5 DEF Lines!Back, Lines!CloseLogs
  <2>2. Held(view') /\ view'.active = FALSE
    BY <1>2, <2>1, CloseIs
  <2>3. logKeys' \in 0 .. MaxLogKeys
    BY <1>1, CountsKeys
  <2>4. gen' \in Nat
    BY <2>1, InvIs
  <2>5. Held(view)'
    BY <2>2 DEF Held
  <2> QED BY <1>1, <2>2, <2>3, <2>4, <2>5, InvIs
<1> QED BY <1>3, <1>4, <1>5

(* A stream begins, on a view with none of the lines of the last.           *)
LEMMA StartedKeeps ==
  ASSUME Lines!Inv, NEW prev \in BOOLEAN, NEW box, box \subseteq pumps, Lines!Started(prev, box)
  PROVE  gen' = gen + 1 /\ gen' \in Nat /\ previous' \in BOOLEAN /\ pumps' \subseteq Lines!Pump
BY InvIs DEF Lines!Started, Lines!Pump

LEMMA OpenLogsKeeps == Lines!Inv /\ Lines!OpenLogs => Lines!Inv'
<1> SUFFICES ASSUME Lines!Inv, Lines!OpenLogs PROVE Lines!Inv'
  OBVIOUS
<1>1. Held(view) /\ view \in Lines!View
  BY InvIs
<1>2. PICK a : a = Lines!CloseFilter(view) /\ a \in Lines!View /\ a.lines = view.lines
  BY <1>1, CloseFilterIs
<1>3. PICK b : b = [a EXCEPT !.regex = FALSE] /\ b \in Lines!View /\ b.lines = view.lines
  <2>1. [a EXCEPT !.regex = FALSE] \in Lines!View /\ [a EXCEPT !.regex = FALSE].lines = a.lines
    BY <1>2 DEF Lines!View
  <2> QED BY <1>2, <2>1
<1>4. PICK c : c = Lines!Compile(b) /\ c \in Lines!View /\ c.lines = view.lines
  BY <1>3, CompileIs
<1>5. PICK d : d = Lines!Restream(c)
  OBVIOUS
<1>6. Held(c)
  BY <1>1, <1>4 DEF Held
<1>7. Held(d) /\ Rebuilt(d, gen + 1)
  BY <1>5, <1>6, RestreamKeeps
<1>8. view' = [d EXCEPT !.active = TRUE]
  BY <1>2, <1>3, <1>4, <1>5 DEF Lines!OpenLogs
<1>9. /\ view' \in Lines!View /\ view'.lines = d.lines /\ view'.shown = d.shown /\ view'.query = d.query
      /\ view'.regex = d.regex /\ view'.re = d.re /\ view'.cursor = d.cursor
      /\ view'.anchor = d.anchor /\ view'.following = d.following
  BY <1>7, <1>8 DEF Held, Lines!View
<1>10. Lines!Kept(view') = Lines!Kept(d)
  BY <1>7, <1>9, KeptAgrees DEF Held
<1>11. Held(view)' /\ Rebuilt(view', gen + 1)
  BY <1>7, <1>9, <1>10 DEF Held, Rebuilt, Placed
<1>12. gen' = gen + 1 /\ gen' \in Nat /\ previous' \in BOOLEAN /\ pumps' \subseteq Lines!Pump
  BY StartedKeeps DEF Lines!OpenLogs
<1>13. logKeys' \in 0 .. MaxLogKeys /\ written' = written
  BY InvIs DEF Lines!OpenLogs
<1> QED BY <1>11, <1>12, <1>13, InvIs

LEMMA TogglePreviousKeeps == Lines!Inv /\ Lines!TogglePrevious => Lines!Inv'
<1> SUFFICES ASSUME Lines!Inv, Lines!TogglePrevious PROVE Lines!Inv'
  OBVIOUS
<1>1. Held(view)
  BY InvIs
<1>2. Held(view') /\ Rebuilt(view', gen + 1)
  BY <1>1, RestreamKeeps DEF Lines!TogglePrevious
<1>3. PICK prev \in BOOLEAN : prev = ~previous
  OBVIOUS
<1>4. gen' = gen + 1 /\ gen' \in Nat /\ previous' \in BOOLEAN /\ pumps' \subseteq Lines!Pump
  BY <1>3, StartedKeeps DEF Lines!TogglePrevious
<1>5. logKeys' \in 0 .. MaxLogKeys /\ written' = written
  BY CountsKeys DEF Lines!TogglePrevious
<1>6. Held(view)'
  BY <1>2 DEF Held
<1> QED BY <1>2, <1>4, <1>5, <1>6, InvIs

(* handleLogMsg, with the view its lines are added to.                      *)
LEMMA EndedKeeps ==
  ASSUME Lines!Inv, NEW m, NEW v, Held(v), view.active, v.active, Rebuilt(v, gen),
         NEW end \in {"open", "closed", "error"}, Lines!Ended(m, v, end),
         logKeys' = logKeys, written' \in 0 .. MaxWritten
  PROVE  Lines!Inv'
<1>1. gen \in Nat /\ gen + 1 \in Nat /\ previous \in BOOLEAN /\ pumps \subseteq Lines!Pump
      /\ logKeys \in 0 .. MaxLogKeys
  BY InvIs
<1>2. pumps \ {m} \subseteq Lines!Pump
  BY <1>1
<1>3. CASE end = "open"
  <2>1. view' = v /\ UNCHANGED <<previous, gen, pumps>>
    BY <1>3 DEF Lines!Ended
  <2> QED BY <1>1, <2>1, InvIs DEF Held
<1>4. CASE end = "closed"
  <2>1. view' = v /\ pumps' = pumps \ {m} /\ UNCHANGED <<previous, gen>>
    BY <1>4 DEF Lines!Ended, Lines!Stop
  <2> QED BY <1>1, <1>2, <2>1, InvIs DEF Held
<1>5. CASE end = "error" /\ v.lines = <<>> /\ previous
  <2>1. view' = v /\ Lines!Started(FALSE, pumps \ {m})
    BY <1>5 DEF Lines!Ended
  <2>2. gen' = gen + 1 /\ gen' \in Nat /\ previous' \in BOOLEAN /\ pumps' \subseteq Lines!Pump
    BY <2>1, StartedKeeps
  <2>3. Held(view') /\ Rebuilt(view', gen')
    BY <1>5, <2>1 DEF Rebuilt
  <2> QED BY <1>1, <2>2, <2>3, InvIs DEF Held
<1>6. CASE end = "error" /\ v.lines = <<>> /\ ~previous
  <2>1. view' = Lines!Close(v) /\ gen' = gen + 1 /\ pumps' = pumps \ {m} /\ UNCHANGED previous
    BY <1>6 DEF Lines!Ended, Lines!Stop
  <2>2. Held(view') /\ view'.active = FALSE
    BY <2>1, CloseIs
  <2> QED BY <1>1, <1>2, <2>1, <2>2, InvIs DEF Held
<1>7. CASE end = "error" /\ v.lines # <<>>
  <2>1. view' = v /\ pumps' = pumps \ {m} /\ UNCHANGED <<previous, gen>>
    BY <1>7 DEF Lines!Ended, Lines!Stop
  <2> QED BY <1>1, <1>2, <2>1, InvIs DEF Held
<1> QED BY <1>1, <1>3, <1>4, <1>5, <1>6, <1>7

LEMMA LogMsgKeeps ==
  ASSUME Lines!Inv, NEW m \in pumps, NEW fs \in Seq(BOOLEAN), NEW end \in {"open", "closed", "error"},
         Lines!LogMsg(m, fs, end)
  PROVE  Lines!Inv'
<1>1. /\ Held(view) /\ (view.active => Rebuilt(view, gen)) /\ gen \in Nat
      /\ previous \in BOOLEAN /\ pumps \subseteq Lines!Pump
      /\ written \in 0 .. MaxWritten /\ logKeys \in 0 .. MaxLogKeys
  BY InvIs
<1>2. CASE Lines!Current(m)
  <2>1. PICK batch : batch = Lines!Stamped(m, fs)
    OBVIOUS
  <2>2. PICK k \in Nat : k = Len(fs) /\ DOMAIN fs = 1 .. k
    OBVIOUS
  <2>3. batch = [i \in 1 .. k |-> [n |-> written + i, f |-> fs[i], gen |-> m.gen]]
    BY <2>1, <2>2 DEF Lines!Stamped
  <2>4. \A i \in 1 .. k : [n |-> written + i, f |-> fs[i], gen |-> m.gen] \in Lines!Line
    <3> SUFFICES ASSUME NEW i \in 1 .. k PROVE [n |-> written + i, f |-> fs[i], gen |-> m.gen] \in Lines!Line
      OBVIOUS
    <3>1. written + i \in Nat \ {0} /\ fs[i] \in BOOLEAN
      BY <1>1, <2>2
    <3>2. m.gen \in Nat
      BY <1>1 DEF Lines!Pump
    <3> QED BY <3>1, <3>2 DEF Lines!Line
  <2>5. batch \in Seq(Lines!Line) /\ \A i \in DOMAIN batch : batch[i].gen = gen
    BY <1>2, <2>3, <2>4 DEF Lines!Current
  <2>6. PICK v : v = Lines!AppendBatch(view, batch)
    OBVIOUS
  <2>7. Held(v) /\ Rebuilt(v, gen) /\ v.active = view.active
    BY <1>1, <1>2, <2>5, <2>6, AppendBatchKeeps DEF Lines!Current
  <2>8. view.active /\ v.active
    BY <1>2, <2>7 DEF Lines!Current
  <2>9. Lines!Ended(m, v, end)
    BY <1>2, <2>1, <2>6 DEF Lines!LogMsg
  <2>10. logKeys' = logKeys /\ written' \in 0 .. MaxWritten
    <3>1. written' = written + k /\ written + k <= MaxWritten /\ logKeys' = logKeys
      BY <1>2, <2>2 DEF Lines!LogMsg
    <3> QED BY <1>1, <3>1
  <2> QED BY <2>7, <2>8, <2>9, <2>10, EndedKeeps
<1>3. CASE ~Lines!Current(m)
  <2>1. pumps' = pumps \ {m} /\ UNCHANGED <<view, previous, gen, written, logKeys>>
    BY <1>3 DEF Lines!LogMsg, Lines!Stop
  <2> QED BY <1>1, <2>1, InvIs DEF Held
<1> QED BY <1>2, <1>3

LEMMA SeqOfIsSeq ==
  ASSUME NEW K, NEW n \in Nat, NEW s \in Lines!SeqOf(K, n)
  PROVE  s \in Seq(K)
<1>1. PICK k \in 0 .. n : s \in [1 .. k -> K]
  BY DEF Lines!SeqOf
<1> QED BY <1>1

LEMMA LinesStep == Lines!Inv /\ [Lines!Next]_linesVars => Lines!Inv'
<1> SUFFICES ASSUME Lines!Inv, [Lines!Next]_linesVars PROVE Lines!Inv'
  OBVIOUS
<1>1. ASSUME Lines!Down \/ Lines!Bottom \/ Lines!ToggleFollow \/ Lines!Select \/ Lines!Yank \/ Lines!OpenFilter \/ Lines!ToggleRegex PROVE Lines!Inv'
  BY <1>1, DownKeeps, BottomKeeps, ToggleFollowKeeps, SelectKeeps, YankKeeps, OpenFilterKeeps, ToggleRegexKeeps
<1>2. ASSUME Lines!Back \/ Lines!OpenLogs \/ Lines!TogglePrevious PROVE Lines!Inv'
  BY <1>2, BackKeeps, OpenLogsKeeps, TogglePreviousKeeps
<1>3. ASSUME NEW to \in 1 .. MaxLines, Lines!Up(to) PROVE Lines!Inv'
  BY <1>3, UpKeeps
<1>4. ASSUME NEW q \in Lines!Query, Lines!TypeFilter(q) PROVE Lines!Inv'
  BY <1>4, TypeFilterKeeps
<1>5. ASSUME NEW m \in pumps, Lines!Handle(m) PROVE Lines!Inv'
  <2>1. PICK fs \in Lines!SeqOf(BOOLEAN, Batch), end \in {"open", "closed", "error"} : Lines!LogMsg(m, fs, end)
    BY <1>5 DEF Lines!Handle
  <2>2. fs \in Seq(BOOLEAN)
    BY SeqOfIsSeq
  <2> QED BY <2>1, <2>2, LogMsgKeeps
<1>6. CASE UNCHANGED linesVars
  <2>1. Lines!Kept(view)' = Lines!Kept(view)
    BY <1>6 DEF linesVars
  <2> QED BY <1>6, <2>1 DEF linesVars, Lines!Inv, Lines!TypeOK, Lines!ShownIsARebuild
<1> QED BY <1>1, <1>2, <1>3, <1>4, <1>5, <1>6 DEF Lines!Next

(* What stays under the cursors.                                            *)
(* Each line has its own number, of those written so far.                   *)
Numbered(v, n) ==
  /\ \A i \in DOMAIN v.lines : v.lines[i].n <= n
  /\ \A i, j \in DOMAIN v.lines : v.lines[i].n = v.lines[j].n => i = j

(* What is shown is in order.                                               *)
Ordered(s) == \A j, k \in DOMAIN s : j < k => s[j] < s[k]

LEMMA KeptOrdered == ASSUME NEW v \in Lines!View PROVE Ordered(Lines!Kept(v))
<1> DEFINE T == {n \in Nat : n <= Len(v.lines) => Ordered(KeptUpTo(v)[n])}
<1>0. Len(v.lines) \in Nat
  BY FieldsOf
<1>1. 0 \in T
  <2>1. KeptUpTo(v)[0] = <<>>
    BY <1>0, KeptUpToIs
  <2> QED BY <2>1 DEF Ordered
<1>2. ASSUME NEW n \in T PROVE n + 1 \in T
  <2>1. SUFFICES ASSUME n + 1 <= Len(v.lines) PROVE Ordered(KeptUpTo(v)[n + 1])
    OBVIOUS
  <2>2. PICK s : s = KeptUpTo(v)[n]
    OBVIOUS
  <2>3. n \in Nat /\ n \in 0 .. Len(v.lines) /\ n + 1 \in 1 .. Len(v.lines) /\ (n + 1) - 1 = n /\ Ordered(s)
    BY <1>0, <2>1, <2>2
  <2>4. s \in Seq(1 .. n)
    BY <1>0, <2>2, <2>3, KeptUpToTyped
  <2>5. KeptUpTo(v)[n + 1] = IF Lines!Keeps(v, v.lines[n + 1]) THEN Append(s, n + 1) ELSE s
    BY <1>0, <2>2, <2>3, KeptUpToIs DEF Grow
  <2>6. Ordered(Append(s, n + 1))
    <3>1. PICK l \in Nat : l = Len(s) /\ DOMAIN s = 1 .. l
      BY <2>4
    <3>2. /\ DOMAIN Append(s, n + 1) = 1 .. (l + 1) /\ Append(s, n + 1)[l + 1] = n + 1
          /\ \A j \in 1 .. l : Append(s, n + 1)[j] = s[j] /\ s[j] \in 1 .. n
      BY <2>4, <3>1
    <3>3. \A j, k \in 1 .. l : j < k => s[j] < s[k]
      BY <2>3, <3>1 DEF Ordered
    <3> DEFINE a == Append(s, n + 1)
    <3> HIDE DEF a
    <3>4. \A j, k \in 1 .. (l + 1) : j < k => a[j] < a[k]
      <4> SUFFICES ASSUME NEW j \in 1 .. (l + 1), NEW k \in 1 .. (l + 1), j < k PROVE a[j] < a[k]
        OBVIOUS
      <4>1. j \in 1 .. l /\ (k \in 1 .. l \/ k = l + 1)
        OBVIOUS
      <4>2. CASE k \in 1 .. l
        BY <3>2, <3>3, <4>1, <4>2 DEF a
      <4>3. CASE k = l + 1
        BY <2>3, <3>2, <4>1, <4>3 DEF a
      <4> QED BY <4>1, <4>2, <4>3
    <3> QED BY <3>2, <3>4 DEF Ordered, a
  <2> QED BY <2>3, <2>5, <2>6
<1>3. T = Nat
  <2>1. T \subseteq Nat
    OBVIOUS
  <2> HIDE DEF T
  <2> QED BY <1>1, <1>2, <2>1, SetInduction
<1>4. Lines!Kept(v) = KeptUpTo(v)[Len(v.lines)]
  BY <1>0, KeptUpToIs
<1>5. Len(v.lines) \in T
  <2> HIDE DEF T
  <2> QED BY <1>0, <1>3
<1> QED BY <1>0, <1>4, <1>5

(* A place in order is after as many as are before it.                      *)
LEMMA AtIts ==
  ASSUME NEW s \in Seq(Nat), Ordered(s), NEW k \in DOMAIN s
  PROVE  Lines!AtOrAfter(s, s[k]) = k
<1>1. PICK n \in Nat : DOMAIN s = 1 .. n /\ \A j \in 1 .. n : s[j] \in Nat
  OBVIOUS
<1>2. \A j \in 1 .. n : s[j] < s[k] <=> j < k
  <2> SUFFICES ASSUME NEW j \in 1 .. n PROVE s[j] < s[k] <=> j < k
    OBVIOUS
  <2>1. (j < k => s[j] < s[k]) /\ (k < j => s[k] < s[j])
    BY <1>1 DEF Ordered
  <2>2. j < k \/ j = k \/ k < j
    BY <1>1
  <2> QED BY <1>1, <2>1, <2>2
<1>3. {j \in DOMAIN s : s[j] < s[k]} = 1 .. (k - 1)
  BY <1>1, <1>2
<1>4. k \in Nat /\ k > 0
  BY <1>1
<1>5. PICK m \in Nat : m = k - 1
  BY <1>4
<1>6. Cardinality(1 .. m) = m
  <2>1. Cardinality(1 .. m) = IF 1 > m THEN 0 ELSE m - 1 + 1
    BY FS_Interval
  <2> QED BY <2>1
<1>7. Cardinality({j \in DOMAIN s : s[j] < s[k]}) = m
  BY <1>3, <1>5, <1>6
<1>8. Lines!AtOrAfter(s, s[k]) = 1 + m
  BY <1>7, LinesCount DEF Lines!AtOrAfter
<1> QED BY <1>4, <1>5, <1>8

(* placeCursor moves neither cursor off what is shown.                      *)
LEMMA PlaceStays ==
  ASSUME NEW v \in Lines!View
  PROVE  /\ ~v.following /\ v.cursor \in DOMAIN v.shown => Lines!Place(v).cursor = v.cursor
         /\ v.anchor \in DOMAIN v.shown => Lines!Place(v).anchor = v.anchor
<1> DEFINE n == Len(v.shown)
           cursor == CASE n = 0 -> 0
                       [] n > 0 /\ v.following -> n
                       [] OTHER -> Lines!Max({1, Lines!Min({v.cursor, n})})
           at == Lines!Min({v.anchor, n})
<1>1. n \in Nat /\ v.cursor \in Nat /\ v.anchor \in Nat /\ DOMAIN v.shown = 1 .. n
  BY FieldsOf
<1>2. Lines!Place(v) = [v EXCEPT !.cursor = cursor, !.anchor = at]
  BY DEF Lines!Place
<1>3. v.anchor \in DOMAIN v.shown => at = v.anchor
  <2>1. PICK a \in Nat, k \in Nat : a = v.anchor /\ k = n
    BY <1>1
  <2>2. Lines!Min({a, k}) = IF a <= k THEN a ELSE k
    BY OfTwo
  <2> QED BY <1>1, <2>1, <2>2
<1>4. ~v.following /\ v.cursor \in DOMAIN v.shown => cursor = v.cursor
  <2>1. PICK c \in Nat, k \in Nat : c = v.cursor /\ k = n
    BY <1>1
  <2>2. Lines!Min({c, k}) = IF c <= k THEN c ELSE k
    BY OfTwo
  <2>3. Lines!Max({1, c}) = IF 1 >= c THEN 1 ELSE c
    BY OfTwo
  <2>4. c \in 1 .. k => Lines!Max({1, Lines!Min({c, k})}) = c
    BY <2>2, <2>3
  <2>5. v.cursor \in DOMAIN v.shown => n > 0 /\ n # 0 /\ c \in 1 .. k
    BY <1>1, <2>1
  <2> HIDE DEF n
  <2> QED BY <2>1, <2>4, <2>5
<1> HIDE DEF cursor, at
<1> QED BY <1>2, <1>3, <1>4 DEF Lines!View

(* A cursor that was on a line is still on it if the line is shown.         *)
OnIts(v, a, w, b) ==
  a > 0 /\ Lines!LineAt(v, a) \in Lines!ShownLines(w) => b > 0 /\ Lines!LineAt(w, b) = Lines!LineAt(v, a)

LEMMA RenderStays ==
  ASSUME NEW v, NEW n, v \in Lines!View, v.shown = Lines!Kept(v), Numbered(v, n), Placed(v), ~v.following,
         NEW u \in Lines!View, u.lines = v.lines, u.shown = v.shown, u.cursor = v.cursor, u.anchor = v.anchor,
         u.following = v.following
  PROVE  LET w == Lines!Render(u) IN OnIts(v, v.cursor, w, w.cursor) /\ OnIts(v, v.anchor, w, w.anchor)
<1> DEFINE c == Lines!Follows(u.shown, u.cursor, Lines!Kept(u))
           a == Lines!Follows(u.shown, u.anchor, Lines!Kept(u))
           x == [u EXCEPT !.shown = Lines!Kept(u), !.cursor = c, !.anchor = a]
           w == Lines!Render(u)
           new == Lines!Kept(u)
<1>1. Lines!Kept(u) \in Seq(Nat) /\ Lines!Kept(u) \in Seq(1 .. Len(u.lines)) /\ Ordered(Lines!Kept(u)) /\ u.cursor \in Nat /\ u.anchor \in Nat
  BY FieldsOf, KeptTyped, KeptOrdered
<1>2. c \in Nat /\ a \in Nat
  BY <1>1, FollowsIsNat
<1>3. w = Lines!Place(x)
  BY DEF Lines!Render
<1>4. v.lines \in Seq(Lines!Line) /\ v.shown \in Seq(1 .. Len(v.lines))
  BY FieldsOf, KeptTyped
<1>5. ASSUME NEW at \in DOMAIN v.shown, Lines!LineAt(v, at) \in {v.lines[new[k]].n : k \in DOMAIN new}
      PROVE  /\ Lines!Follows(u.shown, at, new) \in DOMAIN new
             /\ v.lines[new[Lines!Follows(u.shown, at, new)]].n = Lines!LineAt(v, at)
  <2>1. PICK k \in DOMAIN new : v.lines[new[k]].n = v.lines[v.shown[at]].n
    BY <1>5 DEF Lines!LineAt
  <2>2. new[k] \in DOMAIN v.lines /\ v.shown[at] \in DOMAIN v.lines
    <3>1. PICK m \in Nat : m = Len(v.lines) /\ DOMAIN v.lines = 1 .. m
      BY <1>4
    <3>2. new \in Seq(1 .. m) /\ v.shown \in Seq(1 .. m)
      BY <1>1, <1>4, <3>1
    <3> HIDE DEF new
    <3>3. new[k] \in 1 .. m
      BY <3>2
    <3>4. v.shown[at] \in 1 .. m
      BY <3>2
    <3> QED BY <3>1, <3>3, <3>4
  <2>3. new[k] = v.shown[at]
    BY <2>1, <2>2 DEF Numbered
  <2>4. Lines!AtOrAfter(new, new[k]) = k
    <3> HIDE DEF new
    <3> QED BY <1>1, AtIts DEF new
  <2>5. Lines!Follows(u.shown, at, new) = k
    BY <2>3, <2>4 DEF Lines!Follows
  <2> QED BY <2>1, <2>5 DEF Lines!LineAt
<1> HIDE DEF c, a
<1>6. x \in Lines!View
  BY <1>1, <1>2 DEF Lines!View
<1>7. x.lines = v.lines /\ x.shown = new /\ x.cursor = c /\ x.anchor = a /\ x.following = v.following
  BY DEF Lines!View
<1> HIDE DEF x, w, new
<1>8. w.lines = v.lines /\ w.shown = new
  BY <1>3, <1>6, <1>7, PlaceIs
<1>9. Lines!ShownLines(w) = {v.lines[new[k]].n : k \in DOMAIN new}
  BY <1>8 DEF Lines!ShownLines, Lines!LineAt
<1>10. \A b \in DOMAIN new : Lines!LineAt(w, b) = v.lines[new[b]].n
  BY <1>8 DEF Lines!LineAt
<1>11. \A b \in DOMAIN new : b > 0
  BY <1>1 DEF new
<1>12. OnIts(v, v.cursor, w, w.cursor)
  <2> SUFFICES ASSUME v.cursor > 0, Lines!LineAt(v, v.cursor) \in Lines!ShownLines(w)
               PROVE  w.cursor > 0 /\ Lines!LineAt(w, w.cursor) = Lines!LineAt(v, v.cursor)
    BY DEF OnIts
  <2>1. v.cursor \in DOMAIN v.shown
    BY DEF Placed
  <2>2. c \in DOMAIN new /\ v.lines[new[c]].n = Lines!LineAt(v, v.cursor)
    BY <1>5, <1>9, <2>1 DEF c, new
  <2>3. w.cursor = c
    BY <1>3, <1>6, <1>7, <2>2, PlaceStays
  <2> QED BY <1>10, <1>11, <2>2, <2>3
<1>13. OnIts(v, v.anchor, w, w.anchor)
  <2> SUFFICES ASSUME v.anchor > 0, Lines!LineAt(v, v.anchor) \in Lines!ShownLines(w)
               PROVE  w.anchor > 0 /\ Lines!LineAt(w, w.anchor) = Lines!LineAt(v, v.anchor)
    BY DEF OnIts
  <2>1. v.anchor \in DOMAIN v.shown
    BY <1>1, <1>4 DEF Placed
  <2>2. a \in DOMAIN new /\ v.lines[new[a]].n = Lines!LineAt(v, v.anchor)
    BY <1>5, <1>9, <2>1 DEF a, new
  <2>3. w.anchor = a
    BY <1>3, <1>6, <1>7, <2>2, PlaceStays
  <2> QED BY <1>10, <1>11, <2>2, <2>3
<1> QED BY <1>12, <1>13 DEF w

(* A batch's lines come behind, numbered on from the last.                  *)
Before(v, w) ==
  /\ w.cursor = v.cursor /\ w.anchor = v.anchor /\ w.following = v.following
  /\ DOMAIN v.shown \subseteq DOMAIN w.shown /\ DOMAIN v.lines \subseteq DOMAIN w.lines
  /\ \A k \in DOMAIN v.shown : w.shown[k] = v.shown[k]
  /\ \A i \in DOMAIN v.lines : w.lines[i] = v.lines[i]

LEMMA ElementsAre ==
  ASSUME NEW S, NEW s \in Seq(S)
  PROVE  Len(s) \in Nat /\ DOMAIN s = 1 .. Len(s) /\ \A j \in DOMAIN s : s[j] \in S
OBVIOUS

LEMMA AppendIs ==
  ASSUME NEW S, NEW s \in Seq(S), NEW x \in S
  PROVE  DOMAIN s \subseteq DOMAIN Append(s, x) /\ \A j \in DOMAIN s : Append(s, x)[j] = s[j]
OBVIOUS

LEMMA ExtendStays ==
  ASSUME NEW v \in Lines!View, NEW line \in Lines!Line, NEW n \in Nat, Numbered(v, n), line.n = n + 1
  PROVE  Numbered(Lines!Extend(v, line), n + 1) /\ Before(v, Lines!Extend(v, line))
<1> DEFINE s == IF Lines!Keeps(v, line) THEN Append(v.shown, Len(v.lines) + 1) ELSE v.shown
           w == Lines!Extend(v, line)
<1>1. v.lines \in Seq(Lines!Line) /\ v.shown \in Seq(Nat) /\ Len(v.lines) \in Nat
  BY FieldsOf
<1>2. w = [v EXCEPT !.lines = Append(v.lines, line), !.shown = s]
  BY DEF Lines!Extend
<1>3. DOMAIN v.shown \subseteq DOMAIN s /\ \A k \in DOMAIN v.shown : s[k] = v.shown[k]
  <2>1. PICK m \in Nat : m = Len(v.lines) + 1
    BY <1>1
  <2>2. /\ DOMAIN v.shown \subseteq DOMAIN Append(v.shown, m)
        /\ \A k \in DOMAIN v.shown : Append(v.shown, m)[k] = v.shown[k]
    BY <1>1, AppendIs
  <2> QED BY <2>1, <2>2
<1> HIDE DEF s, w
<1>4. /\ w.lines = Append(v.lines, line) /\ w.shown = s /\ w.cursor = v.cursor /\ w.anchor = v.anchor
      /\ w.following = v.following
  BY <1>2 DEF Lines!View
<1>5. PICK l \in Nat : l = Len(v.lines) /\ DOMAIN v.lines = 1 .. l
  BY <1>1
<1>6. /\ DOMAIN w.lines = 1 .. (l + 1) /\ w.lines[l + 1] = line
      /\ \A i \in 1 .. l : w.lines[i] = v.lines[i]
  BY <1>1, <1>4, <1>5
<1>7. Before(v, w)
  <2>1. DOMAIN v.lines \subseteq DOMAIN w.lines
    BY <1>5, <1>6
  <2> QED BY <1>3, <1>4, <1>5, <1>6, <2>1 DEF Before
<1>8. /\ \A i \in 1 .. l : w.lines[i].n <= n /\ w.lines[i].n \in Nat
      /\ \A i, j \in 1 .. l : w.lines[i].n = w.lines[j].n => i = j
  <2>1. \A i \in 1 .. l : v.lines[i].n \in Nat
    <3>1. \A i \in 1 .. l : v.lines[i] \in Lines!Line
      BY <1>1, <1>5, ElementsAre
    <3>2. \A x \in Lines!Line : x.n \in Nat
      BY DEF Lines!Line
    <3> QED BY <3>1, <3>2
  <2> QED BY <1>5, <1>6, <2>1 DEF Numbered
<1>9. Numbered(w, n + 1)
  <2>1. \A i \in 1 .. (l + 1) : i \in 1 .. l \/ i = l + 1
    OBVIOUS
  <2>2. w.lines[l + 1].n = n + 1
    BY <1>6
  <2>3. \A i \in 1 .. (l + 1) : w.lines[i].n <= n + 1
    BY <1>8, <2>1, <2>2
  <2>4. \A i, j \in 1 .. (l + 1) : w.lines[i].n = w.lines[j].n => i = j
    BY <1>8, <2>1, <2>2
  <2> QED BY <1>6, <2>3, <2>4 DEF Numbered
<1> QED BY <1>7, <1>9 DEF w

LEMMA BatchStays ==
  ASSUME NEW v \in Lines!View, v.shown = Lines!Kept(v), NEW batch \in Seq(Lines!Line), NEW n \in Nat, Numbered(v, n),
         \A i \in DOMAIN batch : batch[i].n = n + i
  PROVE  LET w == Lines!FoldLeft(Lines!Extend, v, batch)
         IN  w \in Lines!View /\ w.shown = Lines!Kept(w) /\ Numbered(w, n + Len(batch)) /\ Before(v, w)
<1> DEFINE Good(w, k) == w \in Lines!View /\ w.shown = Lines!Kept(w) /\ Numbered(w, n + k) /\ Before(v, w)
           T == {k \in Nat : k <= Len(batch) => Good(Added(v, batch)[1 .. k], k)}
<1>1. 0 \in T
  <2>1. 1 .. 0 = {} /\ {} \in SUBSET DOMAIN batch
    OBVIOUS
  <2>2. Added(v, batch)[{}] = AddedTo(v, batch, Added(v, batch), {})
    BY <2>1, AddedIs
  <2>3. Added(v, batch)[1 .. 0] = v
    BY <2>1, <2>2 DEF AddedTo
  <2>4. Before(v, v) /\ n + 0 = n
    BY DEF Before
  <2> QED BY <2>3, <2>4
<1>2. ASSUME NEW k \in T PROVE k + 1 \in T
  <2>1. SUFFICES ASSUME k + 1 <= Len(batch) PROVE Good(Added(v, batch)[1 .. (k + 1)], k + 1)
    OBVIOUS
  <2>2. PICK u, line : u = Added(v, batch)[1 .. k] /\ line = batch[k + 1]
    OBVIOUS
  <2>3. k \in Nat /\ Good(u, k)
    BY <2>1, <2>2
  <2>4. line \in Lines!Line /\ line.n = (n + k) + 1 /\ n + k \in Nat
    <3>1. Len(batch) \in Nat /\ DOMAIN batch = 1 .. Len(batch) /\ \A j \in DOMAIN batch : batch[j] \in Lines!Line
      BY ElementsAre
    <3>2. k \in Nat /\ k + 1 \in DOMAIN batch
      BY <2>1, <2>3, <3>1
    <3>3. line \in Lines!Line /\ line.n = n + (k + 1)
      BY <2>2, <3>1, <3>2
    <3> QED BY <3>2, <3>3
  <2>5. Added(v, batch)[1 .. (k + 1)] = Lines!Extend(u, line)
    BY <2>1, <2>2, <2>3, AddedUpTo
  <2>6. Lines!Extend(u, line) \in Lines!View /\ Lines!Extend(u, line).shown = Lines!Kept(Lines!Extend(u, line))
    BY <2>3, <2>4, ExtendKeeps
  <2>7. Numbered(Lines!Extend(u, line), (n + k) + 1) /\ Before(u, Lines!Extend(u, line))
    BY <2>3, <2>4, ExtendStays
  <2>8. Before(v, Lines!Extend(u, line))
    BY <2>3, <2>7 DEF Before
  <2>9. (n + k) + 1 = n + (k + 1)
    BY <2>3
  <2> QED BY <2>3, <2>5, <2>6, <2>7, <2>8, <2>9
<1>3. T = Nat
  <2>1. T \subseteq Nat
    OBVIOUS
  <2> HIDE DEF T
  <2> QED BY <1>1, <1>2, <2>1, SetInduction
<1>4. PICK l \in Nat : l = Len(batch) /\ DOMAIN batch = 1 .. l
  OBVIOUS
<1>5. Lines!FoldLeft(Lines!Extend, v, batch) = Added(v, batch)[1 .. l]
  BY <1>4, BatchIs
<1>6. Good(Added(v, batch)[1 .. l], l)
  <2>1. l \in T
    BY <1>3
  <2> QED BY <1>4, <2>1
<1> QED BY <1>4, <1>5, <1>6

(* trim drops the oldest lines; a cursor on one that is left stays on it.   *)
LEMMA TrimStays ==
  ASSUME NEW v \in Lines!View, NEW w \in Lines!View, NEW n, Numbered(v, n),
         v.shown = Lines!Kept(v), w.shown = Lines!Kept(w),
         NEW d \in Nat, NEW c \in Nat, NEW l \in Nat, Dropped(v, w, d, c, l),
         NEW at \in DOMAIN v.shown, Lines!LineAt(v, at) \in Lines!ShownLines(w)
  PROVE  MovedBack(at, c) \in DOMAIN w.shown /\ Lines!LineAt(w, MovedBack(at, c)) = Lines!LineAt(v, at)
<1>1. /\ DOMAIN v.shown = 1 .. (c + l) /\ DOMAIN w.shown = 1 .. l
      /\ \A i \in DOMAIN w.lines : d + i \in DOMAIN v.lines /\ w.lines[i] = v.lines[d + i]
      /\ \A j \in 1 .. c : v.shown[j] <= d
      /\ \A j \in 1 .. l : v.shown[c + j] = w.shown[j] + d
  BY DEF Dropped
<1>2. PICK k \in 1 .. l : w.lines[w.shown[k]].n = v.lines[v.shown[at]].n
  BY <1>1 DEF Lines!ShownLines, Lines!LineAt
<1>3. /\ \A j \in DOMAIN v.shown : v.shown[j] \in DOMAIN v.lines /\ v.shown[j] \in Nat
      /\ \A j \in DOMAIN w.shown : w.shown[j] \in DOMAIN w.lines /\ w.shown[j] \in Nat /\ w.shown[j] > 0
  <2>1. PICK a \in Nat, b \in Nat : /\ a = Len(v.lines) /\ DOMAIN v.lines = 1 .. a
                                    /\ b = Len(w.lines) /\ DOMAIN w.lines = 1 .. b
    <3>1. v.lines \in Seq(Lines!Line) /\ w.lines \in Seq(Lines!Line)
      BY FieldsOf
    <3> QED BY <3>1, ElementsAre
  <2>2. v.shown \in Seq(1 .. a) /\ w.shown \in Seq(1 .. b)
    BY <2>1, KeptTyped
  <2>3. \A j \in DOMAIN v.shown : v.shown[j] \in 1 .. a
    BY <2>2, ElementsAre
  <2>4. \A j \in DOMAIN w.shown : w.shown[j] \in 1 .. b
    BY <2>2, ElementsAre
  <2> QED BY <2>1, <2>3, <2>4
<1>4. v.shown[at] = d + w.shown[k]
  <2>1. w.shown[k] \in DOMAIN w.lines /\ v.shown[at] \in DOMAIN v.lines
    BY <1>1, <1>3
  <2>2. d + w.shown[k] \in DOMAIN v.lines /\ w.lines[w.shown[k]] = v.lines[d + w.shown[k]]
    BY <1>1, <2>1
  <2> QED BY <1>2, <2>1, <2>2 DEF Numbered
<1>5. at \in Nat /\ at > c /\ at - c \in 1 .. l /\ c + (at - c) = at
  <2>1. at \in 1 .. (c + l)
    BY <1>1
  <2>2. v.shown[at] > d
    <3>1. w.shown[k] \in Nat /\ w.shown[k] > 0
      BY <1>1, <1>3
    <3> QED BY <1>4, <3>1
  <2>3. at \notin 1 .. c
    BY <1>1, <1>3, <2>2
  <2> QED BY <2>1, <2>3
<1>6. MovedBack(at, c) = at - c
  BY <1>5 DEF MovedBack
<1>7. w.shown[at - c] + d = v.shown[at] /\ w.shown[at - c] \in DOMAIN w.lines /\ w.shown[at - c] \in Nat
  BY <1>1, <1>3, <1>5
<1>8. w.lines[w.shown[at - c]] = v.lines[v.shown[at]]
  <2>1. w.lines[w.shown[at - c]] = v.lines[d + w.shown[at - c]]
    BY <1>1, <1>7
  <2>2. d + w.shown[at - c] = v.shown[at]
    BY <1>7
  <2> QED BY <2>1, <2>2
<1> QED BY <1>1, <1>5, <1>6, <1>8 DEF Lines!LineAt

LEMMA AppendBatchStays ==
  ASSUME NEW v \in Lines!View, v.shown = Lines!Kept(v), Placed(v), NEW batch \in Seq(Lines!Line), NEW n \in Nat, Numbered(v, n),
         \A i \in DOMAIN batch : batch[i].n = n + i
  PROVE  LET w == Lines!AppendBatch(v, batch)
         IN  /\ Numbered(w, n + Len(batch))
             /\ ~v.following => OnIts(v, v.cursor, w, w.cursor) /\ OnIts(v, v.anchor, w, w.anchor)
<1>1. CASE batch = <<>>
  <2>1. Lines!AppendBatch(v, batch) = v /\ n + Len(batch) = n
    BY <1>1 DEF Lines!AppendBatch
  <2> QED BY <2>1 DEF OnIts
<1>2. CASE batch # <<>>
  <2>1. PICK f, u, w : f = Lines!FoldLeft(Lines!Extend, v, batch) /\ u = Lines!Trim(f) /\ w = Lines!Place(u)
    OBVIOUS
  <2>2. Lines!AppendBatch(v, batch) = w
    BY <1>2, <2>1 DEF Lines!AppendBatch
  <2>3. f \in Lines!View /\ f.shown = Lines!Kept(f) /\ Numbered(f, n + Len(batch)) /\ Before(v, f)
    BY <2>1, BatchStays
  <2>4. u \in Lines!View /\ u.shown = Lines!Kept(u) /\ \E d, c, l \in Nat : Dropped(f, u, d, c, l)
    BY <2>1, <2>3, TrimKeeps
  <2>5. PICK d \in Nat, c \in Nat, l \in Nat : Dropped(f, u, d, c, l)
    BY <2>4
  <2>6. w.lines = u.lines /\ w.shown = u.shown
    BY <2>1, <2>4, PlaceIs
  <2>7. Numbered(w, n + Len(batch))
    <3>1. \A i \in DOMAIN u.lines : d + i \in DOMAIN f.lines /\ u.lines[i] = f.lines[d + i]
      BY <2>5 DEF Dropped
    <3>2. \A i \in DOMAIN u.lines : i \in Nat
      BY <2>4, FieldsOf, ElementsAre
    <3>3. \A i, j \in DOMAIN u.lines : u.lines[i].n = u.lines[j].n => i = j
      <4> SUFFICES ASSUME NEW i \in DOMAIN u.lines, NEW j \in DOMAIN u.lines, u.lines[i].n = u.lines[j].n
                   PROVE  i = j
        OBVIOUS
      <4>1. d + i = d + j
        BY <2>3, <3>1 DEF Numbered
      <4> QED BY <3>2, <4>1
    <3> QED BY <2>3, <2>6, <3>1, <3>3 DEF Numbered
  <2>8. ASSUME NEW at \in DOMAIN v.shown, Lines!LineAt(v, at) \in Lines!ShownLines(w)
        PROVE  MovedBack(at, c) \in DOMAIN u.shown /\ Lines!LineAt(w, MovedBack(at, c)) = Lines!LineAt(v, at) /\ MovedBack(at, c) > 0
    <3>1. at \in DOMAIN f.shown /\ Lines!LineAt(f, at) = Lines!LineAt(v, at)
      <4>1. v.shown \in Seq(1 .. Len(v.lines)) /\ v.lines \in Seq(Lines!Line)
        BY FieldsOf, KeptTyped
      <4>2. v.shown[at] \in DOMAIN v.lines
        BY <4>1, ElementsAre
      <4> QED BY <2>3, <4>2 DEF Before, Lines!LineAt
    <3>2. Lines!ShownLines(w) = Lines!ShownLines(u) /\ \A k : Lines!LineAt(w, k) = Lines!LineAt(u, k)
      BY <2>6 DEF Lines!ShownLines, Lines!LineAt
    <3>3. MovedBack(at, c) \in DOMAIN u.shown /\ Lines!LineAt(u, MovedBack(at, c)) = Lines!LineAt(f, at)
      BY <2>3, <2>4, <2>5, <2>8, <3>1, <3>2, TrimStays
    <3>4. \A k \in DOMAIN u.shown : k > 0
      BY <2>4, FieldsOf, ElementsAre
    <3> QED BY <3>1, <3>2, <3>3, <3>4
  <2>9. /\ u.following = v.following /\ u.cursor = MovedBack(v.cursor, c)
        /\ v.anchor > 0 => u.anchor = MovedBack(v.anchor, c)
    BY <2>3, <2>5 DEF Before, Dropped
  <2>10. ASSUME ~v.following PROVE OnIts(v, v.cursor, w, w.cursor)
    <3> SUFFICES ASSUME v.cursor > 0, Lines!LineAt(v, v.cursor) \in Lines!ShownLines(w)
                 PROVE  w.cursor > 0 /\ Lines!LineAt(w, w.cursor) = Lines!LineAt(v, v.cursor)
      BY DEF OnIts
    <3>1. v.cursor \in DOMAIN v.shown
      BY DEF Placed
    <3>2. u.cursor \in DOMAIN u.shown /\ Lines!LineAt(w, u.cursor) = Lines!LineAt(v, v.cursor) /\ u.cursor > 0
      BY <2>8, <2>9, <3>1
    <3>3. w.cursor = u.cursor
      BY <2>1, <2>4, <2>9, <2>10, <3>2, PlaceStays
    <3> QED BY <3>2, <3>3
  <2>11. OnIts(v, v.anchor, w, w.anchor)
    <3> SUFFICES ASSUME v.anchor > 0, Lines!LineAt(v, v.anchor) \in Lines!ShownLines(w)
                 PROVE  w.anchor > 0 /\ Lines!LineAt(w, w.anchor) = Lines!LineAt(v, v.anchor)
      BY DEF OnIts
    <3>1. v.anchor \in DOMAIN v.shown
      <4>1. v.shown \in Seq(Nat) /\ v.anchor \in Nat
        BY FieldsOf
      <4>2. Len(v.shown) \in Nat /\ DOMAIN v.shown = 1 .. Len(v.shown) /\ v.anchor <= Len(v.shown)
        BY <4>1, ElementsAre DEF Placed
      <4> QED BY <4>1, <4>2
    <3>2. u.anchor \in DOMAIN u.shown /\ Lines!LineAt(w, u.anchor) = Lines!LineAt(v, v.anchor) /\ u.anchor > 0
      BY <2>8, <2>9, <3>1
    <3>3. w.anchor = u.anchor
      BY <2>1, <2>4, <3>2, PlaceStays
    <3> QED BY <3>2, <3>3
  <2> QED BY <2>2, <2>7, <2>10, <2>11
<1> QED BY <1>1, <1>2

(* Every line in the view has its number, and no line is to come with it.   *)
Tallied == Numbered(view, written)
Lined(v, w) == "lines" \in DOMAIN v => "lines" \in DOMAIN w /\ w.lines = v.lines

LEMMA PlaceLined == ASSUME NEW v PROVE Lined(v, Lines!Place(v))
<1> DEFINE n == Len(v.shown)
           cursor == CASE n = 0 -> 0
                       [] n > 0 /\ v.following -> n
                       [] OTHER -> Lines!Max({1, Lines!Min({v.cursor, n})})
           at == Lines!Min({v.anchor, n})
<1>1. Lines!Place(v) = [v EXCEPT !.cursor = cursor, !.anchor = at]
  BY DEF Lines!Place
<1> HIDE DEF cursor, at
<1> QED BY <1>1 DEF Lined

LEMMA RenderLined == ASSUME NEW v PROVE Lined(v, Lines!Render(v))
<1> DEFINE new == Lines!Kept(v)
           c == Lines!Follows(v.shown, v.cursor, new)
           a == Lines!Follows(v.shown, v.anchor, new)
<1>1. Lines!Render(v) = Lines!Place([v EXCEPT !.shown = new, !.cursor = c, !.anchor = a])
  BY DEF Lines!Render
<1> HIDE DEF new, c, a
<1>2. Lined(v, [v EXCEPT !.shown = new, !.cursor = c, !.anchor = a])
  BY DEF Lined
<1> QED BY <1>1, <1>2, PlaceLined DEF Lined

LEMMA MoveToLined == ASSUME NEW v, NEW at PROVE Lined(v, Lines!MoveTo(v, at))
<1>1. Lined(v, [v EXCEPT !.cursor = at])
  BY DEF Lined
<1>2. Lined([v EXCEPT !.cursor = at], Lines!Place([v EXCEPT !.cursor = at]))
  BY PlaceLined
<1>3. Lined(v, Lines!Place([v EXCEPT !.cursor = at]))
  BY <1>1, <1>2 DEF Lined
<1> QED BY <1>3 DEF Lines!MoveTo, Lined

LEMMA EndSelectLined == ASSUME NEW v, NEW resume PROVE Lined(v, Lines!EndSelect(v, resume))
<1> DEFINE f == v.following \/ (resume /\ v.resume)
<1>1. Lines!EndSelect(v, resume) = IF v.anchor = 0 THEN v
                                   ELSE [v EXCEPT !.anchor = 0, !.resume = FALSE, !.following = f]
  BY DEF Lines!EndSelect
<1> HIDE DEF f
<1> QED BY <1>1 DEF Lined

LEMMA CompileLined == ASSUME NEW v PROVE Lined(v, Lines!Compile(v))
<1> DEFINE r == CASE ~v.regex \/ v.query = Lines!Empty -> Lines!None
                  [] v.regex /\ v.query = "(" -> v.re
                  [] OTHER -> v.query
<1>1. Lines!Compile(v) = [v EXCEPT !.re = r]
  BY DEF Lines!Compile
<1> HIDE DEF r
<1> QED BY <1>1 DEF Lined

LEMMA CloseLined == ASSUME NEW v PROVE Lined(v, Lines!CloseFilter(v)) /\ Lined(v, Lines!Close(v))
<1> DEFINE w == [v EXCEPT !.filtering = FALSE, !.query = Lines!Empty]
<1>1. Lined(v, w)
  BY DEF Lined
<1>2. Lines!CloseFilter(v) = IF v.filtering THEN Lines!Compile(w) ELSE v
  BY DEF Lines!CloseFilter
<1> HIDE DEF w
<1>3. Lined(v, Lines!CloseFilter(v))
  BY <1>1, <1>2, CompileLined DEF Lined
<1>4. PICK c : c = Lines!CloseFilter(v)
  OBVIOUS
<1>5. Lined(c, [c EXCEPT !.active = FALSE])
  BY DEF Lined
<1> QED BY <1>3, <1>4, <1>5 DEF Lines!Close, Lined

LEMMA RestreamLined == ASSUME NEW v, "lines" \in DOMAIN v PROVE Lines!Restream(v).lines = <<>>
<1> DEFINE w == [v EXCEPT !.lines = <<>>, !.shown = <<>>, !.cursor = 0, !.anchor = 0,
                          !.trimmed = FALSE, !.resume = FALSE, !.following = TRUE]
<1>1. "lines" \in DOMAIN w /\ w.lines = <<>>
  OBVIOUS
<1>2. Lines!Restream(v) = Lines!Render(w)
  BY DEF Lines!Restream
<1> HIDE DEF w
<1> QED BY <1>1, <1>2, RenderLined DEF Lined

LEMMA NumbersStay ==
  ASSUME NEW v, NEW w, NEW n, Numbered(v, n), w.lines = v.lines \/ w.lines = <<>>
  PROVE  Numbered(w, n)
BY DEF Numbered

(* A key leaves the lines as they are, or starts a stream with none.        *)
LEMMA KeysAddNone ==
  ASSUME Lines!Inv, \/ Lines!Down \/ Lines!Bottom \/ Lines!ToggleFollow \/ Lines!Select \/ Lines!Yank \/ Lines!OpenFilter \/ Lines!ToggleRegex \/ Lines!Back
                    \/ Lines!OpenLogs \/ Lines!TogglePrevious \/ (\E to \in 1 .. MaxLines : Lines!Up(to)) \/ (\E q \in Lines!Query : Lines!TypeFilter(q))
  PROVE  written' = written /\ (view'.lines = view.lines \/ view'.lines = <<>>)
<1>1. written' = written
  BY DEF Lines!Down, Lines!Bottom, Lines!ToggleFollow, Lines!Select, Lines!Yank, Lines!OpenFilter, Lines!ToggleRegex, Lines!Back, Lines!OpenLogs, Lines!TogglePrevious, Lines!Up,
         Lines!TypeFilter, Lines!Same, Lines!CloseLogs
<1>2. "lines" \in DOMAIN view
  <2>1. view \in Lines!View
    BY InvIs
  <2> QED BY <2>1 DEF Lines!View
<1>3. ASSUME NEW f PROVE Lined(view, [view EXCEPT !.following = f]) /\ Lined(view, [view EXCEPT !.filtering = f])
                         /\ Lined(view, [view EXCEPT !.query = f]) /\ Lined(view, [view EXCEPT !.regex = f])
  BY DEF Lined
<1>4. ASSUME \E to \in 1 .. MaxLines : Lines!Up(to) PROVE view'.lines = view.lines
  BY <1>2, <1>3, <1>4, MoveToLined DEF Lines!Up, Lined
<1>5. ASSUME Lines!Down PROVE view'.lines = view.lines
  <2>1. \/ view' = Lines!Place([view EXCEPT !.following = TRUE])
        \/ view' = Lines!MoveTo(view, view.cursor + 1)
    BY <1>5 DEF Lines!Down
  <2> QED BY <1>2, <1>3, <2>1, MoveToLined, PlaceLined DEF Lined
<1>6. ASSUME Lines!Bottom PROVE view'.lines = view.lines
  <2>1. \/ view' = Lines!Place([view EXCEPT !.following = TRUE])
        \/ view' = Lines!MoveTo(view, Len(view.shown))
    BY <1>6 DEF Lines!Bottom
  <2> QED BY <1>2, <1>3, <2>1, MoveToLined, PlaceLined DEF Lined
<1>7. ASSUME Lines!ToggleFollow PROVE view'.lines = view.lines
  <2>1. PICK e, f : e = Lines!EndSelect(view, FALSE) /\ f = ~view.following
    OBVIOUS
  <2>2. view' = Lines!Place([e EXCEPT !.following = f])
    BY <1>7, <2>1 DEF Lines!ToggleFollow
  <2>3. Lined(e, [e EXCEPT !.following = f]) /\ Lined(view, e)
    BY <2>1, EndSelectLined DEF Lined
  <2> QED BY <1>2, <2>2, <2>3, PlaceLined DEF Lined
<1>8. ASSUME Lines!Select PROVE view'.lines = view.lines
  <2> DEFINE marked == [view EXCEPT !.anchor = Lines!Max({view.cursor, 1}), !.resume = view.following,
                                    !.following = FALSE]
  <2>1. view.anchor \in Nat
    BY InvIs, FieldsOf
  <2>3. Lined(view, marked)
    <3>1. PICK k : k = Lines!Max({view.cursor, 1})
      OBVIOUS
    <3>2. marked = [view EXCEPT !.anchor = k, !.resume = view.following, !.following = FALSE]
      BY <3>1
    <3> HIDE DEF marked
    <3> QED BY <3>2 DEF Lined
  <2> HIDE DEF marked
  <2>2. view' = Lines!Place(Lines!EndSelect(view, TRUE)) \/ view' = Lines!Place(view) \/ view' = Lines!Place(marked)
    <3>1. CASE view.anchor > 0
      <4>1. view.anchor # 0
        BY <2>1, <3>1
      <4> QED BY <1>8, <3>1, <4>1 DEF Lines!Select
    <3>2. CASE ~(view.anchor > 0) /\ view.anchor = 0 /\ view.shown = <<>>
      BY <1>8, <3>2 DEF Lines!Select
    <3>3. CASE ~(view.anchor > 0) /\ ~(view.anchor = 0 /\ view.shown = <<>>)
      BY <1>8, <3>3 DEF Lines!Select, marked
    <3> QED BY <3>1, <3>2, <3>3
  <2>4. CASE view' = Lines!Place(Lines!EndSelect(view, TRUE))
    BY <1>2, <2>4, EndSelectLined, PlaceLined DEF Lined
  <2>5. CASE view' = Lines!Place(view)
    BY <1>2, <2>5, PlaceLined DEF Lined
  <2>6. CASE view' = Lines!Place(marked)
    BY <1>2, <2>3, <2>6, PlaceLined DEF Lined
  <2> QED BY <2>2, <2>4, <2>5, <2>6
<1>9. ASSUME Lines!Yank PROVE view'.lines = view.lines
  BY <1>2, <1>9, EndSelectLined, PlaceLined DEF Lines!Yank, Lined
<1>10. ASSUME Lines!OpenFilter PROVE view'.lines = view.lines
  BY <1>2, <1>3, <1>10, RenderLined DEF Lines!OpenFilter, Lined
<1>11. ASSUME Lines!ToggleRegex PROVE view'.lines = view.lines
  <2>1. PICK f : f = ~view.regex
    OBVIOUS
  <2>2. view' = Lines!Render(Lines!Compile([view EXCEPT !.regex = f]))
    BY <1>11, <2>1 DEF Lines!ToggleRegex
  <2> QED BY <1>2, <1>3, <2>2, CompileLined, RenderLined DEF Lined
<1>12. ASSUME \E q \in Lines!Query : Lines!TypeFilter(q) PROVE view'.lines = view.lines
  <2>1. PICK q : view' = Lines!Render(Lines!Compile([view EXCEPT !.query = q]))
    BY <1>12 DEF Lines!TypeFilter
  <2> QED BY <1>2, <1>3, <2>1, CompileLined, RenderLined DEF Lined
<1>13. ASSUME Lines!Back PROVE view'.lines = view.lines
  <2>1. view' = Lines!Render(Lines!CloseFilter(view)) \/ view' = Lines!Place(Lines!EndSelect(view, TRUE)) \/ view' = Lines!Close(view)
    BY <1>13 DEF Lines!Back, Lines!CloseLogs
  <2>2. CASE view' = Lines!Render(Lines!CloseFilter(view))
    BY <1>2, <2>2, CloseLined, RenderLined DEF Lined
  <2>3. CASE view' = Lines!Place(Lines!EndSelect(view, TRUE))
    BY <1>2, <2>3, EndSelectLined, PlaceLined DEF Lined
  <2>4. CASE view' = Lines!Close(view)
    BY <1>2, <2>4, CloseLined DEF Lined
  <2> QED BY <2>1, <2>2, <2>3, <2>4
<1>14. ASSUME Lines!OpenLogs PROVE view'.lines = <<>>
  <2>1. PICK a, b, c : a = Lines!CloseFilter(view) /\ b = [a EXCEPT !.regex = FALSE] /\ c = Lines!Compile(b)
    OBVIOUS
  <2>2. "lines" \in DOMAIN c
    <3>1. Lined(a, b)
      BY <2>1 DEF Lined
    <3> QED BY <1>2, <2>1, <3>1, CloseLined, CompileLined DEF Lined
  <2>3. view' = [Lines!Restream(c) EXCEPT !.active = TRUE]
    BY <1>14, <2>1 DEF Lines!OpenLogs
  <2>4. PICK r : r = Lines!Restream(c) /\ r.lines = <<>>
    BY <2>2, RestreamLined
  <2>5. r \in Lines!View
    <3>1. Held(view)
      BY InvIs
    <3>2. b \in Lines!View /\ Len(b.lines) < MaxLines + Chunk
      <4>1. a \in Lines!View /\ a.lines = view.lines
        BY <2>1, <3>1, CloseFilterIs DEF Held
      <4>2. b \in Lines!View /\ b.lines = a.lines
        BY <2>1, <4>1 DEF Lines!View
      <4> QED BY <3>1, <4>1, <4>2 DEF Held
    <3>3. Held(c)
      BY <2>1, <3>2, CompileIs DEF Held
    <3> QED BY <2>4, <3>3, RestreamKeeps DEF Held
  <2> QED BY <2>3, <2>4, <2>5 DEF Lines!View
<1>15. ASSUME Lines!TogglePrevious PROVE view'.lines = <<>>
  BY <1>2, <1>15, RestreamLined DEF Lines!TogglePrevious
<1> QED BY <1>1, <1>4, <1>5, <1>6, <1>7, <1>8, <1>9, <1>10, <1>11, <1>12, <1>13, <1>14, <1>15

(* The lines of a message: of the stream asked for last, and the next ones. *)
LEMMA StampedIs ==
  ASSUME Lines!Inv, NEW m \in pumps, Lines!Current(m), NEW fs \in Seq(BOOLEAN)
  PROVE  /\ Lines!Stamped(m, fs) \in Seq(Lines!Line) /\ Len(Lines!Stamped(m, fs)) = Len(fs) /\ Len(fs) \in Nat
         /\ \A i \in DOMAIN Lines!Stamped(m, fs) : Lines!Stamped(m, fs)[i].n = written + i /\ Lines!Stamped(m, fs)[i].gen = gen
<1>1. written \in Nat /\ pumps \subseteq Lines!Pump
  BY InvIs
<1>2. PICK k \in Nat : k = Len(fs) /\ DOMAIN fs = 1 .. k /\ \A i \in 1 .. k : fs[i] \in BOOLEAN
  BY ElementsAre
<1>3. PICK batch : batch = Lines!Stamped(m, fs)
  OBVIOUS
<1>4. batch = [i \in 1 .. k |-> [n |-> written + i, f |-> fs[i], gen |-> m.gen]]
  BY <1>2, <1>3 DEF Lines!Stamped
<1>5. m.gen \in Nat /\ m.gen = gen
  BY <1>1 DEF Lines!Pump, Lines!Current
<1>6. \A i \in 1 .. k : [n |-> written + i, f |-> fs[i], gen |-> m.gen] \in Lines!Line
  <2> SUFFICES ASSUME NEW i \in 1 .. k PROVE [n |-> written + i, f |-> fs[i], gen |-> m.gen] \in Lines!Line
    OBVIOUS
  <2>1. written + i \in Nat \ {0} /\ fs[i] \in BOOLEAN
    BY <1>1, <1>2
  <2> QED BY <1>5, <2>1 DEF Lines!Line
<1>7. batch \in Seq(Lines!Line) /\ Len(batch) = k /\ DOMAIN batch = 1 .. k
  BY <1>4, <1>6
<1>8. \A i \in 1 .. k : batch[i].n = written + i /\ batch[i].gen = gen
  BY <1>4, <1>5
<1> QED BY <1>2, <1>3, <1>7, <1>8

(* A message: the view with its lines added, or closed, or left alone.      *)
LEMMA HandledIs ==
  ASSUME Lines!Inv, Tallied, NEW m \in pumps, Lines!Handle(m)
  PROVE  /\ Tallied'
         /\ \/ view' = view
            \/ ~view'.active
            \/ ~view.following => OnIts(view, view.cursor, view', view'.cursor)
                                  /\ OnIts(view, view.anchor, view', view'.anchor)
<1>1. PICK fs \in Lines!SeqOf(BOOLEAN, Batch), end \in {"open", "closed", "error"} : Lines!LogMsg(m, fs, end)
  BY DEF Lines!Handle
<1>2. fs \in Seq(BOOLEAN)
  BY SeqOfIsSeq
<1>3. CASE ~Lines!Current(m)
  <2>1. view' = view /\ written' = written
    BY <1>1, <1>3 DEF Lines!LogMsg
  <2> QED BY <2>1 DEF Tallied, Numbered
<1>4. CASE Lines!Current(m)
  <2>1. /\ Held(view) /\ view.active /\ view \in Lines!View /\ Rebuilt(view, gen) /\ written \in Nat
    BY <1>4, InvIs DEF Lines!Current
  <2>2. PICK batch : batch = Lines!Stamped(m, fs)
    OBVIOUS
  <2>3. /\ batch \in Seq(Lines!Line) /\ Len(batch) = Len(fs)
        /\ (\A i \in DOMAIN batch : batch[i].n = written + i) /\ \A i \in DOMAIN batch : batch[i].gen = gen
    BY <1>2, <1>4, <2>2, StampedIs
  <2>4. PICK v : v = Lines!AppendBatch(view, batch)
    OBVIOUS
  <2>5. Held(v) /\ v.active
    BY <2>1, <2>3, <2>4, AppendBatchKeeps
  <2>6. /\ Numbered(v, written + Len(fs))
        /\ ~view.following => OnIts(view, view.cursor, v, v.cursor) /\ OnIts(view, view.anchor, v, v.anchor)
    <3>1. view.shown = Lines!Kept(view) /\ Placed(view) /\ Numbered(view, written)
      BY <2>1 DEF Rebuilt, Tallied
    <3> QED BY <2>1, <2>3, <2>4, <3>1, AppendBatchStays
  <2>7. written' = written + Len(fs) /\ Lines!Ended(m, v, end)
    BY <1>1, <1>4, <2>2, <2>4 DEF Lines!LogMsg
  <2>8. view' = v \/ view' = Lines!Close(v)
    BY <2>7 DEF Lines!Ended
  <2>9. CASE view' = v
    BY <2>6, <2>7, <2>9 DEF Tallied, Numbered
  <2>10. CASE view' = Lines!Close(v)
    <3>1. ~view'.active
      BY <2>5, <2>10, CloseIs
    <3>2. view'.lines = v.lines
      <4>1. "lines" \in DOMAIN v
        BY <2>5 DEF Held, Lines!View
      <4> QED BY <2>10, <4>1, CloseLined DEF Lined
    <3>3. Tallied'
      BY <2>6, <2>7, <3>2 DEF Tallied, Numbered
    <3> QED BY <3>1, <3>3
  <2> QED BY <2>8, <2>9, <2>10
<1> QED BY <1>3, <1>4

LEMMA TalliedInit == Lines!Init => Tallied
BY DEF Lines!Init, Lines!Fresh, Tallied, Numbered

LEMMA TalliedStep == Lines!Inv /\ Tallied /\ [Lines!Next]_linesVars => Tallied'
<1> SUFFICES ASSUME Lines!Inv, Tallied, [Lines!Next]_linesVars PROVE Tallied'
  OBVIOUS
<1>1. ASSUME written' = written, view'.lines = view.lines \/ view'.lines = <<>> PROVE Tallied'
  <2>1. Numbered(view', written)
    BY <1>1, NumbersStay DEF Tallied
  <2> QED BY <1>1, <2>1 DEF Tallied, Numbered
<1>2. CASE UNCHANGED linesVars
  BY <1>1, <1>2 DEF linesVars
<1>3. ASSUME NEW m \in pumps, Lines!Handle(m) PROVE Tallied'
  BY <1>3, HandledIs
<1>4. CASE Lines!Next /\ ~\E m \in pumps : Lines!Handle(m)
  <2>1. \/ Lines!Down \/ Lines!Bottom \/ Lines!ToggleFollow \/ Lines!Select \/ Lines!Yank \/ Lines!OpenFilter \/ Lines!ToggleRegex \/ Lines!Back
        \/ Lines!OpenLogs \/ Lines!TogglePrevious \/ (\E to \in 1 .. MaxLines : Lines!Up(to)) \/ (\E q \in Lines!Query : Lines!TypeFilter(q))
    BY <1>4 DEF Lines!Next
  <2>2. written' = written /\ (view'.lines = view.lines \/ view'.lines = <<>>)
    BY <2>1, KeysAddNone
  <2> QED BY <1>1, <2>2
<1> QED BY <1>2, <1>3, <1>4

(* What compiling the filter leaves alone.                                  *)
LEMMA CompileStays ==
  ASSUME NEW v \in Lines!View
  PROVE  /\ Lines!Compile(v).lines = v.lines /\ Lines!Compile(v).shown = v.shown /\ Lines!Compile(v).cursor = v.cursor
         /\ Lines!Compile(v).anchor = v.anchor /\ Lines!Compile(v).following = v.following
<1> DEFINE r == CASE ~v.regex \/ v.query = Lines!Empty -> Lines!None
                  [] v.regex /\ v.query = "(" -> v.re
                  [] OTHER -> v.query
<1>1. Lines!Compile(v) = [v EXCEPT !.re = r]
  BY DEF Lines!Compile
<1> HIDE DEF r
<1> QED BY <1>1 DEF Lines!View

LEMMA LinesStayed == Lines!Inv /\ Tallied => Lines!LinesStay
<1> SUFFICES ASSUME Lines!Inv, Tallied, ~view.following, view'.active, Lines!Disturbs
             PROVE  OnIts(view, view.cursor, view', view'.cursor) /\ OnIts(view, view.anchor, view', view'.anchor)
  BY DEF Lines!LinesStay, Lines!StaysOn, OnIts
<1>1. ASSUME NEW m \in pumps, Lines!Handle(m)
      PROVE  OnIts(view, view.cursor, view', view'.cursor) /\ OnIts(view, view.anchor, view', view'.anchor)
  BY <1>1, HandledIs DEF OnIts
<1>2. ASSUME NEW w \in Lines!View, view.active, w.lines = view.lines, w.shown = view.shown, w.cursor = view.cursor,
             w.anchor = view.anchor, w.following = view.following, view' = Lines!Render(Lines!Compile(w))
      PROVE  OnIts(view, view.cursor, view', view'.cursor) /\ OnIts(view, view.anchor, view', view'.anchor)
  <2>1. PICK u : u = Lines!Compile(w)
    OBVIOUS
  <2>2. /\ u \in Lines!View /\ u.lines = view.lines /\ u.shown = view.shown /\ u.cursor = view.cursor
        /\ u.anchor = view.anchor /\ u.following = view.following
    BY <1>2, <2>1, CompileIs, CompileStays
  <2>3. view \in Lines!View /\ view.shown = Lines!Kept(view) /\ Placed(view) /\ Numbered(view, written)
    BY <1>2, InvIs DEF Rebuilt, Tallied
  <2>4. view' = Lines!Render(u)
    BY <1>2, <2>1
  <2> QED BY <2>2, <2>3, <2>4, RenderStays
<1>3. view \in Lines!View /\ view.regex \in BOOLEAN
  BY InvIs, FieldsOf
<1>4. CASE Lines!ToggleRegex
  <2>1. PICK f \in BOOLEAN : f = ~view.regex
    OBVIOUS
  <2>2. view' = Lines!Render(Lines!Compile([view EXCEPT !.regex = f])) /\ view.active
    BY <1>4, <2>1 DEF Lines!ToggleRegex, Lines!Key
  <2>3. PICK w : w = [view EXCEPT !.regex = f]
    OBVIOUS
  <2>4. /\ w \in Lines!View /\ w.lines = view.lines /\ w.shown = view.shown /\ w.cursor = view.cursor
        /\ w.anchor = view.anchor /\ w.following = view.following
    BY <1>3, <2>3 DEF Lines!View
  <2> QED BY <1>2, <2>2, <2>3, <2>4
<1>5. ASSUME NEW q \in Lines!Query, Lines!TypeFilter(q)
      PROVE  OnIts(view, view.cursor, view', view'.cursor) /\ OnIts(view, view.anchor, view', view'.anchor)
  <2>2. view' = Lines!Render(Lines!Compile([view EXCEPT !.query = q])) /\ view.active
    BY <1>5 DEF Lines!TypeFilter, Lines!Key
  <2>3. PICK w : w = [view EXCEPT !.query = q]
    OBVIOUS
  <2>4. /\ w \in Lines!View /\ w.lines = view.lines /\ w.shown = view.shown /\ w.cursor = view.cursor
        /\ w.anchor = view.anchor /\ w.following = view.following
    BY <1>3, <1>5, <2>3 DEF Lines!View
  <2> QED BY <1>2, <2>2, <2>3, <2>4
<1> QED BY <1>1, <1>4, <1>5 DEF Lines!Disturbs


------------------------------ (* Table *) ----------------------------------
HIDE OnScreenAssumption DEF Lines!LogsAssumption
USE OnScreenAssumption DEF Rows!TableAssumption

(* Table's own instance of FiniteSets counts as FiniteSets does.            *)
LEMMA RowsCount ==
  \A S : Rows!Cardinality(S) = Cardinality(S) /\ (Rows!IsFiniteSet(S) <=> IsFiniteSet(S))
BY DEF Rows!IsFiniteSet, IsFiniteSet, Rows!Cardinality, Cardinality


(* What is displayed is a function of what applyFilter reads.               *)
Reads(a, b) ==
  /\ a.full = b.full /\ a.loaded = b.loaded /\ a.filter = b.filter /\ a.bad = b.bad
  /\ a.usage = b.usage /\ a.sort = b.sort /\ a.desc = b.desc

LEMMA SameRows == ASSUME NEW a, NEW b, Reads(a, b) PROVE Rows!Derived(a) = Rows!Derived(b) /\ Rows!Visible(a) = Rows!Visible(b)
<1>1. Rows!Visible(a) = Rows!Visible(b)
  BY DEF Reads, Rows!Visible, Rows!HasUsage
<1>2. Rows!Kept(a) = Rows!Kept(b)
  BY DEF Reads, Rows!Kept, Rows!Matches
<1>3. \A i : Rows!SortKey(a, i) = Rows!SortKey(b, i)
  BY <1>1 DEF Reads, Rows!SortKey, Rows!Cell
<1>4. \A i, j : Rows!Before(a, i, j) = Rows!Before(b, i, j)
  BY <1>3 DEF Reads, Rows!Before
<1>5. \A i : Rows!Rank(a, i) = Rows!Rank(b, i)
  BY <1>2, <1>4 DEF Rows!Rank
<1>6. \A k : Rows!Ranked(a, k) = Rows!Ranked(b, k)
  BY <1>2, <1>5 DEF Rows!Ranked
<1>7. a.full = b.full
  BY DEF Reads
<1> QED BY <1>1, <1>2, <1>6, <1>7 DEF Rows!Derived

(* The visible columns are among the two.                                   *)
LEMMA VisibleIs ==
  ASSUME NEW m \in Rows!Component
  PROVE  /\ Len(Rows!Visible(m)) \in Nat /\ DOMAIN Rows!Visible(m) = 1 .. Len(Rows!Visible(m))
         /\ \A i \in DOMAIN Rows!Visible(m) : Rows!Visible(m)[i] = "val" \/ Rows!HasUsage(m)
         /\ m.loaded => Rows!Visible(m) # <<>> /\ Len(Rows!Visible(m)) > 0
         /\ Rows!HasUsage(m) => Len(Rows!Visible(m)) > 0
         /\ Rows!Visible(m) # <<>> <=> (m.loaded \/ Rows!HasUsage(m))
<1>1. CASE m.loaded /\ Rows!HasUsage(m)
  <2>1. Rows!Visible(m) = <<"val", "use">>
    BY <1>1 DEF Rows!Visible
  <2> QED BY <1>1, <2>1
<1>2. CASE m.loaded /\ ~Rows!HasUsage(m)
  <2>1. Rows!Visible(m) = <<"val">>
    BY <1>2 DEF Rows!Visible
  <2> QED BY <1>2, <2>1
<1>3. CASE ~m.loaded /\ Rows!HasUsage(m)
  <2>1. Rows!Visible(m) = <<"use">>
    BY <1>3 DEF Rows!Visible
  <2> QED BY <1>3, <2>1
<1>4. CASE ~m.loaded /\ ~Rows!HasUsage(m)
  <2>1. Rows!Visible(m) = <<>>
    BY <1>4 DEF Rows!Visible
  <2> QED BY <1>4, <2>1
<1> QED BY <1>1, <1>2, <1>3, <1>4

LEMMA KeysAreNumbers ==
  ASSUME NEW m \in Rows!Component, NEW i \in DOMAIN m.full PROVE Rows!SortKey(m, i) \in Int
<1>1. m.full[i] \in Rows!LiveRow /\ m.usage \in Samples \cup {<<>>}
  BY DEF Rows!Component
<1>2. m.full[i].val \in Int /\ m.full[i].uid \in Uid
  BY <1>1 DEF Rows!LiveRow, Rows!Value
<1>3. Rows!HasUsage(m) => m.usage[m.full[i].uid] \in Int
  BY <1>1, <1>2 DEF Rows!HasUsage
<1>4. \A k \in DOMAIN Rows!Visible(m) : Rows!Visible(m)[k] = "val" \/ Rows!HasUsage(m)
  BY VisibleIs
<1> HIDE DEF Rows!HasUsage
<1>5. \A k \in DOMAIN Rows!Visible(m) : Rows!Cell(m, m.full[i], Rows!Visible(m)[k]) \in Int
  BY <1>2, <1>3, <1>4 DEF Rows!Cell
<1> QED BY <1>5 DEF Rows!SortKey

(* A part of a finite set has fewer elements.                               *)
LEMMA FewerElements ==
  ASSUME NEW S, NEW T, IsFiniteSet(S), T \subseteq S
  PROVE  IsFiniteSet(T) /\ Cardinality(T) \in Nat /\ (T # S => Cardinality(T) < Cardinality(S))
<1>1. T \in SUBSET S
  OBVIOUS
<1>2. IsFiniteSet(T) /\ Cardinality(T) <= Cardinality(S) /\ (Cardinality(S) = Cardinality(T) => S = T)
  BY <1>1, FS_Subset
<1>3. Cardinality(T) \in Nat /\ Cardinality(S) \in Nat
  BY <1>2, FS_CardinalityType
<1> QED BY <1>2, <1>3

(* A row's rank tells it from the others: before is a strict order.         *)
LEMMA BeforeIsAnOrder ==
  ASSUME NEW m \in Rows!Component
  PROVE  /\ IsFiniteSet(Rows!Kept(m)) /\ Rows!Kept(m) \subseteq DOMAIN m.full /\ DOMAIN m.full \subseteq Nat
         /\ \A i \in Rows!Kept(m) : ~Rows!Before(m, i, i)
         /\ \A i, j \in Rows!Kept(m) : i = j \/ Rows!Before(m, i, j) \/ Rows!Before(m, j, i)
         /\ \A i, j, k \in Rows!Kept(m) : Rows!Before(m, i, j) /\ Rows!Before(m, j, k) => Rows!Before(m, i, k)
<1>0. m.full \in Seq(Rows!LiveRow) /\ m.desc \in BOOLEAN
  BY DEF Rows!Component
<1>1. DOMAIN m.full = 1 .. Len(m.full) /\ Len(m.full) \in Nat
  BY <1>0
<1>2. Rows!Kept(m) \subseteq DOMAIN m.full
  BY DEF Rows!Kept
<1>3. IsFiniteSet(Rows!Kept(m))
  <2>1. IsFiniteSet(DOMAIN m.full)
    BY <1>1, FS_Interval
  <2> QED BY <1>2, <2>1, FewerElements
<1>4. \A i \in Rows!Kept(m) : Rows!SortKey(m, i) \in Int /\ i \in Nat
  BY <1>1, <1>2, KeysAreNumbers
<1>5. \A i \in Rows!Kept(m) : ~Rows!Before(m, i, i)
  BY <1>4 DEF Rows!Before
<1>6. \A i, j \in Rows!Kept(m) : i = j \/ Rows!Before(m, i, j) \/ Rows!Before(m, j, i)
  BY <1>4 DEF Rows!Before
<1>7. \A i, j, k \in Rows!Kept(m) : Rows!Before(m, i, j) /\ Rows!Before(m, j, k) => Rows!Before(m, i, k)
  <2>1. CASE m.desc
    BY <1>4, <2>1 DEF Rows!Before
  <2>2. CASE ~m.desc
    BY <1>4, <2>2 DEF Rows!Before
  <2> QED BY <2>1, <2>2
<1> QED BY <1>1, <1>2, <1>3, <1>5, <1>6, <1>7

LEMMA RanksTellApart ==
  ASSUME NEW m \in Rows!Component, NEW i \in Rows!Kept(m)
  PROVE  /\ Rows!Rank(m, i) \in 0 .. (Cardinality(Rows!Kept(m)) - 1) /\ Cardinality(Rows!Kept(m)) \in Nat
         /\ \A j \in Rows!Kept(m) : Rows!Before(m, i, j) => Rows!Rank(m, i) < Rows!Rank(m, j)
         /\ \A j \in Rows!Kept(m) : Rows!Rank(m, i) = Rows!Rank(m, j) => i = j
         /\ \A j \in Rows!Kept(m) : Rows!Rank(m, i) < Rows!Rank(m, j) => Rows!Before(m, i, j)
<1> DEFINE B(k) == {j \in Rows!Kept(m) : Rows!Before(m, j, k)}
<1>1. \A k \in Rows!Kept(m) : /\ B(k) \subseteq Rows!Kept(m) /\ k \notin B(k)
                              /\ IsFiniteSet(B(k)) /\ Cardinality(B(k)) \in Nat
  BY BeforeIsAnOrder, FewerElements
<1>2. Cardinality(Rows!Kept(m)) \in Nat
  BY BeforeIsAnOrder, FS_CardinalityType
<1>3. \A k \in Rows!Kept(m) : Rows!Rank(m, k) = Cardinality(B(k))
  BY RowsCount DEF Rows!Rank
<1>4. Cardinality(B(i)) < Cardinality(Rows!Kept(m))
  <2>1. B(i) # Rows!Kept(m) /\ B(i) \subseteq Rows!Kept(m)
    BY <1>1
  <2>2. IsFiniteSet(Rows!Kept(m))
    BY BeforeIsAnOrder
  <2> HIDE DEF B
  <2> QED BY <2>1, <2>2, FewerElements
<1>5. \A k, j \in Rows!Kept(m) : Rows!Before(m, k, j) => Rows!Rank(m, k) < Rows!Rank(m, j)
  <2> SUFFICES ASSUME NEW k \in Rows!Kept(m), NEW j \in Rows!Kept(m), Rows!Before(m, k, j)
               PROVE  Cardinality(B(k)) < Cardinality(B(j))
    BY <1>3
  <2>1. B(k) \subseteq B(j) /\ k \in B(j) /\ k \notin B(k)
    BY BeforeIsAnOrder
  <2>2. IsFiniteSet(B(j))
    BY <1>1
  <2> HIDE DEF B
  <2> QED BY <2>1, <2>2, FewerElements
<1>6. \A j \in Rows!Kept(m) : Rows!Rank(m, j) \in Nat
  BY <1>1, <1>3
<1> HIDE DEF B
<1>7. \A j \in Rows!Kept(m) : Rows!Rank(m, i) = Rows!Rank(m, j) => i = j
  BY <1>5, <1>6, BeforeIsAnOrder
<1>8. \A j \in Rows!Kept(m) : Rows!Rank(m, i) < Rows!Rank(m, j) => Rows!Before(m, i, j)
  BY <1>5, <1>6, BeforeIsAnOrder
<1>9. Rows!Rank(m, i) \in 0 .. (Cardinality(Rows!Kept(m)) - 1)
  BY <1>1, <1>2, <1>3, <1>4
<1> QED BY <1>2, <1>5, <1>7, <1>8, <1>9

(* Every place has its row and every row its place.                         *)
LEMMA PlacesAreTaken ==
  ASSUME NEW m \in Rows!Component
  PROVE  /\ Cardinality(Rows!Kept(m)) \in Nat
         /\ \A k \in 1 .. Cardinality(Rows!Kept(m)) :
              Rows!Ranked(m, k) \in Rows!Kept(m) /\ Rows!Rank(m, Rows!Ranked(m, k)) = k - 1
         /\ \A k, l \in 1 .. Cardinality(Rows!Kept(m)) :
              k < l => Rows!Before(m, Rows!Ranked(m, k), Rows!Ranked(m, l))
         /\ \A i \in Rows!Kept(m) : \E k \in 1 .. Cardinality(Rows!Kept(m)) : Rows!Ranked(m, k) = i
<1> DEFINE n == Cardinality(Rows!Kept(m))
           f == [i \in Rows!Kept(m) |-> Rows!Rank(m, i)]
<1>1. n \in Nat
  BY BeforeIsAnOrder, FS_CardinalityType
<1>2. \A i \in Rows!Kept(m) : Rows!Rank(m, i) \in 0 .. (n - 1)
  BY RanksTellApart
<1>3. f \in Injection(Rows!Kept(m), 0 .. (n - 1))
  <2>1. f \in [Rows!Kept(m) -> 0 .. (n - 1)]
    BY <1>2
  <2>2. \A i, j \in Rows!Kept(m) : f[i] = f[j] => i = j
    BY RanksTellApart
  <2> HIDE DEF f
  <2> QED BY <2>1, <2>2 DEF Injection, IsInjective
<1>4. IsFiniteSet(0 .. (n - 1)) /\ Cardinality(0 .. (n - 1)) = n
  <2> HIDE DEF n
  <2> QED BY <1>1, FS_Interval
<1>5. f \in Surjection(Rows!Kept(m), 0 .. (n - 1))
  <2> HIDE DEF f
  <2>1. Cardinality(Rows!Kept(m)) = Cardinality(0 .. (n - 1))
    BY <1>4
  <2> QED BY <1>3, <1>4, <2>1, FS_Injection
<1>6. \A r \in 0 .. (n - 1) : \E i \in Rows!Kept(m) : Rows!Rank(m, i) = r
  BY <1>5 DEF Surjection
<1> HIDE DEF n, f
<1>7. \A k \in 1 .. n : Rows!Ranked(m, k) \in Rows!Kept(m) /\ Rows!Rank(m, Rows!Ranked(m, k)) = k - 1
  <2> SUFFICES ASSUME NEW k \in 1 .. n
               PROVE  Rows!Ranked(m, k) \in Rows!Kept(m) /\ Rows!Rank(m, Rows!Ranked(m, k)) = k - 1
    OBVIOUS
  <2>1. k - 1 \in 0 .. (n - 1)
    BY <1>1
  <2>2. \E i \in Rows!Kept(m) : Rows!Rank(m, i) = k - 1
    BY <1>6, <2>1
  <2> QED BY <2>2 DEF Rows!Ranked
<1>8. \A k, l \in 1 .. n : k < l => Rows!Before(m, Rows!Ranked(m, k), Rows!Ranked(m, l))
  BY <1>1, <1>7, RanksTellApart
<1>9. \A i \in Rows!Kept(m) : \E k \in 1 .. n : Rows!Ranked(m, k) = i
  <2> SUFFICES ASSUME NEW i \in Rows!Kept(m) PROVE \E k \in 1 .. n : Rows!Ranked(m, k) = i
    OBVIOUS
  <2>1. Rows!Rank(m, i) + 1 \in 1 .. n /\ Rows!Rank(m, i) \in Int
    BY <1>1, <1>2
  <2>2. Rows!Rank(m, Rows!Ranked(m, Rows!Rank(m, i) + 1)) = Rows!Rank(m, i) /\ Rows!Ranked(m, Rows!Rank(m, i) + 1) \in Rows!Kept(m)
    BY <1>7, <2>1
  <2>3. Rows!Ranked(m, Rows!Rank(m, i) + 1) = i
    BY <2>2, RanksTellApart
  <2> QED BY <2>1, <2>3
<1> QED BY <1>1, <1>7, <1>8, <1>9 DEF n

LEMMA DerivedRows ==
  ASSUME NEW m \in Rows!Component
  PROVE  Rows!Derived(m) \in Seq(Rows!LiveRow) /\ Len(Rows!Derived(m)) = Cardinality(Rows!Kept(m))
<1>1. \A k \in 1 .. Cardinality(Rows!Kept(m)) : m.full[Rows!Ranked(m, k)] \in Rows!LiveRow
  <2>1. m.full \in Seq(Rows!LiveRow) /\ \A i \in Rows!Kept(m) : i \in DOMAIN m.full
    BY DEF Rows!Kept, Rows!Component
  <2>2. \A i \in Rows!Kept(m) : m.full[i] \in Rows!LiveRow
    BY <2>1, ElementOfSeq
  <2> QED BY <2>2, PlacesAreTaken
<1>2. Cardinality(Rows!Kept(m)) \in Nat
  BY PlacesAreTaken
<1> QED BY <1>1, <1>2, RowsCount DEF Rows!Derived

LEMMA PositionOf ==
  ASSUME NEW rows \in Seq(Rows!LiveRow), NEW u, Rows!Has(rows, u)
  PROVE  /\ Rows!IndexOf(rows, u) \in Nat /\ Rows!IndexOf(rows, u) + 1 \in DOMAIN rows
         /\ rows[Rows!IndexOf(rows, u) + 1].uid = u
<1> DEFINE p == CHOOSE i \in DOMAIN rows : rows[i].uid = u
<1>1. p \in DOMAIN rows /\ rows[p].uid = u
  BY DEF Rows!Has
<1> HIDE DEF p
<1>2. p \in Nat /\ p - 1 \in Nat /\ (p - 1) + 1 = p
  BY <1>1
<1>3. Rows!IndexOf(rows, u) = p - 1
  BY DEF Rows!IndexOf, p
<1> QED BY <1>1, <1>2, <1>3

(* The steps of a derivation change one field each.                         *)
Rest(a, b) == Reads(a, b) /\ a.mode = b.mode /\ a.rows = b.rows
InWindow(m) == m.rows > 0 => m.cursor \in m.offset .. (m.offset + m.rows - 1)

LEMMA Scrolling ==
  ASSUME NEW m \in Rows!Component
  PROVE  /\ Rows!Scrolled(m) \in Rows!Component /\ Rest(Rows!Scrolled(m), m) /\ InWindow(Rows!Scrolled(m))
         /\ Rows!Scrolled(m).cursor = m.cursor /\ Rows!Scrolled(m).head = m.head
<1> DEFINE o == IF m.rows = 0 \/ m.cursor < m.offset THEN m.cursor
                ELSE IF m.cursor >= m.offset + m.rows THEN m.cursor - m.rows + 1 ELSE m.offset
<1>1. m.rows \in Nat /\ m.cursor \in Nat /\ m.offset \in Nat
  BY DEF Rows!Component
<1>2. o \in Nat /\ (m.rows > 0 => m.cursor \in o .. (o + m.rows - 1))
  BY <1>1
<1>3. Rows!Scrolled(m) = [m EXCEPT !.offset = o]
  BY DEF Rows!Scrolled
<1> HIDE DEF o
<1> QED BY <1>2, <1>3 DEF Rows!Component, Rest, Reads, InWindow

LEMMA Clamping ==
  ASSUME NEW m \in Rows!Component, NEW rows \in Seq(Rows!LiveRow)
  PROVE  /\ Rows!ClampOffset(m, rows) \in Rows!Component /\ Rest(Rows!ClampOffset(m, rows), m)
         /\ InWindow(Rows!ClampOffset(m, rows))
         /\ Rows!ClampOffset(m, rows).cursor = m.cursor /\ Rows!ClampOffset(m, rows).head = m.head
<1> DEFINE o == Rows!Smaller(m.offset, Rows!Larger(0, Len(rows) - m.rows))
           c == [m EXCEPT !.offset = o]
<1>1. m.rows \in Nat /\ m.offset \in Nat
  BY DEF Rows!Component
<1>2. o \in Nat
  BY <1>1, LenProperties DEF Rows!Smaller, Rows!Larger
<1> HIDE DEF o
<1>3. c \in Rows!Component /\ Rest(c, m) /\ c.cursor = m.cursor /\ c.head = m.head
  BY <1>2 DEF Rows!Component, Rest, Reads
<1>4. Rows!ClampOffset(m, rows) = Rows!Scrolled(c)
  BY DEF Rows!ClampOffset, o
<1> HIDE DEF c
<1> QED BY <1>3, <1>4, Scrolling DEF Rest, Reads

LEMMA HeadIsClamped ==
  ASSUME NEW m \in Rows!Component, m.mode => Rows!Visible(m) # <<>>
  PROVE  /\ Rows!HeadClamped(m) \in Rows!Component /\ Rest(Rows!HeadClamped(m), m)
         /\ Rows!HeadClamped(m).cursor = m.cursor
         /\ m.mode => Rows!HeadClamped(m).head \in DOMAIN Rows!Visible(m)
<1> DEFINE h == IF m.mode THEN Rows!Larger(1, Rows!Smaller(m.head, Len(Rows!Visible(m)))) ELSE m.head
<1>1. m.head \in Nat /\ m.mode \in BOOLEAN /\ Len(Rows!Visible(m)) \in Nat
      /\ DOMAIN Rows!Visible(m) = 1 .. Len(Rows!Visible(m)) /\ (m.mode => Len(Rows!Visible(m)) > 0)
  BY VisibleIs DEF Rows!Component
<1>2. h \in Nat /\ (m.mode => h \in DOMAIN Rows!Visible(m))
  BY <1>1 DEF Rows!Smaller, Rows!Larger
<1>3. Rows!HeadClamped(m) = [m EXCEPT !.head = h]
  BY DEF Rows!HeadClamped
<1> HIDE DEF h
<1> QED BY <1>2, <1>3 DEF Rows!Component, Rest, Reads

LEMMA SelectionRestored ==
  ASSUME NEW m \in Rows!Component, NEW rows \in Seq(Rows!LiveRow)
  PROVE  LET r == Rows!RestoreSelection(m, rows) IN
         /\ r \in Rows!Component /\ Rest(r, m) /\ r.head = m.head
         /\ rows # <<>> => r.cursor + 1 \in DOMAIN rows
         /\ shown # <<>> /\ Rows!Has(rows, shown[t.cursor + 1].uid) =>
              rows[r.cursor + 1].uid = shown[t.cursor + 1].uid
<1> DEFINE u == shown[t.cursor + 1].uid
           r == Rows!RestoreSelection(m, rows)
<1>1. m.cursor \in Nat /\ Len(rows) \in Nat /\ DOMAIN rows = 1 .. Len(rows)
      /\ (rows # <<>> => Len(rows) > 0)
  BY DEF Rows!Component
<1>2. CASE rows = <<>>
  <2>1. r = [m EXCEPT !.cursor = 0, !.offset = 0]
    BY <1>2 DEF Rows!RestoreSelection
  <2>2. ~Rows!Has(rows, u)
    BY <1>2 DEF Rows!Has
  <2> HIDE DEF r, u
  <2>3. r \in Rows!Component /\ Rest(r, m) /\ r.head = m.head
    BY <2>1 DEF Rows!Component, Rest, Reads
  <2> QED BY <1>2, <2>2, <2>3 DEF r, u
<1>3. CASE rows # <<>> /\ shown # <<>> /\ Rows!Has(rows, u)
  <2>1. r = [m EXCEPT !.cursor = Rows!IndexOf(rows, u)]
    BY <1>3 DEF Rows!RestoreSelection
  <2> HIDE DEF r, u
  <2>2. /\ Rows!IndexOf(rows, u) \in Nat /\ Rows!IndexOf(rows, u) + 1 \in DOMAIN rows
        /\ rows[Rows!IndexOf(rows, u) + 1].uid = u
    BY <1>3, PositionOf
  <2>3. r \in Rows!Component /\ Rest(r, m) /\ r.head = m.head /\ r.cursor = Rows!IndexOf(rows, u)
    BY <2>1, <2>2 DEF Rows!Component, Rest, Reads
  <2> QED BY <2>2, <2>3 DEF r, u
<1>4. CASE rows # <<>> /\ ~(shown # <<>> /\ Rows!Has(rows, u))
  <2> DEFINE c == Rows!Smaller(m.cursor, Len(rows) - 1)
  <2>1. r = [m EXCEPT !.cursor = c]
    BY <1>4 DEF Rows!RestoreSelection
  <2>2. c \in Nat /\ c + 1 \in DOMAIN rows
    BY <1>1, <1>4 DEF Rows!Smaller
  <2> HIDE DEF r, u, c
  <2>3. r \in Rows!Component /\ Rest(r, m) /\ r.head = m.head /\ r.cursor = c
    BY <2>1, <2>2 DEF Rows!Component, Rest, Reads
  <2> QED BY <1>4, <2>2, <2>3 DEF r, u
<1> QED BY <1>2, <1>3, <1>4

(* applyFilter, restoreSelection and the clamp, whatever was changed.       *)
Redrawn == Rows!Distinct(t.full) /\ shown = Rows!Derived(t) /\ Rows!CursorsAreOnTheTable
LEMMA Rederived ==
  ASSUME NEW m \in Rows!Component, Rows!Distinct(m.full), m.mode => Rows!Visible(m) # <<>>, Rows!Rederive(m)
  PROVE  /\ t' \in Rows!Component /\ shown' \in Seq(Rows!LiveRow) /\ Redrawn'
         /\ shown # <<>> /\ Rows!Has(shown', shown[t.cursor + 1].uid) =>
              shown'[t'.cursor + 1].uid = shown[t.cursor + 1].uid
<1> DEFINE h == Rows!HeadClamped(m)
           rows == Rows!Derived(m)
           r == Rows!RestoreSelection(h, rows)
           c == Rows!ClampOffset(r, rows)
<1>1. rows \in Seq(Rows!LiveRow)
  BY DerivedRows
<1>2. h \in Rows!Component /\ Rest(h, m) /\ (m.mode => h.head \in DOMAIN Rows!Visible(m))
  BY HeadIsClamped
<1>3. /\ r \in Rows!Component /\ Rest(r, h) /\ r.head = h.head
      /\ rows # <<>> => r.cursor + 1 \in DOMAIN rows
      /\ shown # <<>> /\ Rows!Has(rows, shown[t.cursor + 1].uid) =>
           rows[r.cursor + 1].uid = shown[t.cursor + 1].uid
  <2> HIDE DEF h, rows
  <2> QED BY <1>1, <1>2, SelectionRestored DEF r
<1>4. /\ c \in Rows!Component /\ Rest(c, r) /\ InWindow(c) /\ c.cursor = r.cursor /\ c.head = r.head
  <2> HIDE DEF r, rows
  <2> QED BY <1>1, <1>3, Clamping
<1>5. shown' = rows /\ t' = c
  BY DEF Rows!Rederive
<1> HIDE DEF h, rows, r, c
<1>6. Rest(c, m)
  BY <1>2, <1>3, <1>4 DEF Rest, Reads
<1>7. Rows!Derived(c) = rows /\ Rows!Visible(c) = Rows!Visible(m)
  BY <1>6, SameRows DEF rows, Rest
<1>8. Rows!Distinct(c.full)
  BY <1>6 DEF Rest, Reads
<1>9. c.mode => c.head \in DOMAIN Rows!Visible(c)
  BY <1>2, <1>3, <1>4, <1>6, <1>7 DEF Rest
<1>10. /\ rows # <<>> => c.cursor + 1 \in DOMAIN rows
       /\ (rows # <<>> /\ c.rows > 0) => c.cursor \in c.offset .. (c.offset + c.rows - 1)
  BY <1>3, <1>4 DEF InWindow
<1>11. Redrawn'
  BY <1>5, <1>7, <1>8, <1>9, <1>10 DEF Redrawn, Rows!CursorsAreOnTheTable
<1> QED BY <1>1, <1>3, <1>4, <1>5, <1>11

LEMMA UpsertKeeps ==
  ASSUME t.full \in Seq(Rows!LiveRow), Rows!Distinct(t.full), NEW lr \in Rows!LiveRow
  PROVE  Rows!Upserted(lr) \in Seq(Rows!LiveRow) /\ Rows!Distinct(Rows!Upserted(lr))
<1> DEFINE full == t.full
           up == [i \in DOMAIN full |-> IF full[i].uid = lr.uid THEN lr ELSE full[i]]
<1>1. full \in Seq(Rows!LiveRow) /\ Rows!Distinct(full)
  OBVIOUS
<1>2. CASE Rows!Has(full, lr.uid)
  <2>1. Rows!Upserted(lr) = up
    BY <1>2 DEF Rows!Upserted
  <2> HIDE DEF full
  <2>2. up \in Seq(Rows!LiveRow) /\ \A i \in DOMAIN full : up[i].uid = full[i].uid
    BY <1>1
  <2>3. DOMAIN up = DOMAIN full
    OBVIOUS
  <2> HIDE DEF up
  <2> QED BY <1>1, <2>1, <2>2, <2>3 DEF Rows!Distinct
<1>3. CASE ~Rows!Has(full, lr.uid)
  <2>1. Rows!Upserted(lr) = Append(full, lr)
    BY <1>3 DEF Rows!Upserted
  <2> HIDE DEF full
  <2>2. \A i \in DOMAIN full : full[i].uid # lr.uid
    BY <1>3 DEF Rows!Has
  <2>3. Append(full, lr) \in Seq(Rows!LiveRow)
    BY <1>1
  <2>4. Rows!Distinct(Append(full, lr))
    BY <1>1, <2>2 DEF Rows!Distinct
  <2> QED BY <2>1, <2>3, <2>4
<1> QED BY <1>2, <1>3

LEMMA WithoutKeeps ==
  ASSUME NEW rows \in Seq(Rows!LiveRow), Rows!Distinct(rows), NEW i \in DOMAIN rows
  PROVE  Rows!Without(rows, i) \in Seq(Rows!LiveRow) /\ Rows!Distinct(Rows!Without(rows, i))
<1> DEFINE w == Rows!Without(rows, i)
           at(k) == IF k < i THEN k ELSE k + 1
<1>1. Len(rows) \in Nat /\ Len(rows) > 0 /\ DOMAIN rows = 1 .. Len(rows) /\ i \in 1 .. Len(rows)
  OBVIOUS
<1>2. \A k \in 1 .. Len(rows) - 1 : at(k) \in DOMAIN rows /\ w[k] = rows[at(k)]
  BY <1>1 DEF Rows!Without
<1>3. \A k, l \in 1 .. Len(rows) - 1 : at(k) = at(l) => k = l
  BY <1>1
<1>4. w \in Seq(Rows!LiveRow) /\ DOMAIN w = 1 .. Len(rows) - 1
  <2>1. w = [k \in 1 .. Len(rows) - 1 |-> rows[at(k)]] /\ Len(rows) - 1 \in Nat
    BY <1>1 DEF Rows!Without
  <2>2. \A k \in 1 .. Len(rows) - 1 : rows[at(k)] \in Rows!LiveRow
    BY <1>2, ElementOfSeq
  <2> HIDE DEF w, at
  <2> QED BY <2>1, <2>2
<1> HIDE DEF w, at
<1> QED BY <1>2, <1>3, <1>4 DEF Rows!Distinct, w

LEMMA AgedKeeps ==
  ASSUME NEW rows \in Seq(Rows!LiveRow), Rows!Distinct(rows), NEW older
  PROVE  Rows!Aged(rows, older) \in Seq(Rows!LiveRow) /\ Rows!Distinct(Rows!Aged(rows, older))
<1> DEFINE a == Rows!Aged(rows, older)
<1>1. \A i \in DOMAIN rows : rows[i] \in Rows!LiveRow
  BY ElementOfSeq
<1>2. \A r \in Rows!LiveRow : [r EXCEPT !.val = 2] \in Rows!LiveRow /\ [r EXCEPT !.val = 2].uid = r.uid
  BY DEF Rows!LiveRow, Rows!Value
<1>3. DOMAIN a = DOMAIN rows /\ \A i \in DOMAIN rows : a[i] \in Rows!LiveRow /\ a[i].uid = rows[i].uid
  BY <1>1, <1>2 DEF Rows!Aged
<1>4. a \in Seq(Rows!LiveRow)
  <2>1. a = [i \in DOMAIN rows |-> a[i]] /\ DOMAIN rows = 1 .. Len(rows) /\ Len(rows) \in Nat
    BY DEF Rows!Aged
  <2> HIDE DEF a
  <2> QED BY <1>3, <2>1
<1> HIDE DEF a
<1> QED BY <1>3, <1>4 DEF Rows!Distinct, a

LEMMA Moving ==
  ASSUME NEW m \in Rows!Component, NEW rows \in Seq(Rows!LiveRow), rows # <<>>, NEW i \in Int
  PROVE  /\ Rows!MoveTo(m, rows, i) \in Rows!Component /\ Rest(Rows!MoveTo(m, rows, i), m)
         /\ InWindow(Rows!MoveTo(m, rows, i))
         /\ Rows!MoveTo(m, rows, i).cursor + 1 \in DOMAIN rows /\ Rows!MoveTo(m, rows, i).head = m.head
<1> DEFINE c == Rows!Smaller(Rows!Larger(i, 0), Len(rows) - 1)
           n == [m EXCEPT !.cursor = c]
<1>1. Len(rows) \in Nat /\ Len(rows) > 0 /\ DOMAIN rows = 1 .. Len(rows)
  OBVIOUS
<1>2. c \in Nat /\ c + 1 \in DOMAIN rows
  BY <1>1 DEF Rows!Smaller, Rows!Larger
<1> HIDE DEF c
<1>3. n \in Rows!Component /\ Rest(n, m) /\ n.cursor = c /\ n.head = m.head
  BY <1>2 DEF Rows!Component, Rest, Reads
<1>4. Rows!MoveTo(m, rows, i) = Rows!Scrolled(n)
  BY DEF Rows!MoveTo, c
<1> HIDE DEF n
<1> QED BY <1>2, <1>3, <1>4, Scrolling DEF Rest, Reads

(* With no column at the sorted position the direction does not matter.     *)
LEMMA UnsortedRows ==
  ASSUME NEW a \in Rows!Component, NEW b \in Rows!Component, a.sort = 0, b.sort = 0,
         a.full = b.full, a.loaded = b.loaded, a.filter = b.filter, a.bad = b.bad, a.usage = b.usage
  PROVE  Rows!Derived(a) = Rows!Derived(b)
<1>2. Rows!Kept(a) = Rows!Kept(b)
  BY DEF Rows!Kept, Rows!Matches
<1>3. 0 \notin DOMAIN Rows!Visible(a) /\ 0 \notin DOMAIN Rows!Visible(b)
  BY VisibleIs
<1>4. \A i, j : Rows!Before(a, i, j) = (i < j) /\ Rows!Before(b, i, j) = (i < j)
  BY <1>3 DEF Rows!Before, Rows!SortKey
<1>5. \A i : Rows!Rank(a, i) = Rows!Rank(b, i)
  BY <1>2, <1>4 DEF Rows!Rank
<1>6. \A k : Rows!Ranked(a, k) = Rows!Ranked(b, k)
  BY <1>2, <1>5 DEF Rows!Ranked
<1> QED BY <1>2, <1>6 DEF Rows!Derived

LEMMA TableInit == Rows!Init => Rows!Inv
<1> SUFFICES ASSUME Rows!Init PROVE Rows!Inv
  OBVIOUS
<1>1. PICK h \in Sizes : t = Rows!Empty(h)
  BY DEF Rows!Init
<1>2. t \in Rows!Component /\ t.full = <<>> /\ ~t.mode /\ shown = <<>>
  BY <1>1 DEF Rows!Empty, Rows!Component, Rows!Init
<1>3. Rows!Derived(t) = <<>>
  <2>1. Rows!Kept(t) = {}
    BY <1>2 DEF Rows!Kept
  <2>2. Cardinality(Rows!Kept(t)) = 0
    BY <2>1, FS_EmptySet
  <2> QED BY <2>2, DerivedRows, EmptySeq, <1>2
<1>4. Rows!TypeOK
  BY <1>2 DEF Rows!TypeOK, Rows!Init
<1>5. Rows!CursorsAreOnTheTable /\ Rows!Distinct(t.full)
  BY <1>2 DEF Rows!CursorsAreOnTheTable, Rows!Distinct
<1> QED BY <1>2, <1>3, <1>4, <1>5 DEF Rows!Inv

(* A step that re-derives keeps the invariant and the highlight.            *)
LEMMA RederivedKeeps ==
  ASSUME Rows!Inv, NEW m \in Rows!Component, Rows!Distinct(m.full), m.mode => Rows!Visible(m) # <<>>, Rows!Rederive(m),
         kind' = kind, armed' \in Rows!Sort, picked' \in Opened \cup {Rows!None}, opens' = opens
  PROVE  Rows!Inv' /\ Rows!KeepsItsObject
<1>1. Rows!TypeOK'
  BY Rederived DEF Rows!TypeOK, Rows!Inv
<1>2. Rows!KeepsItsObject
  BY Rederived DEF Rows!KeepsItsObject
<1> QED BY <1>1, <1>2, Rederived DEF Rows!Inv, Redrawn

(* And so does one that leaves the rows and moves the cursors on them.      *)
LEMMA RestingKeeps ==
  ASSUME Rows!Inv, NEW m \in Rows!Component, t' = m, shown' = shown, m.full = t.full, Rows!Derived(m) = Rows!Derived(t),
         shown # <<>> => m.cursor + 1 \in DOMAIN shown,
         shown # <<>> => InWindow(m),
         m.mode => m.head \in DOMAIN Rows!Visible(m),
         kind' = kind, armed' \in Rows!Sort, picked' \in Opened \cup {Rows!None}, opens' = opens
  PROVE  Rows!Inv' /\ (m.cursor = t.cursor => Rows!KeepsItsObject)
<1>1. Rows!TypeOK'
  BY DEF Rows!Inv, Rows!TypeOK
<1>2. Rows!Distinct(m.full) /\ shown = Rows!Derived(m)
  BY DEF Rows!Inv
<1>3. Rows!CursorsAreOnTheTable'
  BY DEF Rows!CursorsAreOnTheTable, InWindow
<1>4. m.cursor = t.cursor => Rows!KeepsItsObject
  BY DEF Rows!KeepsItsObject
<1> QED BY <1>1, <1>2, <1>3, <1>4 DEF Rows!Inv

LEMMA TableStep == Rows!Inv /\ [Rows!Next]_rowsVars => Rows!Inv' /\ (Rows!KeepsItsObject \/ UNCHANGED rowsVars)
<1> SUFFICES ASSUME Rows!Inv, Rows!Next PROVE Rows!Inv' /\ Rows!KeepsItsObject
  <2>1. ASSUME Rows!Inv, UNCHANGED rowsVars PROVE Rows!Inv'
    BY <2>1 DEF Rows!Inv, Rows!TypeOK, rowsVars, Rows!Distinct, Rows!CursorsAreOnTheTable
  <2> QED BY <2>1
<1>0. /\ t \in Rows!Component /\ shown \in Seq(Rows!LiveRow) /\ kind \in Opened \cup {Rows!None} /\ armed \in Rows!Sort
      /\ picked \in Opened \cup {Rows!None} /\ opens \in 0 .. MaxOpens
      /\ Rows!Distinct(t.full) /\ (t.mode => Rows!Visible(t) # <<>>)
  BY VisibleIs DEF Rows!Inv, Rows!TypeOK, Rows!CursorsAreOnTheTable
<1>1. CASE Rows!WatchResource
  <2>1. t' \in Rows!Component /\ t'.full = <<>> /\ ~t'.mode /\ shown' = <<>>
    BY <1>0, <1>1 DEF Rows!WatchResource, Rows!Empty, Rows!Component
  <2>2. Rows!Kept(t') = {}
    BY <2>1 DEF Rows!Kept
  <2>3. Rows!Derived(t') = <<>>
    BY <2>1, <2>2, DerivedRows, FS_EmptySet, EmptySeq
  <2>4. Rows!TypeOK'
    BY <1>0, <1>1, <2>1 DEF Rows!TypeOK, Rows!WatchResource
  <2>5. Rows!KeepsItsObject
    BY <2>1 DEF Rows!KeepsItsObject, Rows!Has
  <2> QED BY <2>1, <2>3, <2>4, <2>5 DEF Rows!Inv, Rows!CursorsAreOnTheTable, Rows!Distinct
<1>2. CASE Rows!Reset
  <2>0. PICK n \in 0 .. Cardinality(Uid) : \E rows \in [1 .. n -> Rows!LiveRow] :
          LET fresh == [t EXCEPT !.full = rows, !.loaded = TRUE] IN
          /\ Rows!Distinct(rows) /\ Rows!Rederive(Rows!SortByColumnName(fresh))
          /\ picked' = IF Rows!Restores(fresh) THEN armed.for ELSE picked
    BY <1>2, RowsCount DEF Rows!Reset
  <2>1. PICK rows \in [1 .. n -> Rows!LiveRow] :
          LET fresh == [t EXCEPT !.full = rows, !.loaded = TRUE] IN
          /\ Rows!Distinct(rows) /\ Rows!Rederive(Rows!SortByColumnName(fresh))
          /\ picked' = IF Rows!Restores(fresh) THEN armed.for ELSE picked
    BY <2>0
  <2> DEFINE fresh == [t EXCEPT !.full = rows, !.loaded = TRUE]
             m == Rows!SortByColumnName(fresh)
  <2>2. n \in Nat /\ rows \in Seq(Rows!LiveRow)
    <3>1. Cardinality(Uid) \in Nat
      BY RowsCount, FS_CardinalityType DEF Rows!TableAssumption
    <3> QED BY <3>1
  <2>3. fresh \in Rows!Component /\ fresh.full = rows /\ fresh.loaded
    BY <1>0, <2>2 DEF Rows!Component
  <2> HIDE DEF fresh
  <2>4. m \in Rows!Component /\ m.full = rows /\ m.loaded
    <3>1. Rows!Restores(fresh) => armed.desc \in BOOLEAN
      BY <1>0 DEF Rows!Restores, Rows!Sort
    <3> QED BY <2>3, <3>1 DEF Rows!SortByColumnName, Rows!Component
  <2>5. picked' \in Opened \cup {Rows!None}
    <3>1. Rows!Restores(fresh) => armed.for \in Opened
      BY <1>0 DEF Rows!Restores, Rows!Sort
    <3> QED BY <1>0, <2>1, <3>1 DEF fresh
  <2>6. armed' \in Rows!Sort /\ kind' = kind /\ opens' = opens
    BY <1>2 DEF Rows!Reset, Rows!Sort, Rows!NoSort
  <2>7. Rows!Distinct(m.full) /\ Rows!Rederive(m) /\ Rows!Visible(m) # <<>>
    BY <2>1, <2>4, VisibleIs DEF fresh
  <2> HIDE DEF m
  <2> QED BY <2>4, <2>5, <2>6, <2>7, RederivedKeeps
<1>3. CASE Rows!Delta
  <2>0. kind' = kind /\ armed' \in Rows!Sort /\ picked' \in Opened \cup {Rows!None} /\ opens' = opens
    BY <1>0, <1>3 DEF Rows!Delta, Rows!Live
  <2>1. ASSUME NEW rows \in Seq(Rows!LiveRow), Rows!Distinct(rows), Rows!Rederive([t EXCEPT !.full = rows])
        PROVE  Rows!Inv' /\ Rows!KeepsItsObject
    <3> DEFINE m == [t EXCEPT !.full = rows]
    <3>1. m \in Rows!Component /\ m.full = rows /\ m.loaded = t.loaded /\ m.usage = t.usage /\ m.mode = t.mode
      BY <1>0, <2>1 DEF Rows!Component
    <3>2. Rows!Rederive(m)
      BY <2>1
    <3> HIDE DEF m
    <3>3. m.mode => Rows!Visible(m) # <<>>
      BY <1>0, <3>1, VisibleIs DEF Rows!HasUsage
    <3> QED BY <2>0, <2>1, <3>1, <3>2, <3>3, RederivedKeeps
  <2>2. ASSUME NEW u \in Uid, NEW v \in Rows!Value
        PROVE  Rows!Upserted([uid |-> u, val |-> v]) \in Seq(Rows!LiveRow) /\ Rows!Distinct(Rows!Upserted([uid |-> u, val |-> v]))
    <3>1. t.full \in Seq(Rows!LiveRow)
      BY <1>0 DEF Rows!Component
    <3>2. [uid |-> u, val |-> v] \in Rows!LiveRow
      BY DEF Rows!LiveRow
    <3> QED BY <1>0, <3>1, <3>2, UpsertKeeps
  <2>3. ASSUME NEW i \in DOMAIN t.full
        PROVE  Rows!Without(t.full, i) \in Seq(Rows!LiveRow) /\ Rows!Distinct(Rows!Without(t.full, i))
    <3>1. t.full \in Seq(Rows!LiveRow)
      BY <1>0 DEF Rows!Component
    <3> QED BY <1>0, <3>1, WithoutKeeps
  <2>4. CASE \E u \in Uid, v \in Rows!Value :
               Rows!Rederive([t EXCEPT !.full = Rows!Upserted([uid |-> u, val |-> v])])
    BY <2>1, <2>2, <2>4
  <2>5. CASE \E i \in DOMAIN t.full : Rows!Rederive([t EXCEPT !.full = Rows!Without(@, i)])
    BY <2>1, <2>3, <2>5
  <2> QED BY <1>3, <2>4, <2>5 DEF Rows!Delta
<1>4. CASE Rows!RefreshAges
  <2>1. PICK older \in SUBSET DOMAIN t.full : Rows!Rederive([t EXCEPT !.full = Rows!Aged(@, older)])
    BY <1>4 DEF Rows!RefreshAges
  <2> DEFINE m == [t EXCEPT !.full = Rows!Aged(@, older)]
  <2>2. t.full \in Seq(Rows!LiveRow)
    BY <1>0 DEF Rows!Component
  <2>3. Rows!Aged(t.full, older) \in Seq(Rows!LiveRow) /\ Rows!Distinct(Rows!Aged(t.full, older))
    BY <1>0, <2>2, AgedKeeps
  <2>4. m \in Rows!Component /\ m.full = Rows!Aged(t.full, older) /\ m.loaded = t.loaded /\ m.usage = t.usage
        /\ m.mode = t.mode
    BY <1>0, <2>3 DEF Rows!Component
  <2>5. Rows!Rederive(m)
    BY <2>1
  <2> HIDE DEF m
  <2>6. m.mode => Rows!Visible(m) # <<>>
    BY <1>0, <2>4, VisibleIs DEF Rows!HasUsage
  <2>7. kind' = kind /\ armed' \in Rows!Sort /\ picked' \in Opened \cup {Rows!None} /\ opens' = opens
    BY <1>0, <1>4 DEF Rows!RefreshAges, Rows!Live
  <2> QED BY <2>3, <2>4, <2>5, <2>6, <2>7, RederivedKeeps
<1>5. CASE Rows!SetUsage
  <2>1. PICK u \in Samples : Rows!Rederive([t EXCEPT !.usage = u])
    BY <1>5 DEF Rows!SetUsage
  <2> DEFINE m == [t EXCEPT !.usage = u]
  <2>2. m \in Rows!Component /\ m.full = t.full /\ Rows!HasUsage(m) /\ Rows!Rederive(m)
    BY <1>0, <2>1 DEF Rows!Component, Rows!HasUsage
  <2> HIDE DEF m
  <2>3. Rows!Visible(m) # <<>>
    BY <2>2, VisibleIs
  <2>4. kind' = kind /\ armed' \in Rows!Sort /\ picked' \in Opened \cup {Rows!None} /\ opens' = opens
    BY <1>0, <1>5 DEF Rows!SetUsage, Rows!Live
  <2> QED BY <1>0, <2>2, <2>3, <2>4, RederivedKeeps
<1>6. CASE Rows!SetFilter \/ Rows!ToggleUnhealthy \/ Rows!ClearFilter
  <2>1. kind' = kind /\ armed' \in Rows!Sort /\ picked' \in Opened \cup {Rows!None} /\ opens' = opens
    BY <1>0, <1>6 DEF Rows!SetFilter, Rows!ToggleUnhealthy, Rows!ClearFilter, Rows!Live
  <2>2. ASSUME NEW f \in Rows!Value \cup {0}, NEW b \in BOOLEAN, Rows!Rederive([t EXCEPT !.filter = f, !.bad = b])
        PROVE  Rows!Inv' /\ Rows!KeepsItsObject
    <3> DEFINE m == [t EXCEPT !.filter = f, !.bad = b]
    <3>1. m \in Rows!Component /\ m.full = t.full /\ m.loaded = t.loaded /\ m.usage = t.usage /\ m.mode = t.mode
      BY <1>0 DEF Rows!Component
    <3>2. Rows!Rederive(m)
      BY <2>2
    <3> HIDE DEF m
    <3>3. m.mode => Rows!Visible(m) # <<>>
      BY <1>0, <3>1, VisibleIs DEF Rows!HasUsage
    <3> QED BY <1>0, <2>1, <3>1, <3>2, <3>3, RederivedKeeps
  <2>3. t.filter \in Rows!Value \cup {0} /\ t.bad \in BOOLEAN
    BY <1>0 DEF Rows!Component
  <2>4. \A f : [t EXCEPT !.filter = f] = [t EXCEPT !.filter = f, !.bad = t.bad]
    BY <1>0 DEF Rows!Component
  <2>5. [t EXCEPT !.bad = ~@] = [t EXCEPT !.filter = t.filter, !.bad = ~t.bad]
    BY <1>0 DEF Rows!Component
  <2>6. CASE Rows!SetFilter
    <3>1. PICK f \in Rows!Value : Rows!Rederive([t EXCEPT !.filter = f])
      BY <2>6 DEF Rows!SetFilter
    <3>2. Rows!Rederive([t EXCEPT !.filter = f, !.bad = t.bad])
      BY <2>4, <3>1
    <3> QED BY <2>2, <2>3, <3>2
  <2>7. CASE Rows!ToggleUnhealthy
    <3>1. Rows!Rederive([t EXCEPT !.filter = t.filter, !.bad = ~t.bad])
      BY <2>5, <2>7 DEF Rows!ToggleUnhealthy
    <3> QED BY <2>2, <2>3, <3>1
  <2>8. CASE Rows!ClearFilter
    <3>1. Rows!Rederive([t EXCEPT !.filter = 0, !.bad = FALSE])
      BY <2>8 DEF Rows!ClearFilter
    <3> QED BY <2>2, <3>1
  <2> QED BY <1>6, <2>6, <2>7, <2>8
<1>7. CASE Rows!SortBy
  <2> DEFINE m == [t EXCEPT !.sort = t.head, !.desc = t.sort = t.head /\ ~t.desc]
  <2>1. m \in Rows!Component /\ m.full = t.full /\ m.loaded = t.loaded /\ m.usage = t.usage /\ m.mode = t.mode
    BY <1>0 DEF Rows!Component
  <2>2. Rows!Rederive(m)
    BY <1>7 DEF Rows!SortBy
  <2> HIDE DEF m
  <2>3. m.mode => Rows!Visible(m) # <<>>
    BY <1>0, <2>1, VisibleIs DEF Rows!HasUsage
  <2>4. kind' = kind /\ armed' \in Rows!Sort /\ picked' \in Opened \cup {Rows!None} /\ opens' = opens
    BY <1>0, <1>7 DEF Rows!SortBy
  <2> QED BY <1>0, <2>1, <2>2, <2>3, <2>4, RederivedKeeps
<1>8. CASE Rows!ClearSort
  <2> DEFINE m == [t EXCEPT !.sort = 0, !.desc = FALSE, !.mode = FALSE, !.head = 1]
  <2>1. /\ m \in Rows!Component /\ m.full = t.full /\ ~m.mode /\ m.cursor = t.cursor /\ m.rows = t.rows
        /\ m.offset = t.offset
         /\ m.sort = 0 /\ m.loaded = t.loaded /\ m.filter = t.filter /\ m.bad = t.bad /\ m.usage = t.usage
    BY <1>0 DEF Rows!Component
  <2>2. kind' = kind /\ armed' \in Rows!Sort /\ picked' \in Opened \cup {Rows!None} /\ opens' = opens
    BY <1>0, <1>8 DEF Rows!ClearSort
  <2>3. CASE t.sort # 0
    <3>1. Rows!Rederive(m)
      BY <1>8, <2>3 DEF Rows!ClearSort
    <3> HIDE DEF m
    <3> QED BY <1>0, <2>1, <2>2, <3>1, RederivedKeeps
  <2>4. CASE t.sort = 0
    <3>1. t' = m /\ shown' = shown
      BY <1>8, <2>4 DEF Rows!ClearSort
    <3>2. Rows!Derived(m) = Rows!Derived(t)
      BY <1>0, <2>1, <2>4, UnsortedRows
    <3>3. shown # <<>> => m.cursor + 1 \in DOMAIN shown /\ InWindow(m)
      BY <2>1 DEF Rows!Inv, Rows!CursorsAreOnTheTable, InWindow
    <3> HIDE DEF m
    <3> QED BY <1>0, <2>1, <2>2, <3>1, <3>2, <3>3, RestingKeeps
  <2> QED BY <2>3, <2>4
<1>9. CASE Rows!SetSize
  <2>1. PICK h \in Sizes : t' = Rows!ClampOffset([t EXCEPT !.rows = h], shown) /\ shown' = shown
    BY <1>9 DEF Rows!SetSize
  <2> DEFINE n == [t EXCEPT !.rows = h]
             m == Rows!ClampOffset(n, shown)
  <2>2. n \in Rows!Component /\ Reads(n, t) /\ n.mode = t.mode /\ n.head = t.head /\ n.cursor = t.cursor
    BY <1>0 DEF Rows!Component, Reads
  <2>3. t' = m
    BY <2>1
  <2> HIDE DEF n
  <2>4. /\ m \in Rows!Component /\ Reads(m, t) /\ m.mode = t.mode /\ InWindow(m)
        /\ m.cursor = t.cursor /\ m.head = t.head
    BY <1>0, <2>2, Clamping DEF Rest, Reads
  <2> HIDE DEF m
  <2>5. Rows!Derived(m) = Rows!Derived(t) /\ Rows!Visible(m) = Rows!Visible(t) /\ m.full = t.full
    BY <2>4, SameRows DEF Reads
  <2>6. /\ shown # <<>> => m.cursor + 1 \in DOMAIN shown
        /\ m.mode => m.head \in DOMAIN Rows!Visible(m)
    BY <2>4, <2>5 DEF Rows!Inv, Rows!CursorsAreOnTheTable
  <2>7. kind' = kind /\ armed' \in Rows!Sort /\ picked' \in Opened \cup {Rows!None} /\ opens' = opens
    BY <1>0, <1>9 DEF Rows!SetSize, Rows!Live
  <2> QED BY <2>1, <2>3, <2>4, <2>5, <2>6, <2>7, RestingKeeps
<1>10. CASE Rows!EnterSortMode \/ Rows!ExitSortMode \/ Rows!MoveHead
  <2>1. kind' = kind /\ armed' \in Rows!Sort /\ picked' \in Opened \cup {Rows!None} /\ opens' = opens /\ shown' = shown
    BY <1>0, <1>10 DEF Rows!EnterSortMode, Rows!ExitSortMode, Rows!MoveHead, Rows!Live
  <2>2. PICK b \in BOOLEAN, c \in Nat :
          t' = [t EXCEPT !.mode = b, !.head = c] /\ (b => c \in DOMAIN Rows!Visible(t))
    <3>1. CASE Rows!EnterSortMode
      <4> DEFINE c == IF t.sort \in DOMAIN Rows!Visible(t) THEN t.sort ELSE 1
      <4>1. t' = [t EXCEPT !.mode = TRUE, !.head = c]
        BY <3>1 DEF Rows!EnterSortMode
      <4>2. c \in DOMAIN Rows!Visible(t) /\ c \in Nat
        BY <1>0, <3>1, VisibleIs DEF Rows!EnterSortMode
      <4> HIDE DEF c
      <4> QED BY <4>1, <4>2
    <3>2. CASE Rows!ExitSortMode
      BY <3>2 DEF Rows!ExitSortMode
    <3>3. CASE Rows!MoveHead
      <4>1. PICK c \in {t.head - 1, t.head + 1} \cap DOMAIN Rows!Visible(t) : t' = [t EXCEPT !.head = c]
        BY <3>3 DEF Rows!MoveHead
      <4>2. c \in Nat /\ t.mode
        BY <1>0, <3>3, VisibleIs DEF Rows!MoveHead
      <4>3. [t EXCEPT !.head = c] = [t EXCEPT !.mode = TRUE, !.head = c]
        BY <1>0, <4>2 DEF Rows!Component
      <4> QED BY <4>1, <4>2, <4>3
    <3> QED BY <1>10, <3>1, <3>2, <3>3
  <2> DEFINE m == [t EXCEPT !.mode = b, !.head = c]
  <2>3. /\ m \in Rows!Component /\ Reads(m, t) /\ m.cursor = t.cursor /\ m.offset = t.offset /\ m.rows = t.rows
        /\ m.mode = b /\ m.head = c
    BY <1>0 DEF Rows!Component, Reads
  <2>4. t' = m
    BY <2>2
  <2> HIDE DEF m
  <2>5. Rows!Derived(m) = Rows!Derived(t) /\ Rows!Visible(m) = Rows!Visible(t) /\ m.full = t.full
    BY <2>3, SameRows DEF Reads
  <2>6. shown # <<>> => m.cursor + 1 \in DOMAIN shown /\ InWindow(m)
    BY <2>3 DEF Rows!Inv, Rows!CursorsAreOnTheTable, InWindow
  <2>7. m.mode => m.head \in DOMAIN Rows!Visible(m)
    BY <2>2, <2>3, <2>5
  <2> QED BY <2>1, <2>3, <2>4, <2>5, <2>6, <2>7, RestingKeeps
<1>11. CASE Rows!Move
  <2>1. /\ kind' = kind /\ armed' \in Rows!Sort /\ picked' \in Opened \cup {Rows!None} /\ opens' = opens
        /\ shown' = shown /\ shown # <<>>
    BY <1>0, <1>11 DEF Rows!Move, Rows!Live
  <2>2. t.cursor \in Nat /\ t.rows \in Nat /\ Len(shown) \in Nat /\ DOMAIN shown \subseteq Nat
    <3>1. t.cursor \in Nat /\ t.rows \in Nat
      BY <1>0 DEF Rows!Component
    <3>2. Len(shown) \in Nat /\ DOMAIN shown \subseteq Nat
      BY <1>0
    <3> QED BY <3>1, <3>2
  <2>3. PICK i \in Int : t' = Rows!MoveTo(t, shown, i)
    <3>1. CASE \E to \in {t.cursor - 1, t.cursor + 1, t.cursor - t.rows, t.cursor + t.rows,
                          0, Len(shown) - 1} : t' = Rows!MoveTo(t, shown, to)
      BY <2>2, <3>1
    <3>2. CASE t' = Rows!MoveTo(t, shown, IF t.cursor + 1 = Len(shown) THEN 0 ELSE t.cursor + 1)
      BY <2>2, <3>2
    <3>3. CASE t' = Rows!MoveTo(t, shown, IF t.cursor = 0 THEN Len(shown) - 1 ELSE t.cursor - 1)
      BY <2>2, <3>3
    <3>4. CASE \E i \in DOMAIN shown : t' = Rows!MoveTo(t, shown, i - 1)
      BY <2>2, <3>4
    <3> QED BY <1>11, <3>1, <3>2, <3>3, <3>4 DEF Rows!Move
  <2> DEFINE m == Rows!MoveTo(t, shown, i)
  <2>4. /\ m \in Rows!Component /\ Reads(m, t) /\ m.mode = t.mode /\ InWindow(m)
        /\ m.cursor + 1 \in DOMAIN shown /\ m.head = t.head
    BY <1>0, <2>1, Moving DEF Rest
  <2> HIDE DEF m
  <2>5. Rows!Derived(m) = Rows!Derived(t) /\ Rows!Visible(m) = Rows!Visible(t) /\ m.full = t.full
    BY <2>4, SameRows DEF Reads
  <2>6. m.mode => m.head \in DOMAIN Rows!Visible(m)
    BY <2>4, <2>5 DEF Rows!Inv, Rows!CursorsAreOnTheTable
  <2>7. Rows!Inv'
    BY <2>1, <2>3, <2>4, <2>5, <2>6, RestingKeeps DEF m
  <2> QED BY <1>11, <2>7 DEF Rows!KeepsItsObject
<1> QED BY <1>1, <1>2, <1>3, <1>4, <1>5, <1>6, <1>7, <1>8, <1>9, <1>10, <1>11 DEF Rows!Next, Rows!Event, Rows!Key

(* Seen from the rows, the invariant says what is displayed.                *)
LEMMA TableShows == Rows!Inv => Rows!RowsAreTheLiveOnes
<1> SUFFICES ASSUME Rows!Inv PROVE Rows!RowsAreTheLiveOnes
  OBVIOUS
<1> DEFINE n == Cardinality(Rows!Kept(t))
           p(k) == Rows!Ranked(t, k)
<1>1. t \in Rows!Component /\ Rows!Distinct(t.full) /\ shown = Rows!Derived(t) /\ t.full \in Seq(Rows!LiveRow)
  BY DEF Rows!Inv, Rows!TypeOK, Rows!Component
<1>2. /\ n \in Nat
      /\ \A k \in 1 .. n : p(k) \in Rows!Kept(t)
      /\ \A k, l \in 1 .. n : k < l => Rows!Before(t, p(k), p(l))
      /\ \A i \in Rows!Kept(t) : \E k \in 1 .. n : p(k) = i
  BY <1>1, PlacesAreTaken
<1>3. DOMAIN shown = 1 .. n /\ (\A k \in 1 .. n : shown[k] = t.full[p(k)]) /\ Len(shown) = n
  BY <1>1, DerivedRows, RowsCount DEF Rows!Derived
<1>4. Rows!Kept(t) \subseteq DOMAIN t.full /\ \A i \in DOMAIN t.full : i \in Rows!Kept(t) <=> Rows!Matches(t, t.full[i])
  BY DEF Rows!Kept
<1> HIDE DEF n, p
<1>5. Rows!Range(shown) = {r \in Rows!Range(t.full) : Rows!Matches(t, r)}
  BY <1>2, <1>3, <1>4 DEF Rows!Range
<1>6. Len(shown) = Cardinality(Rows!Range(shown))
  <2>1. \A k, l \in 1 .. n : p(k) = p(l) => k = l
    <3>1. \A k \in 1 .. n : ~Rows!Before(t, p(k), p(k))
      BY <1>1, <1>2, BeforeIsAnOrder
    <3> QED BY <1>2, <3>1
  <2>2. \A k, l \in 1 .. n : shown[k] = shown[l] => k = l
    BY <1>1, <1>2, <1>3, <1>4, <2>1 DEF Rows!Distinct
  <2>3. shown \in Bijection(1 .. n, Rows!Range(shown))
    <3>1. shown \in [1 .. n -> Rows!Range(shown)]
      BY <1>1, <1>3, DerivedRows DEF Rows!Range
    <3>2. \A r \in Rows!Range(shown) : \E k \in 1 .. n : shown[k] = r
      BY <1>3 DEF Rows!Range
    <3> QED BY <2>2, <3>1, <3>2 DEF Bijection, Injection, Surjection, IsInjective
  <2>4. IsFiniteSet(1 .. n) /\ Cardinality(1 .. n) = n
    BY <1>2, FS_Interval
  <2>5. ExistsBijection(1 .. n, Rows!Range(shown))
    BY <2>3 DEF ExistsBijection
  <2> QED BY <1>3, <2>4, <2>5, FS_Bijection
<1>7. \A k \in 1 .. n : Rows!IndexOf(t.full, shown[k].uid) = p(k) - 1 /\ p(k) \in Nat
  <2> SUFFICES ASSUME NEW k \in 1 .. n
               PROVE  Rows!IndexOf(t.full, shown[k].uid) = p(k) - 1 /\ p(k) \in Nat
    OBVIOUS
  <2>1. p(k) \in DOMAIN t.full /\ t.full[p(k)].uid = shown[k].uid
    BY <1>2, <1>3, <1>4
  <2>2. \A i \in DOMAIN t.full : t.full[i].uid = shown[k].uid => i = p(k)
    BY <1>1, <2>1 DEF Rows!Distinct
  <2>3. (CHOOSE i \in DOMAIN t.full : t.full[i].uid = shown[k].uid) = p(k)
    BY <2>1, <2>2
  <2>4. p(k) \in Nat
    BY <1>1, <2>1
  <2> QED BY <2>3, <2>4 DEF Rows!IndexOf
<1>8. ASSUME NEW i \in DOMAIN shown, NEW j \in DOMAIN shown, i < j
      PROVE  LET first == Rows!IndexOf(t.full, shown[i].uid) < Rows!IndexOf(t.full, shown[j].uid) IN
             IF t.sort \in DOMAIN Rows!Visible(t)
             THEN IF Rows!Key1(i) = Rows!Key1(j) THEN first ELSE (Rows!Key1(i) < Rows!Key1(j)) # t.desc
             ELSE first
  <2>1. Rows!Before(t, p(i), p(j))
    BY <1>2, <1>3, <1>8
  <2>2. Rows!IndexOf(t.full, shown[i].uid) < Rows!IndexOf(t.full, shown[j].uid) <=> p(i) < p(j)
    BY <1>3, <1>7
  <2>3. p(i) \in DOMAIN t.full /\ p(j) \in DOMAIN t.full
    BY <1>2, <1>3, <1>4
  <2>4. Rows!SortKey(t, p(i)) \in Int /\ Rows!SortKey(t, p(j)) \in Int
    BY <1>1, <2>3, KeysAreNumbers
  <2>5. t.sort \in DOMAIN Rows!Visible(t) => Rows!Key1(i) = Rows!SortKey(t, p(i)) /\ Rows!Key1(j) = Rows!SortKey(t, p(j))
    BY <1>3 DEF Rows!Key1, Rows!SortKey
  <2>6. t.sort \notin DOMAIN Rows!Visible(t) => Rows!SortKey(t, p(i)) = 0 /\ Rows!SortKey(t, p(j)) = 0
    BY DEF Rows!SortKey
  <2>7. CASE t.desc
    <3>1. t.desc = TRUE
      BY <1>1, <2>7 DEF Rows!Component
    <3>2. Rows!SortKey(t, p(i)) # Rows!SortKey(t, p(j)) => (Rows!SortKey(t, p(i)) < Rows!SortKey(t, p(j))) = FALSE
      BY <2>1, <2>4, <2>7 DEF Rows!Before
    <3>3. Rows!SortKey(t, p(i)) = Rows!SortKey(t, p(j)) => p(i) < p(j)
      BY <2>1 DEF Rows!Before
    <3> QED BY <2>2, <2>4, <2>5, <2>6, <3>1, <3>2, <3>3
  <2>8. CASE ~t.desc
    <3>1. t.desc = FALSE
      BY <1>1, <2>8 DEF Rows!Component
    <3> QED BY <2>1, <2>2, <2>4, <2>5, <2>6, <3>1 DEF Rows!Before
  <2> QED BY <2>7, <2>8
<1> QED BY <1>5, <1>6, <1>8, RowsCount DEF Rows!RowsAreTheLiveOnes


------------------------------- (* Menu *) ----------------------------------
HIDE OnScreenAssumption DEF Rows!TableAssumption

(* Menu's own instance of FiniteSets counts as FiniteSets does.             *)
LEMMA SidebarCount ==
  \A S : Sidebar!Cardinality(S) = Cardinality(S) /\ (Sidebar!IsFiniteSet(S) <=> IsFiniteSet(S))
BY DEF Sidebar!IsFiniteSet, IsFiniteSet, Sidebar!Cardinality, Cardinality

(* What the assumption says of the kinds.                                   *)
Written == Sidebar!Range(Extras)
LEMMA KindsAre ==
  /\ Sidebar!Range(Seed) \subseteq Sidebar!Kind /\ Written \subseteq Sidebar!Kind /\ Sidebar!Range(Customs) \subseteq Sidebar!Listable
  /\ Namespace \in Sidebar!Kind /\ Sidebar!None \notin Sidebar!Kind
  /\ \A k \in Sidebar!Range(Seed) : SectionOf[k] # Sidebar!Custom
  /\ Heights \subseteq Nat
BY OnScreenAssumption DEF Sidebar!MenuAssumption, Sidebar!Kind, Sidebar!Listable, Written

(* The entries of a list, and what it lists once E is authored, P pinned    *)
(* and D discovered.                                                        *)
KindsIn(list) == {list[i].kind : i \in DOMAIN list}
Once(list) == \A i, j \in DOMAIN list : list[i].kind = list[j].kind => i = j
Told(it, E, P, D) ==
  /\ (it.found <=> it.kind \in D) /\ (it.authored <=> it.kind \in E \ Sidebar!Range(Seed))
  /\ it.pinned => it.kind \in P \ (Sidebar!Range(Seed) \cup E)
  /\ it.kind \in P \ (Sidebar!Range(Seed) \cup E) /\ (SectionOf[it.kind] = Sidebar!Custom \/ ~it.found) => it.pinned
Accounted(list, E, P, D) ==
  /\ list \in Seq(Sidebar!Item) /\ Once(list) /\ \A i \in DOMAIN list : Told(list[i], E, P, D)
  /\ KindsIn(list) = Sidebar!Range(Seed) \cup E \cup P \cup D

LEMMA ItemsAre ==
  ASSUME NEW list \in Seq(Sidebar!Item)
  PROVE  /\ Len(list) \in Nat /\ DOMAIN list = 1 .. Len(list)
         /\ \A i \in DOMAIN list : /\ list[i] \in Sidebar!Item /\ list[i].kind \in Sidebar!Kind /\ list[i].kind \in KindsIn(list)
                                   /\ list[i].found \in BOOLEAN /\ list[i].pinned \in BOOLEAN
                                   /\ list[i].authored \in BOOLEAN
         /\ \A k : k \in Sidebar!Range(Sidebar!Kinds(list)) <=> k \in KindsIn(list)
<1>1. Len(list) \in Nat /\ DOMAIN list = 1 .. Len(list) /\ \A i \in DOMAIN list : list[i] \in Sidebar!Item
  OBVIOUS
<1>2. Sidebar!Range(Sidebar!Kinds(list)) = KindsIn(list)
  BY DEF Sidebar!Range, Sidebar!Kinds, KindsIn
<1> QED BY <1>1, <1>2 DEF Sidebar!Item, KindsIn

(* The greatest of some positions.                                          *)
LEMMA Greatest ==
  ASSUME NEW n \in Nat, NEW S, S \subseteq 0 .. n, S # {}
  PROVE  Sidebar!Max(S) \in S /\ \A x \in S : x <= Sidebar!Max(S)
<1> DEFINE T == {n - x : x \in S}
<1>1. T \subseteq Nat /\ T # {}
  <2>1. T \subseteq Nat
    OBVIOUS
  <2>2. PICK x \in S : TRUE
    OBVIOUS
  <2>3. n - x \in T
    OBVIOUS
  <2> QED BY <2>1, <2>3
<1>2. PICK y \in T : \A k \in T : y <= k
  <2> HIDE DEF T
  <2> QED BY <1>1, Least
<1>3. PICK x \in S : y = n - x
  OBVIOUS
<1>4. \A z \in S : x >= z
  <2> SUFFICES ASSUME NEW z \in S PROVE x >= z
    OBVIOUS
  <2>1. n - z \in T
    OBVIOUS
  <2>2. n - x <= n - z /\ x \in Int /\ z \in Int
    BY <1>2, <1>3, <2>1
  <2> QED BY <2>2
<1>5. \E u \in S : \A z \in S : u >= z
  BY <1>4
<1>6. Sidebar!Max(S) \in S /\ \A z \in S : Sidebar!Max(S) >= z
  BY <1>5, Zenon DEF Sidebar!Max
<1> QED BY <1>6

LEMMA Smallest ==
  ASSUME NEW S, S \subseteq Nat, S # {}
  PROVE  Sidebar!Min(S) \in S
<1>1. \E n \in S : \A k \in S : n <= k
  BY Least
<1> QED BY <1>1, Zenon DEF Sidebar!Min

(* insertExtra puts one entry somewhere among the others.                   *)
LEMMA InsertIs ==
  ASSUME NEW list \in Seq(Sidebar!Item), NEW it \in Sidebar!Item
  PROVE  /\ Sidebar!InsertExtra(list, it) \in Seq(Sidebar!Item) /\ Len(Sidebar!InsertExtra(list, it)) = Len(list) + 1
         /\ \E at \in 1 .. (Len(list) + 1) :
              \A i \in 1 .. (Len(list) + 1) :
                Sidebar!InsertExtra(list, it)[i] = IF i < at THEN list[i] ELSE IF i = at THEN it ELSE list[i - 1]
<1> DEFINE same == {i \in DOMAIN list : SectionOf[list[i].kind] = SectionOf[it.kind]}
           at == IF same = {} THEN Len(list) + 1 ELSE Sidebar!Max(same) + 1
           r == [i \in 1 .. Len(list) + 1 |-> IF i < at THEN list[i] ELSE IF i = at THEN it ELSE list[i - 1]]
<1>1. Len(list) \in Nat /\ DOMAIN list = 1 .. Len(list) /\ \A i \in DOMAIN list : list[i] \in Sidebar!Item
  OBVIOUS
<1>2. at \in 1 .. (Len(list) + 1)
  <2>1. same \subseteq 1 .. Len(list) /\ same \subseteq 0 .. Len(list)
    BY <1>1
  <2> HIDE DEF same
  <2>2. same # {} => Sidebar!Max(same) \in 1 .. Len(list)
    BY <1>1, <2>1, Greatest
  <2> QED BY <1>1, <2>2
<1>3. Sidebar!InsertExtra(list, it) = r
  BY DEF Sidebar!InsertExtra
<1> HIDE DEF at
<1>4. \A i \in 1 .. (Len(list) + 1) :
        (IF i < at THEN list[i] ELSE IF i = at THEN it ELSE list[i - 1]) \in Sidebar!Item
  <2> SUFFICES ASSUME NEW i \in 1 .. (Len(list) + 1)
               PROVE  (IF i < at THEN list[i] ELSE IF i = at THEN it ELSE list[i - 1]) \in Sidebar!Item
    OBVIOUS
  <2>1. i < at => i \in DOMAIN list
    BY <1>1, <1>2
  <2>2. i > at => i - 1 \in DOMAIN list
    BY <1>1, <1>2
  <2>3. i < at \/ i = at \/ i > at
    BY <1>2
  <2> QED BY <1>1, <2>1, <2>2, <2>3
<1>5. r \in Seq(Sidebar!Item) /\ Len(r) = Len(list) + 1
  BY <1>1, <1>4
<1>6. \A i \in 1 .. (Len(list) + 1) :
        r[i] = IF i < at THEN list[i] ELSE IF i = at THEN it ELSE list[i - 1]
  BY <1>1
<1> HIDE DEF r
<1> QED BY <1>2, <1>3, <1>5, <1>6

LEMMA InsertKeeps ==
  ASSUME NEW list \in Seq(Sidebar!Item), NEW it \in Sidebar!Item, it.kind \notin KindsIn(list)
  PROVE  LET r == Sidebar!InsertExtra(list, it) IN
         /\ r \in Seq(Sidebar!Item) /\ Len(r) = Len(list) + 1 /\ KindsIn(r) = KindsIn(list) \cup {it.kind}
         /\ \A i \in DOMAIN r : r[i] = it \/ \E j \in DOMAIN list : r[i] = list[j]
         /\ Once(list) => Once(r)
<1> DEFINE r == Sidebar!InsertExtra(list, it)
           n == Len(list)
<1>0. r \in Seq(Sidebar!Item) /\ Len(r) = n + 1
  BY InsertIs
<1>1. PICK at \in 1 .. (n + 1) : \A i \in 1 .. (n + 1) :
        r[i] = IF i < at THEN list[i] ELSE IF i = at THEN it ELSE list[i - 1]
  BY InsertIs
<1>2. n \in Nat /\ DOMAIN list = 1 .. n /\ DOMAIN r = 1 .. (n + 1)
  BY <1>0
<1> HIDE DEF r, n
<1> DEFINE old(i) == IF i < at THEN i ELSE i - 1
<1>3. r[at] = it
  BY <1>1, <1>2
<1>4. \A i \in 1 .. (n + 1) : i # at => old(i) \in 1 .. n /\ r[i] = list[old(i)]
  BY <1>1, <1>2
<1>5. \A i, j \in 1 .. (n + 1) : i # at /\ j # at /\ old(i) = old(j) => i = j
  BY <1>2
<1>6. \A j \in 1 .. n : \E i \in 1 .. (n + 1) : i # at /\ old(i) = j
  <2> SUFFICES ASSUME NEW j \in 1 .. n PROVE \E i \in 1 .. (n + 1) : i # at /\ old(i) = j
    OBVIOUS
  <2>1. CASE j < at
    <3>1. j \in 1 .. (n + 1) /\ j # at /\ old(j) = j
      BY <1>2, <2>1
    <3> QED BY <3>1
  <2>2. CASE ~(j < at)
    <3>1. j + 1 \in 1 .. (n + 1) /\ j + 1 # at /\ old(j + 1) = j
      BY <1>2, <2>2
    <3> QED BY <3>1
  <2> QED BY <2>1, <2>2
<1> HIDE DEF old
<1>7. KindsIn(r) = KindsIn(list) \cup {it.kind}
  <2>1. \A j \in DOMAIN list : \E i \in DOMAIN r : r[i] = list[j]
    BY <1>2, <1>4, <1>6
  <2>2. \A i \in DOMAIN r : r[i] = it \/ \E j \in DOMAIN list : r[i] = list[j]
    BY <1>2, <1>3, <1>4
  <2>3. \E i \in DOMAIN r : r[i] = it
    BY <1>2, <1>3
  <2> QED BY <2>1, <2>2, <2>3 DEF KindsIn
<1>8. \A i \in DOMAIN r : r[i] = it \/ \E j \in DOMAIN list : r[i] = list[j]
  BY <1>2, <1>3, <1>4
<1>9. ASSUME Once(list), NEW i \in DOMAIN r, NEW j \in DOMAIN r, r[i].kind = r[j].kind
      PROVE  i = j
  <2>1. \A k \in 1 .. n : list[k].kind # it.kind
    BY <1>2 DEF KindsIn
  <2>2. CASE i = at \/ j = at
    BY <1>2, <1>3, <1>4, <1>9, <2>1, <2>2
  <2>3. CASE i # at /\ j # at
    <3>1. old(i) = old(j)
      BY <1>2, <1>4, <1>9, <2>3 DEF Once
    <3> QED BY <1>2, <1>5, <2>3, <3>1
  <2> QED BY <2>2, <2>3
<1> QED BY <1>0, <1>7, <1>8, <1>9 DEF r, n, Once

(* One entry of the menu file: a kind that is listed already stays as it is.*)
LEMMA AuthoredKeeps ==
  ASSUME NEW E, NEW list, Accounted(list, E, {}, {}), NEW k \in Sidebar!Kind
  PROVE  Accounted(Sidebar!AddExtra(list, k, FALSE), E \cup {k}, {}, {})
<1> DEFINE it == Sidebar!ItemOf(k, TRUE, FALSE, FALSE)
           r == Sidebar!AddExtra(list, k, FALSE)
<1>0. list \in Seq(Sidebar!Item) /\ KindsIn(list) = Sidebar!Range(Seed) \cup E /\ Once(list)
  BY DEF Accounted
<1>1. CASE k \in KindsIn(list)
  <2>1. r = list
    <3>1. k \in Sidebar!Range(Sidebar!Kinds(list))
      BY <1>0, <1>1, ItemsAre
    <3>2. r = [i \in DOMAIN list |-> list[i]]
      BY <3>1 DEF Sidebar!AddExtra
    <3>3. list \in [1 .. Len(list) -> Sidebar!Item]
      BY <1>0
    <3>4. list = [i \in DOMAIN list |-> list[i]]
      BY <3>3
    <3> QED BY <3>2, <3>4
  <2>2. k \in Sidebar!Range(Seed) \cup E
    BY <1>0, <1>1
  <2>3. \A i \in DOMAIN list : Told(list[i], E \cup {k}, {}, {})
    <3>1. \A i \in DOMAIN list : Told(list[i], E, {}, {})
      BY DEF Accounted
    <3> QED BY <2>2, <3>1 DEF Told
  <2>4. KindsIn(list) = Sidebar!Range(Seed) \cup (E \cup {k}) \cup {} \cup {}
    BY <1>0, <2>2
  <2> HIDE DEF r
  <2> QED BY <1>0, <2>1, <2>3, <2>4 DEF Accounted, r
<1>2. CASE k \notin KindsIn(list)
  <2>1. r = Sidebar!InsertExtra(list, it)
    <3>1. k \notin Sidebar!Range(Sidebar!Kinds(list))
      BY <1>0, <1>2, ItemsAre
    <3> QED BY <3>1 DEF Sidebar!AddExtra
  <2>2. it \in Sidebar!Item /\ it.kind = k /\ it.authored = TRUE /\ it.pinned = FALSE /\ it.found = FALSE
    BY DEF Sidebar!ItemOf, Sidebar!Item
  <2> HIDE DEF r, it
  <2>3. /\ r \in Seq(Sidebar!Item) /\ KindsIn(r) = KindsIn(list) \cup {k} /\ Once(r)
        /\ \A i \in DOMAIN r : r[i] = it \/ \E j \in DOMAIN list : r[i] = list[j]
    BY <1>0, <1>2, <2>1, <2>2, InsertKeeps
  <2>4. Told(it, E \cup {k}, {}, {})
    BY <1>0, <1>2, <2>2 DEF Told
  <2>5. \A j \in DOMAIN list : Told(list[j], E \cup {k}, {}, {})
    <3>1. \A j \in DOMAIN list : list[j].kind # k /\ Told(list[j], E, {}, {})
      BY <1>2 DEF KindsIn, Accounted
    <3> QED BY <3>1 DEF Told
  <2>6. \A i \in DOMAIN r : Told(r[i], E \cup {k}, {}, {})
    BY <2>3, <2>4, <2>5
  <2>7. KindsIn(r) = Sidebar!Range(Seed) \cup (E \cup {k}) \cup {} \cup {}
    BY <1>0, <2>3
  <2> QED BY <2>3, <2>6, <2>7 DEF Accounted, r
<1> QED BY <1>1, <1>2

(* One pin: an entry that only discovery listed is marked.                  *)
LEMMA PinnedKeeps ==
  ASSUME NEW E, NEW P, NEW D, NEW list, Accounted(list, E, P, D), NEW k \in Sidebar!Kind
  PROVE  Accounted(Sidebar!AddExtra(list, k, TRUE), E, P \cup {k}, D)
<1> DEFINE it == Sidebar!ItemOf(k, FALSE, TRUE, FALSE)
           r == Sidebar!AddExtra(list, k, TRUE)
<1>0. list \in Seq(Sidebar!Item) /\ KindsIn(list) = Sidebar!Range(Seed) \cup E \cup P \cup D /\ Once(list)
  BY DEF Accounted
<1>1. CASE k \in KindsIn(list)
  <2> DEFINE new(i) == IF list[i].kind = k /\ Sidebar!HiddenByDefault(list[i])
                       THEN [list[i] EXCEPT !.pinned = TRUE] ELSE list[i]
  <2>1. r = [i \in DOMAIN list |-> new(i)]
    <3>1. k \in Sidebar!Range(Sidebar!Kinds(list))
      BY <1>0, <1>1, ItemsAre
    <3> QED BY <3>1 DEF Sidebar!AddExtra
  <2>2. \A i \in DOMAIN list :
          /\ new(i) \in Sidebar!Item /\ new(i).kind = list[i].kind /\ new(i).found = list[i].found
          /\ new(i).authored = list[i].authored
          /\ new(i).pinned = (list[i].pinned \/ (list[i].kind = k /\ Sidebar!HiddenByDefault(list[i])))
    <3> SUFFICES ASSUME NEW i \in DOMAIN list
                 PROVE  /\ new(i) \in Sidebar!Item /\ new(i).kind = list[i].kind /\ new(i).found = list[i].found
                        /\ new(i).authored = list[i].authored
                        /\ new(i).pinned = (list[i].pinned \/ (list[i].kind = k /\ Sidebar!HiddenByDefault(list[i])))
      OBVIOUS
    <3>1. list[i] \in Sidebar!Item /\ list[i].pinned \in BOOLEAN
      BY <1>0, ItemsAre
    <3>2. CASE list[i].kind = k /\ Sidebar!HiddenByDefault(list[i])
      BY <3>1, <3>2 DEF Sidebar!Item
    <3>3. CASE ~(list[i].kind = k /\ Sidebar!HiddenByDefault(list[i]))
      BY <3>1, <3>3
    <3> QED BY <3>2, <3>3
  <2> HIDE DEF new, r
  <2>3. r \in Seq(Sidebar!Item) /\ DOMAIN r = DOMAIN list
    <3>1. DOMAIN list = 1 .. Len(list) /\ Len(list) \in Nat
      BY <1>0
    <3> QED BY <2>1, <2>2, <3>1
  <2>4. \A i \in DOMAIN list : r[i] = new(i)
    BY <2>1
  <2>5. KindsIn(r) = KindsIn(list) /\ Once(r)
    BY <1>0, <2>2, <2>3, <2>4 DEF KindsIn, Once
  <2>6. ASSUME NEW i \in DOMAIN list PROVE Told(new(i), E, P \cup {k}, D)
    <3>1. /\ Told(list[i], E, P, D) /\ list[i].kind \in Sidebar!Range(Seed) \cup E \cup P \cup D
          /\ list[i].found \in BOOLEAN /\ list[i].pinned \in BOOLEAN /\ list[i].authored \in BOOLEAN
      BY <1>0, ItemsAre DEF Accounted
    <3>2. SectionOf[list[i].kind] = Sidebar!Custom => list[i].kind \notin Sidebar!Range(Seed)
      BY KindsAre
    <3>3. CASE list[i].kind # k
      BY <2>2, <3>1, <3>3 DEF Told
    <3>4. CASE list[i].kind = k /\ Sidebar!HiddenByDefault(list[i])
      BY <2>2, <3>1, <3>2, <3>4 DEF Told, Sidebar!HiddenByDefault
    <3>5. CASE list[i].kind = k /\ ~Sidebar!HiddenByDefault(list[i])
      BY <2>2, <3>1, <3>2, <3>5 DEF Told, Sidebar!HiddenByDefault
    <3> QED BY <3>3, <3>4, <3>5
  <2>7. \A i \in DOMAIN r : Told(r[i], E, P \cup {k}, D)
    BY <2>3, <2>4, <2>6
  <2>8. KindsIn(r) = Sidebar!Range(Seed) \cup E \cup (P \cup {k}) \cup D
    BY <1>0, <1>1, <2>5
  <2> QED BY <2>3, <2>5, <2>7, <2>8 DEF Accounted, r
<1>2. CASE k \notin KindsIn(list)
  <2>1. r = Sidebar!InsertExtra(list, it)
    <3>1. k \notin Sidebar!Range(Sidebar!Kinds(list))
      BY <1>0, <1>2, ItemsAre
    <3> QED BY <3>1 DEF Sidebar!AddExtra
  <2>2. it \in Sidebar!Item /\ it.kind = k /\ it.authored = FALSE /\ it.pinned = TRUE /\ it.found = FALSE
    BY DEF Sidebar!ItemOf, Sidebar!Item
  <2> HIDE DEF r, it
  <2>3. /\ r \in Seq(Sidebar!Item) /\ KindsIn(r) = KindsIn(list) \cup {k} /\ Once(r)
        /\ \A i \in DOMAIN r : r[i] = it \/ \E j \in DOMAIN list : r[i] = list[j]
    BY <1>0, <1>2, <2>1, <2>2, InsertKeeps
  <2>4. Told(it, E, P \cup {k}, D)
    BY <1>0, <1>2, <2>2 DEF Told
  <2>5. \A j \in DOMAIN list : Told(list[j], E, P \cup {k}, D)
    <3>1. \A j \in DOMAIN list : list[j].kind # k /\ Told(list[j], E, P, D)
      BY <1>2 DEF KindsIn, Accounted
    <3> QED BY <3>1 DEF Told
  <2>6. \A i \in DOMAIN r : Told(r[i], E, P \cup {k}, D)
    BY <2>3, <2>4, <2>5
  <2>7. KindsIn(r) = Sidebar!Range(Seed) \cup E \cup (P \cup {k}) \cup D
    BY <1>0, <2>3
  <2> QED BY <2>3, <2>6, <2>7 DEF Accounted, r
<1> QED BY <1>1, <1>2

(* The merge, one entry after another.                                      *)
Merges(list, ks, pinned, D) ==
  \E g : g = [i \in D |-> IF i = 0 THEN list ELSE Sidebar!AddExtra(g[i - 1], ks[i], pinned)]
MergedUpTo(list, ks, pinned) ==
  CHOOSE g : g = [i \in 0 .. Len(ks) |-> IF i = 0 THEN list ELSE Sidebar!AddExtra(g[i - 1], ks[i], pinned)]

LEMMA MergesExist ==
  ASSUME NEW list, NEW ks, NEW pinned, NEW m \in Nat
  PROVE  Merges(list, ks, pinned, 0 .. m)
<1> DEFINE T == {k \in Nat : Merges(list, ks, pinned, 0 .. k)}
<1>1. 0 \in T
  <2> DEFINE g == [i \in 0 .. 0 |-> list]
  <2>1. g = [i \in 0 .. 0 |-> IF i = 0 THEN list ELSE Sidebar!AddExtra(g[i - 1], ks[i], pinned)]
    OBVIOUS
  <2> QED BY <2>1 DEF Merges
<1>2. ASSUME NEW k \in T PROVE k + 1 \in T
  <2>1. PICK g : g = [i \in 0 .. k |-> IF i = 0 THEN list ELSE Sidebar!AddExtra(g[i - 1], ks[i], pinned)]
    BY DEF Merges
  <2> DEFINE h == [i \in 0 .. (k + 1) |-> IF i = k + 1 THEN Sidebar!AddExtra(g[k], ks[k + 1], pinned) ELSE g[i]]
  <2>2. ASSUME NEW i \in 0 .. (k + 1)
        PROVE  h[i] = IF i = 0 THEN list ELSE Sidebar!AddExtra(h[i - 1], ks[i], pinned)
    <3>1. CASE i = k + 1
      <4>1. k \in 0 .. (k + 1) /\ k # k + 1 /\ i # 0 /\ i - 1 = k
        BY <3>1
      <4>2. h[i - 1] = g[k] /\ h[i] = Sidebar!AddExtra(g[k], ks[k + 1], pinned)
        BY <3>1, <4>1
      <4> QED BY <3>1, <4>1, <4>2
    <3>2. CASE i # k + 1
      <4>1. i \in 0 .. k
        BY <3>2
      <4>2. h[i] = g[i]
        BY <3>2
      <4>3. g[i] = IF i = 0 THEN list ELSE Sidebar!AddExtra(g[i - 1], ks[i], pinned)
        BY <2>1, <4>1
      <4>4. i # 0 => h[i - 1] = g[i - 1]
        BY <4>1
      <4> QED BY <4>2, <4>3, <4>4
    <3> QED BY <3>1, <3>2
  <2>3. h = [i \in 0 .. (k + 1) |-> IF i = 0 THEN list ELSE Sidebar!AddExtra(h[i - 1], ks[i], pinned)]
    <3>1. h = [i \in 0 .. (k + 1) |-> h[i]]
      OBVIOUS
    <3> HIDE DEF h
    <3>2. [i \in 0 .. (k + 1) |-> h[i]]
            = [i \in 0 .. (k + 1) |-> IF i = 0 THEN list ELSE Sidebar!AddExtra(h[i - 1], ks[i], pinned)]
      BY <2>2
    <3> QED BY <3>1, <3>2
  <2> HIDE DEF h
  <2>4. Merges(list, ks, pinned, 0 .. (k + 1))
    BY <2>3, Zenon DEF Merges
  <2> QED BY <2>4
<1>3. T = Nat
  <2>1. T \subseteq Nat
    OBVIOUS
  <2> HIDE DEF T
  <2> QED BY <1>1, <1>2, <2>1, SetInduction
<1> QED BY <1>3

LEMMA MergedIs ==
  ASSUME NEW list, NEW ks, NEW pinned, Len(ks) \in Nat
  PROVE  /\ MergedUpTo(list, ks, pinned)[0] = list
         /\ \A i \in 1 .. Len(ks) :
              MergedUpTo(list, ks, pinned)[i] = Sidebar!AddExtra(MergedUpTo(list, ks, pinned)[i - 1], ks[i], pinned)
         /\ Sidebar!Merged(list, ks, pinned) = MergedUpTo(list, ks, pinned)[Len(ks)]
<1> DEFINE G == MergedUpTo(list, ks, pinned)
           m == Len(ks)
<1>1. Merges(list, ks, pinned, 0 .. m)
  BY MergesExist
<1>2. G = [i \in 0 .. m |-> IF i = 0 THEN list ELSE Sidebar!AddExtra(G[i - 1], ks[i], pinned)]
  BY <1>1, Zenon DEF MergedUpTo, Merges
<1>3. Sidebar!Merged(list, ks, pinned) = G[m]
  BY Zenon DEF Sidebar!Merged, MergedUpTo
<1> HIDE DEF G
<1>4. G[0] = list
  <2>1. 0 \in 0 .. m
    OBVIOUS
  <2> QED BY <1>2, <2>1
<1>5. ASSUME NEW i \in 1 .. m PROVE G[i] = Sidebar!AddExtra(G[i - 1], ks[i], pinned)
  <2>1. i \in 0 .. m /\ i # 0
    OBVIOUS
  <2> QED BY <1>2, <2>1
<1> QED BY <1>3, <1>4, <1>5 DEF G

Some(ks, n) == {ks[j] : j \in 1 .. n}
LEMMA OneMoreOf ==
  ASSUME NEW ks, NEW n \in Nat
  PROVE  Some(ks, 0) = {} /\ Some(ks, n + 1) = Some(ks, n) \cup {ks[n + 1]}
<1>1. 1 .. (n + 1) = (1 .. n) \cup {n + 1}
  OBVIOUS
<1> QED BY <1>1 DEF Some

LEMMA ExtrasMerged ==
  ASSUME NEW list, Accounted(list, {}, {}, {})
  PROVE  Accounted(Sidebar!Merged(list, Extras, FALSE), Written, {}, {})
<1> DEFINE g == MergedUpTo(list, Extras, FALSE)
           n == Len(Extras)
           T == {i \in Nat : i <= n => Accounted(g[i], Some(Extras, i), {}, {})}
<1>1. Extras \in Seq(Sidebar!Kind)
  BY OnScreenAssumption DEF Sidebar!MenuAssumption
<1>2. /\ n \in Nat /\ g[0] = list /\ (\A i \in 1 .. n : g[i] = Sidebar!AddExtra(g[i - 1], Extras[i], FALSE))
      /\ Sidebar!Merged(list, Extras, FALSE) = g[n] /\ \A i \in 1 .. n : Extras[i] \in Sidebar!Kind
  <2>1. Len(Extras) \in Nat /\ \A i \in 1 .. Len(Extras) : Extras[i] \in Sidebar!Kind
    BY <1>1
  <2>2. Len(Extras) = n /\ n \in Nat
    BY <2>1
  <2>3. PICK p : p = FALSE
    OBVIOUS
  <2>4. /\ MergedUpTo(list, Extras, p)[0] = list
        /\ \A i \in 1 .. Len(Extras) :
             MergedUpTo(list, Extras, p)[i] = Sidebar!AddExtra(MergedUpTo(list, Extras, p)[i - 1], Extras[i], p)
        /\ Sidebar!Merged(list, Extras, p) = MergedUpTo(list, Extras, p)[Len(Extras)]
    BY <2>1, MergedIs
  <2>5. g[0] = list /\ Sidebar!Merged(list, Extras, FALSE) = g[n]
    BY <2>3, <2>4
  <2>6. \A i \in 1 .. n : g[i] = Sidebar!AddExtra(g[i - 1], Extras[i], FALSE)
    BY <2>3, <2>4
  <2> QED BY <2>1, <2>2, <2>5, <2>6
<1>3. Written = Some(Extras, n)
  BY <1>1 DEF Written, Sidebar!Range, Some
<1> HIDE DEF g, n
<1>4. 0 \in T
  BY <1>2, OneMoreOf
<1>5. ASSUME NEW i \in T PROVE i + 1 \in T
  <2>1. SUFFICES ASSUME i + 1 <= n PROVE Accounted(g[i + 1], Some(Extras, i + 1), {}, {})
    OBVIOUS
  <2>2. i \in Nat /\ i + 1 \in 1 .. n /\ (i + 1) - 1 = i
    BY <1>2, <2>1
  <2>3. Accounted(g[i], Some(Extras, i), {}, {}) /\ Extras[i + 1] \in Sidebar!Kind
    BY <1>2, <2>1, <2>2
  <2>4. g[i + 1] = Sidebar!AddExtra(g[i], Extras[i + 1], FALSE)
    BY <1>2, <2>2
  <2>5. Accounted(Sidebar!AddExtra(g[i], Extras[i + 1], FALSE), Some(Extras, i) \cup {Extras[i + 1]}, {}, {})
    BY <2>3, AuthoredKeeps
  <2> QED BY <2>2, <2>4, <2>5, OneMoreOf
<1>6. T = Nat
  <2>1. T \subseteq Nat
    OBVIOUS
  <2> HIDE DEF T
  <2> QED BY <1>4, <1>5, <2>1, SetInduction
<1>7. n \in T
  <2> HIDE DEF T
  <2> QED BY <1>2, <1>6
<1>8. Accounted(g[n], Some(Extras, n), {}, {})
  BY <1>2, <1>7
<1> QED BY <1>2, <1>3, <1>8

LEMMA PinsMerged ==
  ASSUME NEW list, NEW E, NEW P, NEW D, Accounted(list, E, P, D), NEW ks \in Seq(Sidebar!Kind)
  PROVE  Accounted(Sidebar!Merged(list, ks, TRUE), E, P \cup Sidebar!Range(ks), D)
<1> DEFINE g == MergedUpTo(list, ks, TRUE)
           n == Len(ks)
           T == {i \in Nat : i <= n => Accounted(g[i], E, P \cup Some(ks, i), D)}
<1>2. /\ n \in Nat /\ g[0] = list /\ (\A i \in 1 .. n : g[i] = Sidebar!AddExtra(g[i - 1], ks[i], TRUE))
      /\ Sidebar!Merged(list, ks, TRUE) = g[n] /\ \A i \in 1 .. n : ks[i] \in Sidebar!Kind
  <2>1. Len(ks) \in Nat /\ \A i \in 1 .. Len(ks) : ks[i] \in Sidebar!Kind
    OBVIOUS
  <2>2. Len(ks) = n /\ n \in Nat
    BY <2>1
  <2>3. PICK p : p = TRUE
    OBVIOUS
  <2>4. /\ MergedUpTo(list, ks, p)[0] = list
        /\ \A i \in 1 .. Len(ks) :
             MergedUpTo(list, ks, p)[i] = Sidebar!AddExtra(MergedUpTo(list, ks, p)[i - 1], ks[i], p)
        /\ Sidebar!Merged(list, ks, p) = MergedUpTo(list, ks, p)[Len(ks)]
    BY <2>1, MergedIs
  <2>5. g[0] = list /\ Sidebar!Merged(list, ks, TRUE) = g[n]
    BY <2>3, <2>4
  <2>6. \A i \in 1 .. n : g[i] = Sidebar!AddExtra(g[i - 1], ks[i], TRUE)
    BY <2>3, <2>4
  <2> QED BY <2>1, <2>2, <2>5, <2>6
<1>3. Sidebar!Range(ks) = Some(ks, n)
  BY DEF Sidebar!Range, Some
<1> HIDE DEF g, n
<1>4. 0 \in T
  <2>1. P \cup Some(ks, 0) = P
    BY OneMoreOf
  <2> QED BY <1>2, <2>1
<1>5. ASSUME NEW i \in T PROVE i + 1 \in T
  <2>1. SUFFICES ASSUME i + 1 <= n PROVE Accounted(g[i + 1], E, P \cup Some(ks, i + 1), D)
    OBVIOUS
  <2>2. i \in Nat /\ i + 1 \in 1 .. n /\ (i + 1) - 1 = i
    BY <1>2, <2>1
  <2>3. Accounted(g[i], E, P \cup Some(ks, i), D) /\ ks[i + 1] \in Sidebar!Kind
    BY <1>2, <2>1, <2>2
  <2>4. g[i + 1] = Sidebar!AddExtra(g[i], ks[i + 1], TRUE)
    BY <1>2, <2>2
  <2>5. Accounted(Sidebar!AddExtra(g[i], ks[i + 1], TRUE), E, (P \cup Some(ks, i)) \cup {ks[i + 1]}, D)
    BY <2>3, PinnedKeeps
  <2>6. (P \cup Some(ks, i)) \cup {ks[i + 1]} = P \cup Some(ks, i + 1)
    BY <2>2, OneMoreOf
  <2> QED BY <2>4, <2>5, <2>6
<1>6. T = Nat
  <2>1. T \subseteq Nat
    OBVIOUS
  <2> HIDE DEF T
  <2> QED BY <1>4, <1>5, <2>1, SetInduction
<1>7. n \in T
  <2> HIDE DEF T
  <2> QED BY <1>2, <1>6
<1>8. Accounted(g[n], E, P \cup Some(ks, n), D)
  BY <1>2, <1>7
<1> QED BY <1>2, <1>3, <1>8

(* Positions in order: every place has its position and every position its  *)
(* place.                                                                   *)
LEMMA NthIs ==
  ASSUME NEW n \in Nat, NEW S, S \subseteq 1 .. n
  PROVE  /\ Cardinality(S) \in Nat
         /\ \A k \in 1 .. Cardinality(S) : Sidebar!Nth(S, k) \in S
         /\ \A k, l \in 1 .. Cardinality(S) : Sidebar!Nth(S, k) = Sidebar!Nth(S, l) => k = l
         /\ \A i \in S : \E k \in 1 .. Cardinality(S) : Sidebar!Nth(S, k) = i
<1> DEFINE c == Cardinality(S)
           B(i) == {j \in S : j < i}
           f == [i \in S |-> Cardinality(B(i))]
<1>0. IsFiniteSet(S) /\ c \in Nat /\ \A i \in S : i \in Nat
  <2>1. IsFiniteSet(1 .. n)
    BY FS_Interval
  <2>2. IsFiniteSet(S) /\ Cardinality(S) \in Nat
    BY <2>1, FewerElements
  <2>3. \A i \in S : i \in Nat
    OBVIOUS
  <2> QED BY <2>2, <2>3
<1>1. \A i \in S : /\ B(i) \subseteq S /\ i \notin B(i)
                   /\ IsFiniteSet(B(i)) /\ Cardinality(B(i)) \in Nat
  BY <1>0, FewerElements
<1>2. \A i \in S : Cardinality(B(i)) \in 0 .. (c - 1)
  <2> SUFFICES ASSUME NEW i \in S PROVE Cardinality(B(i)) \in 0 .. (c - 1)
    OBVIOUS
  <2>1. B(i) \subseteq S /\ B(i) # S /\ Cardinality(B(i)) \in Nat
    BY <1>1
  <2> HIDE DEF B
  <2>2. Cardinality(B(i)) < Cardinality(S)
    BY <1>0, <2>1, FewerElements
  <2> QED BY <1>0, <2>1, <2>2
<1>3. \A i, j \in S : i < j => Cardinality(B(i)) < Cardinality(B(j))
  <2> SUFFICES ASSUME NEW i \in S, NEW j \in S, i < j PROVE Cardinality(B(i)) < Cardinality(B(j))
    OBVIOUS
  <2>1. B(i) \subseteq B(j) /\ i \in B(j) /\ i \notin B(i)
    <3>1. \A k \in S : k \in Int
      BY <1>0
    <3>2. \A k \in S : k < i => k < j
      BY <3>1
    <3>3. ~(i < i)
      BY <3>1
    <3> QED BY <3>2, <3>3
  <2>2. IsFiniteSet(B(j))
    BY <1>1
  <2> HIDE DEF B
  <2> QED BY <2>1, <2>2, FewerElements
<1>4. \A i, j \in S : Cardinality(B(i)) = Cardinality(B(j)) => i = j
  <2> SUFFICES ASSUME NEW i \in S, NEW j \in S, Cardinality(B(i)) = Cardinality(B(j)) PROVE i = j
    OBVIOUS
  <2>1. Cardinality(B(i)) \in Nat /\ Cardinality(B(j)) \in Nat
    BY <1>1
  <2> HIDE DEF B
  <2>2. ~(i < j) /\ ~(j < i)
    BY <1>3, <2>1
  <2> QED BY <1>0, <2>2
<1> HIDE DEF B
<1>5. f \in Injection(S, 0 .. (c - 1))
  <2>1. f \in [S -> 0 .. (c - 1)]
    BY <1>2
  <2>2. \A i, j \in S : f[i] = f[j] => i = j
    BY <1>4
  <2> HIDE DEF f
  <2> QED BY <2>1, <2>2 DEF Injection, IsInjective
<1>6. IsFiniteSet(0 .. (c - 1)) /\ Cardinality(0 .. (c - 1)) = c
  <2> HIDE DEF c
  <2> QED BY <1>0, FS_Interval
<1>7. f \in Surjection(S, 0 .. (c - 1))
  <2> HIDE DEF f
  <2>1. Cardinality(S) = Cardinality(0 .. (c - 1))
    BY <1>6
  <2> QED BY <1>5, <1>6, <2>1, FS_Injection
<1>8. \A r \in 0 .. (c - 1) : \E i \in S : Cardinality(B(i)) = r
  BY <1>7 DEF Surjection
<1> HIDE DEF c, f
<1>9. \A k \in 1 .. c : Sidebar!Nth(S, k) \in S /\ Cardinality(B(Sidebar!Nth(S, k))) = k - 1
  <2> SUFFICES ASSUME NEW k \in 1 .. c
               PROVE  Sidebar!Nth(S, k) \in S /\ Cardinality(B(Sidebar!Nth(S, k))) = k - 1
    OBVIOUS
  <2>1. k - 1 \in 0 .. (c - 1)
    BY <1>0
  <2>2. \E i \in S : Cardinality(B(i)) = k - 1
    BY <1>8, <2>1
  <2> QED BY <2>2, SidebarCount DEF Sidebar!Nth, B
<1>10. \A k, l \in 1 .. c : Sidebar!Nth(S, k) = Sidebar!Nth(S, l) => k = l
  BY <1>0, <1>9
<1>11. \A i \in S : \E k \in 1 .. c : Sidebar!Nth(S, k) = i
  <2> SUFFICES ASSUME NEW i \in S PROVE \E k \in 1 .. c : Sidebar!Nth(S, k) = i
    OBVIOUS
  <2>1. Cardinality(B(i)) + 1 \in 1 .. c /\ Cardinality(B(i)) \in Int
    BY <1>0, <1>2
  <2>2. /\ Sidebar!Nth(S, Cardinality(B(i)) + 1) \in S
        /\ Cardinality(B(Sidebar!Nth(S, Cardinality(B(i)) + 1))) = Cardinality(B(i))
    BY <1>9, <2>1
  <2>3. Sidebar!Nth(S, Cardinality(B(i)) + 1) = i
    BY <1>4, <2>2
  <2> QED BY <2>1, <2>3
<1> QED BY <1>0, <1>9, <1>10, <1>11 DEF c

(* A step of a derivation changes the cursor, or the offset, or the items.  *)
Besides(a, b) ==
  a.full = b.full /\ a.items = b.items /\ a.filter = b.filter /\ a.active = b.active /\ a.height = b.height
OnList(m) == m.items # <<>> => m.cursor + 1 \in DOMAIN m.items
InSight(m) == m.height >= 2 => Sidebar!RowOf(m, m.cursor + 1) \in m.offset .. (m.offset + m.height - 1)
Steady(m) == m \in Sidebar!Component /\ OnList(m) /\ (m.items # <<>> => InSight(m))

LEMMA ComponentIs ==
  ASSUME NEW m \in Sidebar!Component
  PROVE  /\ m.full \in Seq(Sidebar!Item) /\ m.items \in Seq(Sidebar!Kind) /\ m.filter \in {Sidebar!NoFilter} \cup Queries
         /\ m.active \in Sidebar!Listable \cup {Sidebar!None} /\ m.cursor \in Int /\ m.offset \in Nat
         /\ m.height \in Heights /\ m.height \in Nat
BY KindsAre DEF Sidebar!Component

LEMMA OffsetSet ==
  ASSUME NEW m \in Sidebar!Component, NEW o \in Nat
  PROVE  /\ [m EXCEPT !.offset = o] \in Sidebar!Component /\ Besides([m EXCEPT !.offset = o], m)
         /\ [m EXCEPT !.offset = o].cursor = m.cursor /\ [m EXCEPT !.offset = o].offset = o
BY DEF Sidebar!Component, Besides

LEMMA CursorSet ==
  ASSUME NEW m \in Sidebar!Component, NEW c \in Int
  PROVE  /\ [m EXCEPT !.cursor = c] \in Sidebar!Component /\ Besides([m EXCEPT !.cursor = c], m)
         /\ [m EXCEPT !.cursor = c].cursor = c /\ [m EXCEPT !.cursor = c].offset = m.offset
BY DEF Sidebar!Component, Besides

LEMMA SameItems ==
  ASSUME NEW a, NEW b, a.items = b.items
  PROVE  \A i : (Sidebar!Headed(a, i) <=> Sidebar!Headed(b, i)) /\ Sidebar!RowOf(a, i) = Sidebar!RowOf(b, i)
<1>1. \A i : Sidebar!Headed(a, i) <=> Sidebar!Headed(b, i)
  BY Zenon DEF Sidebar!Headed
<1>2. \A i : {j \in 1 .. i : Sidebar!Headed(a, j)} = {j \in 1 .. i : Sidebar!Headed(b, j)}
  BY <1>1
<1> QED BY <1>1, <1>2, SidebarCount DEF Sidebar!RowOf

LEMMA RowsAre ==
  ASSUME NEW m, NEW i \in Nat, i > 0
  PROVE  Sidebar!RowOf(m, i) \in Nat /\ (Sidebar!Headed(m, i) => Sidebar!RowOf(m, i) > 0)
<1> DEFINE H == {j \in 1 .. i : Sidebar!Headed(m, j)}
<1>1. IsFiniteSet(1 .. i) /\ H \subseteq 1 .. i
  BY FS_Interval
<1>2. IsFiniteSet(H) /\ Cardinality(H) \in Nat
  <2> HIDE DEF H
  <2> QED BY <1>1, FewerElements
<1>3. Sidebar!Headed(m, i) => H # {}
  OBVIOUS
<1> HIDE DEF H
<1>4. Sidebar!Headed(m, i) => Cardinality(H) > 0
  BY <1>2, <1>3, FS_EmptySet
<1>5. Sidebar!RowOf(m, i) = i - 1 + Cardinality(H)
  BY SidebarCount DEF Sidebar!RowOf, H
<1> QED BY <1>2, <1>4, <1>5

LEMMA RowCountIs ==
  ASSUME NEW m \in Sidebar!Component PROVE Sidebar!RowCount(m) \in Nat
<1>1. Len(m.items) \in Nat
  BY ComponentIs
<1>2. Len(m.items) # 0 => Sidebar!RowOf(m, Len(m.items)) \in Nat
  BY <1>1, RowsAre
<1> HIDE DEF Sidebar!HiddenCustom
<1> QED BY <1>1, <1>2 DEF Sidebar!RowCount

LEMMA ScrolledIs ==
  ASSUME NEW m \in Sidebar!Component
  PROVE  /\ Sidebar!Scrolled(m) \in Sidebar!Component /\ Besides(Sidebar!Scrolled(m), m) /\ Sidebar!Scrolled(m).cursor = m.cursor
         /\ m.cursor + 1 \in DOMAIN m.items => InSight(Sidebar!Scrolled(m))
<1>1. CASE m.cursor + 1 \notin DOMAIN m.items
  <2>1. Sidebar!Scrolled(m) = m
    BY <1>1 DEF Sidebar!Scrolled
  <2> QED BY <1>1, <2>1 DEF Besides
<1>2. CASE m.cursor + 1 \in DOMAIN m.items
  <2> DEFINE cr == Sidebar!RowOf(m, m.cursor + 1)
             top == IF Sidebar!Headed(m, m.cursor + 1) THEN cr - 1 ELSE cr
             o == IF m.height = 0 THEN cr ELSE IF top < m.offset THEN top
                  ELSE IF cr >= m.offset + m.height THEN cr - m.height + 1 ELSE m.offset
  <2>1. m.cursor + 1 \in Nat /\ m.cursor + 1 > 0 /\ m.offset \in Nat /\ m.height \in Nat
    <3>1. m.cursor + 1 \in 1 .. Len(m.items) /\ Len(m.items) \in Nat
      BY <1>2, ComponentIs
    <3> QED BY <3>1, ComponentIs
  <2>2. cr \in Nat /\ top \in Nat /\ top <= cr /\ cr - 1 <= top
    BY <2>1, RowsAre
  <2> HIDE DEF cr, top
  <2>3. o \in Nat /\ (m.height >= 2 => cr \in o .. (o + m.height - 1))
    BY <2>1, <2>2
  <2>4. Sidebar!Scrolled(m) = [m EXCEPT !.offset = o]
    BY <1>2 DEF Sidebar!Scrolled, cr, top
  <2> HIDE DEF o
  <2>5. /\ Sidebar!Scrolled(m) \in Sidebar!Component /\ Besides(Sidebar!Scrolled(m), m) /\ Sidebar!Scrolled(m).cursor = m.cursor
        /\ Sidebar!Scrolled(m).offset = o
    BY <2>3, <2>4, OffsetSet
  <2>6. Sidebar!RowOf(Sidebar!Scrolled(m), Sidebar!Scrolled(m).cursor + 1) = cr /\ Sidebar!Scrolled(m).height = m.height
    BY <2>5, SameItems DEF cr, Besides
  <2> QED BY <2>3, <2>5, <2>6 DEF InSight
<1> QED BY <1>1, <1>2

LEMMA ClampedIs ==
  ASSUME NEW m \in Sidebar!Component, OnList(m)
  PROVE  /\ Steady(Sidebar!ClampOffset(m)) /\ Besides(Sidebar!ClampOffset(m), m) /\ Sidebar!ClampOffset(m).cursor = m.cursor
<1> DEFINE o == Sidebar!Smaller(m.offset, Sidebar!Larger(0, Sidebar!RowCount(m) - m.height))
           c == [m EXCEPT !.offset = o]
<1>1. Sidebar!RowCount(m) \in Nat /\ m.height \in Nat /\ m.offset \in Nat
  BY RowCountIs, ComponentIs
<1>2. o \in Nat
  BY <1>1 DEF Sidebar!Smaller, Sidebar!Larger
<1> HIDE DEF o
<1>3. c \in Sidebar!Component /\ Besides(c, m) /\ c.cursor = m.cursor
  BY <1>2, OffsetSet
<1>4. Sidebar!ClampOffset(m) = Sidebar!Scrolled(c)
  BY DEF Sidebar!ClampOffset, o
<1> HIDE DEF c
<1>5. /\ Sidebar!Scrolled(c) \in Sidebar!Component /\ Besides(Sidebar!Scrolled(c), c) /\ Sidebar!Scrolled(c).cursor = c.cursor
      /\ c.cursor + 1 \in DOMAIN c.items => InSight(Sidebar!Scrolled(c))
  BY <1>3, ScrolledIs
<1> QED BY <1>3, <1>4, <1>5 DEF Steady, Besides, OnList

LEMMA MovedIs ==
  ASSUME NEW m \in Sidebar!Component, NEW i \in Int
  PROVE  Steady(Sidebar!MoveTo(m, i)) /\ Besides(Sidebar!MoveTo(m, i), m)
<1> DEFINE c == Sidebar!Smaller(Sidebar!Larger(i, 0), Len(m.items) - 1)
           n == [m EXCEPT !.cursor = c]
<1>1. Len(m.items) \in Nat /\ DOMAIN m.items = 1 .. Len(m.items) /\ (m.items # <<>> => Len(m.items) > 0)
  BY ComponentIs
<1>2. c \in Int /\ (m.items # <<>> => c + 1 \in DOMAIN m.items)
  BY <1>1 DEF Sidebar!Smaller, Sidebar!Larger
<1> HIDE DEF c
<1>3. n \in Sidebar!Component /\ Besides(n, m) /\ n.cursor = c
  BY <1>2, CursorSet
<1>4. Sidebar!MoveTo(m, i) = Sidebar!Scrolled(n)
  BY DEF Sidebar!MoveTo, c
<1> HIDE DEF n
<1>5. /\ Sidebar!Scrolled(n) \in Sidebar!Component /\ Besides(Sidebar!Scrolled(n), n) /\ Sidebar!Scrolled(n).cursor = n.cursor
      /\ n.cursor + 1 \in DOMAIN n.items => InSight(Sidebar!Scrolled(n))
  BY <1>3, ScrolledIs
<1> QED BY <1>2, <1>3, <1>4, <1>5 DEF Steady, Besides, OnList

(* restoreSelection finds the kind if it is there, and stays on the list.   *)
LEMMA RestoredIs ==
  ASSUME NEW m \in Sidebar!Component, NEW k
  PROVE  LET r == Sidebar!RestoreSelection(m, k) IN
         /\ r \in Sidebar!Component /\ Besides(r, m) /\ OnList(r)
         /\ k \in Sidebar!Range(m.items) => r.items[r.cursor + 1] = k
<1> DEFINE r == Sidebar!RestoreSelection(m, k)
<1>0. /\ Len(m.items) \in Nat /\ DOMAIN m.items = 1 .. Len(m.items) /\ m.cursor \in Int
      /\ (m.items # <<>> => Len(m.items) > 0)
  BY ComponentIs
<1>1. CASE k \in Sidebar!Range(m.items)
  <2> DEFINE c == CHOOSE i \in 0 .. Len(m.items) - 1 : m.items[i + 1] = k
  <2>1. \E i \in 0 .. Len(m.items) - 1 : m.items[i + 1] = k
    <3>1. PICK j \in DOMAIN m.items : m.items[j] = k
      BY <1>1 DEF Sidebar!Range
    <3>2. j - 1 \in 0 .. Len(m.items) - 1 /\ (j - 1) + 1 = j
      BY <1>0
    <3> QED BY <3>1, <3>2
  <2>2. c \in 0 .. Len(m.items) - 1 /\ m.items[c + 1] = k
    BY <2>1
  <2>3. r = [m EXCEPT !.cursor = c]
    BY <1>1 DEF Sidebar!RestoreSelection
  <2> HIDE DEF c, r
  <2>4. c \in Int /\ c + 1 \in DOMAIN m.items
    BY <1>0, <2>2
  <2>5. r \in Sidebar!Component /\ Besides(r, m) /\ r.cursor = c
    BY <2>3, <2>4, CursorSet
  <2>6. r.items = m.items
    BY <2>5 DEF Besides
  <2> QED BY <2>2, <2>4, <2>5, <2>6 DEF r, OnList
<1>2. CASE k \notin Sidebar!Range(m.items)
  <2>1. CASE m.items = <<>> \/ m.cursor < 0
    <3>1. r = Sidebar!MoveTo(m, 0)
      BY <1>2, <2>1 DEF Sidebar!RestoreSelection
    <3> QED BY <1>2, <3>1, MovedIs DEF Steady
  <2>2. CASE ~(m.items = <<>> \/ m.cursor < 0) /\ m.cursor >= Len(m.items)
    <3>1. r = Sidebar!MoveTo(m, Len(m.items) - 1)
      BY <1>2, <2>2 DEF Sidebar!RestoreSelection
    <3>2. Len(m.items) - 1 \in Int
      BY <1>0
    <3> QED BY <1>2, <3>1, <3>2, MovedIs DEF Steady
  <2>3. CASE ~(m.items = <<>> \/ m.cursor < 0) /\ ~(m.cursor >= Len(m.items))
    <3>1. r = m
      BY <1>2, <2>3 DEF Sidebar!RestoreSelection
    <3>2. m.cursor + 1 \in DOMAIN m.items
      BY <1>0, <2>3
    <3> QED BY <1>2, <3>1, <3>2 DEF OnList, Besides
  <2> QED BY <2>1, <2>2, <2>3
<1> QED BY <1>1, <1>2

(* What a filter leaves out, or what is hidden without one.                 *)
LEMMA DerivedIs ==
  ASSUME NEW m \in Sidebar!Component
  PROVE  LET d == Sidebar!Derived(m) IN
         /\ d \in Sidebar!Component /\ d.full = m.full /\ d.filter = m.filter /\ d.active = m.active
         /\ d.height = m.height /\ d.cursor = m.cursor
         /\ Sidebar!Range(d.items) = {m.full[i].kind : i \in Sidebar!Displayed(m)}
<1> DEFINE S == Sidebar!Displayed(m)
           n == Cardinality(S)
           items == [k \in 1 .. n |-> m.full[Sidebar!Nth(S, k)].kind]
<1>1. /\ Len(m.full) \in Nat /\ S \subseteq 1 .. Len(m.full)
      /\ \A i \in S : m.full[i].kind \in Sidebar!Kind
  <2>1. m.full \in Seq(Sidebar!Item)
    BY ComponentIs
  <2>2. S \subseteq DOMAIN m.full
    BY DEF Sidebar!Displayed
  <2> HIDE DEF S
  <2> QED BY <2>1, <2>2, ItemsAre
<1> HIDE DEF S
<1>2. /\ n \in Nat /\ (\A k \in 1 .. n : Sidebar!Nth(S, k) \in S)
      /\ \A i \in S : \E k \in 1 .. n : Sidebar!Nth(S, k) = i
  BY <1>1, NthIs
<1> HIDE DEF n
<1>3. items \in Seq(Sidebar!Kind)
  BY <1>1, <1>2
<1>4. Sidebar!Range(items) = {m.full[i].kind : i \in S}
  BY <1>2 DEF Sidebar!Range
<1>5. Sidebar!Derived(m) = [m EXCEPT !.items = items]
  BY SidebarCount DEF Sidebar!Derived, S, n
<1> HIDE DEF items
<1>6. /\ [m EXCEPT !.items = items] \in Sidebar!Component /\ [m EXCEPT !.items = items].full = m.full
      /\ [m EXCEPT !.items = items].filter = m.filter /\ [m EXCEPT !.items = items].active = m.active
      /\ [m EXCEPT !.items = items].height = m.height /\ [m EXCEPT !.items = items].cursor = m.cursor
      /\ [m EXCEPT !.items = items].items = items
  BY <1>3 DEF Sidebar!Component
<1> QED BY <1>4, <1>5, <1>6 DEF S

OnShow(m, E, P, D) ==
  m.filter = Sidebar!NoFilter =>
    Sidebar!Range(m.items) = {k \in Sidebar!Range(Seed) \cup E \cup P \cup D :
                                SectionOf[k] # Sidebar!Custom \/ k \in E \cup P \/ k = m.active}

LEMMA DerivedShows ==
  ASSUME NEW m \in Sidebar!Component, NEW E, NEW P, NEW D, Accounted(m.full, E, P, D)
  PROVE  OnShow(Sidebar!Derived(m), E, P, D)
<1> DEFINE d == Sidebar!Derived(m)
           displays(k) == SectionOf[k] # Sidebar!Custom \/ k \in E \cup P \/ k = m.active
<1>1. /\ d.filter = m.filter /\ d.active = m.active
      /\ Sidebar!Range(d.items) = {m.full[i].kind : i \in Sidebar!Displayed(m)}
  BY DerivedIs
<1> HIDE DEF d
<1> SUFFICES ASSUME m.filter = Sidebar!NoFilter
             PROVE  Sidebar!Range(d.items) = {k \in Sidebar!Range(Seed) \cup E \cup P \cup D : displays(k)}
  BY <1>1 DEF OnShow, d
<1>2. Sidebar!Displayed(m) = {i \in DOMAIN m.full : ~Sidebar!Hides(m, m.full[i])}
  BY DEF Sidebar!Displayed
<1>3. \A i \in DOMAIN m.full : Sidebar!Hides(m, m.full[i]) <=> ~displays(m.full[i].kind)
  <2> SUFFICES ASSUME NEW i \in DOMAIN m.full PROVE Sidebar!Hides(m, m.full[i]) <=> ~displays(m.full[i].kind)
    OBVIOUS
  <2>1. /\ Told(m.full[i], E, P, D) /\ m.full[i].pinned \in BOOLEAN /\ m.full[i].authored \in BOOLEAN
    BY ItemsAre DEF Accounted
  <2>2. SectionOf[m.full[i].kind] = Sidebar!Custom => m.full[i].kind \notin Sidebar!Range(Seed)
    BY KindsAre
  <2> QED BY <2>1, <2>2 DEF Told, Sidebar!Hides, Sidebar!HiddenByDefault
<1>4. KindsIn(m.full) = Sidebar!Range(Seed) \cup E \cup P \cup D
  BY DEF Accounted
<1> HIDE DEF displays
<1> QED BY <1>1, <1>2, <1>3, <1>4 DEF KindsIn

(* selectionRef, applyFilter, restoreSelection, clamp.                      *)
LEMMA ReappliedIs ==
  ASSUME NEW m \in Sidebar!Component, NEW k
  PROVE  LET r == Sidebar!Reapply(m, k) IN
         /\ Steady(r) /\ r.full = m.full /\ r.filter = m.filter /\ r.active = m.active
         /\ r.height = m.height /\ r.items = Sidebar!Derived(m).items
         /\ k \in Sidebar!Range(r.items) => r.items[r.cursor + 1] = k
<1> DEFINE d == Sidebar!Derived(m)
           s == Sidebar!RestoreSelection(d, k)
           r == Sidebar!ClampOffset(s)
<1>1. /\ d \in Sidebar!Component /\ d.full = m.full /\ d.filter = m.filter /\ d.active = m.active
      /\ d.height = m.height
  BY DerivedIs
<1> HIDE DEF d
<1>2. /\ s \in Sidebar!Component /\ Besides(s, d) /\ OnList(s)
      /\ k \in Sidebar!Range(d.items) => s.items[s.cursor + 1] = k
  BY <1>1, RestoredIs
<1> HIDE DEF s
<1>3. Steady(r) /\ Besides(r, s) /\ r.cursor = s.cursor
  BY <1>2, ClampedIs
<1>4. Sidebar!Reapply(m, k) = r
  BY DEF Sidebar!Reapply, s, d
<1> HIDE DEF r
<1> QED BY <1>1, <1>2, <1>3, <1>4 DEF Besides, d

LEMMA ReappliedShows ==
  ASSUME NEW m \in Sidebar!Component, NEW k, NEW E, NEW P, NEW D, Accounted(m.full, E, P, D)
  PROVE  /\ Steady(Sidebar!Reapply(m, k)) /\ Sidebar!Reapply(m, k).full = m.full /\ OnShow(Sidebar!Reapply(m, k), E, P, D)
         /\ Sidebar!Reapply(m, k).active = m.active /\ Sidebar!Reapply(m, k).filter = m.filter
         /\ k \in Sidebar!Range(Sidebar!Reapply(m, k).items) => Sidebar!SelectionRef(Sidebar!Reapply(m, k)) = k
<1> DEFINE r == Sidebar!Reapply(m, k)
<1>1. /\ Steady(r) /\ r.full = m.full /\ r.filter = m.filter /\ r.active = m.active
      /\ r.items = Sidebar!Derived(m).items
      /\ k \in Sidebar!Range(r.items) => r.items[r.cursor + 1] = k
  BY ReappliedIs
<1>2. Sidebar!Derived(m).filter = m.filter /\ Sidebar!Derived(m).active = m.active
  BY DerivedIs
<1>3. OnShow(Sidebar!Derived(m), E, P, D)
  BY DerivedShows
<1> HIDE DEF r
<1>4. OnShow(r, E, P, D)
  BY <1>1, <1>2, <1>3 DEF OnShow
<1>5. k \in Sidebar!Range(r.items) => Sidebar!SelectionRef(r) = k
  <2>1. k \in Sidebar!Range(r.items) => r.items # <<>>
    BY DEF Sidebar!Range
  <2> QED BY <1>1, <2>1 DEF Sidebar!SelectionRef
<1> QED BY <1>1, <1>4, <1>5 DEF r

(* The invariant, part by part.                                             *)
SidebarHeld ==
  /\ Steady(sidebar) /\ Accounted(sidebar.full, Written, pins, discovered)
  /\ OnShow(sidebar, Written, pins, discovered) /\ pins \subseteq Sidebar!Listable /\ discovered \subseteq Sidebar!Listable

LEMMA SidebarInvIs == Sidebar!Inv <=> SidebarHeld
<1>1. ASSUME NEW it \in Sidebar!Item PROVE Sidebar!Marked(it) <=> Told(it, Written, pins, discovered)
  <2>1. it.found \in BOOLEAN /\ it.authored \in BOOLEAN
    BY DEF Sidebar!Item
  <2>2. (it.found = (it.kind \in discovered)) <=> (it.found <=> it.kind \in discovered)
    BY <2>1
  <2>3. (it.authored = (it.kind \in Written \ Sidebar!Range(Seed)))
          <=> (it.authored <=> it.kind \in Written \ Sidebar!Range(Seed))
    BY <2>1
  <2>4. Sidebar!Range(Seed) \cup (Written \ Sidebar!Range(Seed)) = Sidebar!Range(Seed) \cup Written
    OBVIOUS
  <2> QED BY <2>2, <2>3, <2>4 DEF Sidebar!Marked, Told, Written
<1>2. Sidebar!CursorInView <=> OnList(sidebar) /\ (sidebar.items # <<>> => InSight(sidebar))
  BY DEF Sidebar!CursorInView, OnList, InSight
<1>3. Sidebar!IsInjective(Sidebar!Kinds(sidebar.full)) <=> Once(sidebar.full)
  BY DEF Sidebar!IsInjective, Sidebar!Kinds, Once
<1>4. Sidebar!Range(Sidebar!Kinds(sidebar.full)) = KindsIn(sidebar.full)
  BY DEF Sidebar!Range, Sidebar!Kinds, KindsIn
<1>5. Sidebar!TypeOK => sidebar.full \in Seq(Sidebar!Item)
  BY ComponentIs DEF Sidebar!TypeOK
<1>6. Steady(sidebar) => sidebar.full \in Seq(Sidebar!Item)
  BY ComponentIs DEF Steady
<1>7. (sidebar.filter = Sidebar!NoFilter =>
         Sidebar!Range(sidebar.items) = {k \in Sidebar!Known : SectionOf[k] # Sidebar!Custom \/ k \in Sidebar!Range(Extras) \cup pins
                                                               \/ k = sidebar.active})
      <=> OnShow(sidebar, Written, pins, discovered)
  BY DEF OnShow, Written, Sidebar!Known
<1>8. Sidebar!Known = Sidebar!Range(Seed) \cup Written \cup pins \cup discovered
  BY DEF Sidebar!Known, Written
<1> QED
  BY <1>1, <1>2, <1>3, <1>4, <1>5, <1>6, <1>7, <1>8
     DEF Sidebar!Inv, SidebarHeld, Sidebar!TypeOK, Sidebar!RowsHaveReasons, Sidebar!MarksAreTrue, Accounted, Steady

LEMMA AlikeShows ==
  ASSUME NEW a, NEW b, a.items = b.items, a.filter = b.filter, a.active = b.active,
         NEW E, NEW P, NEW D, OnShow(b, E, P, D)
  PROVE  OnShow(a, E, P, D)
BY DEF OnShow

(* addExtras.                                                               *)
Pane(m, E, P, D) == m \in Sidebar!Component /\ OnList(m) /\ Accounted(m.full, E, P, D) /\ OnShow(m, E, P, D)

LEMMA FullSet ==
  ASSUME NEW m \in Sidebar!Component, NEW list \in Seq(Sidebar!Item)
  PROVE  /\ [m EXCEPT !.full = list] \in Sidebar!Component /\ [m EXCEPT !.full = list].full = list
         /\ [m EXCEPT !.full = list].items = m.items /\ [m EXCEPT !.full = list].active = m.active
         /\ [m EXCEPT !.full = list].filter = m.filter
BY DEF Sidebar!Component

LEMMA AddExtrasIs ==
  ASSUME NEW m \in Sidebar!Component, NEW ks, ks # <<>>, NEW pinned, NEW E, NEW P, NEW D,
         Accounted(Sidebar!Merged(m.full, ks, pinned), E, P, D)
  PROVE  LET r == Sidebar!AddExtras(m, ks, pinned) IN
         /\ Steady(r) /\ Pane(r, E, P, D)
         /\ Sidebar!SelectionRef(m) \in Sidebar!Range(r.items) => Sidebar!SelectionRef(r) = Sidebar!SelectionRef(m)
<1> DEFINE list == Sidebar!Merged(m.full, ks, pinned)
           n == [m EXCEPT !.full = list]
           r == Sidebar!AddExtras(m, ks, pinned)
<1>1. r = Sidebar!Reapply(n, Sidebar!SelectionRef(m))
  BY DEF Sidebar!AddExtras
<1>2. list \in Seq(Sidebar!Item) /\ Accounted(list, E, P, D)
  BY DEF Accounted
<1> HIDE DEF list, r
<1>3. n \in Sidebar!Component /\ n.full = list
  BY <1>2, FullSet
<1> HIDE DEF n
<1>4. /\ Steady(r) /\ r.full = list /\ OnShow(r, E, P, D)
      /\ Sidebar!SelectionRef(m) \in Sidebar!Range(r.items) => Sidebar!SelectionRef(r) = Sidebar!SelectionRef(m)
  BY <1>1, <1>2, <1>3, ReappliedShows
<1> QED BY <1>2, <1>4 DEF Pane, Steady, r

LEMMA NewIs ==
  ASSUME NEW h \in Heights PROVE Pane(Sidebar!New(h), {}, {}, {})
<1> DEFINE entry(i) == Sidebar!ItemOf(Seed[i], FALSE, FALSE, FALSE)
           seed == [i \in DOMAIN Seed |-> entry(i)]
           m == Sidebar!New(h)
<1>1. Seed \in Seq(Sidebar!Kind) /\ Sidebar!IsInjective(Seed)
  BY OnScreenAssumption DEF Sidebar!MenuAssumption
<1>2. Len(Seed) \in Nat /\ DOMAIN Seed = 1 .. Len(Seed) /\ (Seed # <<>> => 1 \in DOMAIN Seed)
      /\ \A i \in DOMAIN Seed : Seed[i] \in Sidebar!Kind
  BY <1>1
<1>3. \A i \in DOMAIN Seed : /\ seed[i] \in Sidebar!Item /\ seed[i].kind = Seed[i] /\ seed[i].authored = FALSE
                             /\ seed[i].pinned = FALSE /\ seed[i].found = FALSE
  BY <1>2 DEF Sidebar!ItemOf, Sidebar!Item
<1>4. DOMAIN seed = DOMAIN Seed /\ seed \in Seq(Sidebar!Item)
  <2>1. \A i \in 1 .. Len(Seed) : entry(i) \in Sidebar!Item
    BY <1>2 DEF Sidebar!ItemOf, Sidebar!Item
  <2> HIDE DEF entry
  <2> QED BY <1>2, <2>1
<1> HIDE DEF seed
<1>5. /\ m.full = seed /\ m.items = Seed /\ m.filter = Sidebar!NoFilter /\ m.active = Sidebar!None /\ m.cursor = 0
      /\ m.offset = 0 /\ m.height = h
  BY DEF Sidebar!New, seed
<1>6. m \in Sidebar!Component
  BY <1>1, <1>4 DEF Sidebar!New, seed, Sidebar!Component
<1> HIDE DEF m
<1>7. OnList(m)
  BY <1>2, <1>5 DEF OnList
<1>8. Accounted(seed, {}, {}, {})
  <2>1. Once(seed)
    BY <1>1, <1>3, <1>4 DEF Once, Sidebar!IsInjective
  <2>2. KindsIn(seed) = Sidebar!Range(Seed)
    BY <1>3, <1>4 DEF KindsIn, Sidebar!Range
  <2>3. \A i \in DOMAIN seed : Told(seed[i], {}, {}, {})
    BY <1>3, <1>4 DEF Told
  <2> QED BY <1>4, <2>1, <2>2, <2>3 DEF Accounted
<1>9. OnShow(m, {}, {}, {})
  BY <1>5, KindsAre DEF OnShow
<1> QED BY <1>5, <1>6, <1>7, <1>8, <1>9 DEF Pane, m

LEMMA BuiltIs ==
  ASSUME NEW h \in Heights, NEW ps \in Seq(Sidebar!Kind)
  PROVE  Steady(Sidebar!Built(h, ps)) /\ Pane(Sidebar!Built(h, ps), Written, Sidebar!Range(ps), {})
<1> DEFINE a == Sidebar!New(h)
           b == Sidebar!AddExtras(a, Extras, FALSE)
           c == Sidebar!AddExtras(b, ps, TRUE)
<1>1. Pane(a, {}, {}, {})
  BY NewIs
<1> HIDE DEF a
<1>2. Pane(b, Written, {}, {})
  <2>1. CASE Extras = <<>>
    <3>1. b = a
      BY <2>1 DEF Sidebar!AddExtras
    <3>2. Written = {}
      BY <2>1 DEF Written, Sidebar!Range
    <3> QED BY <1>1, <3>1, <3>2
  <2>2. CASE Extras # <<>>
    <3>1. a \in Sidebar!Component /\ Accounted(Sidebar!Merged(a.full, Extras, FALSE), Written, {}, {})
      BY <1>1, ExtrasMerged DEF Pane
    <3> QED BY <2>2, <3>1, AddExtrasIs
  <2> QED BY <2>1, <2>2
<1> HIDE DEF b
<1>3. Pane(c, Written, Sidebar!Range(ps), {})
  <2>1. CASE ps = <<>>
    <3>1. c = b
      BY <2>1 DEF Sidebar!AddExtras
    <3>2. Sidebar!Range(ps) = {}
      BY <2>1 DEF Sidebar!Range
    <3> QED BY <1>2, <3>1, <3>2
  <2>2. CASE ps # <<>>
    <3>1. b \in Sidebar!Component /\ Accounted(Sidebar!Merged(b.full, ps, TRUE), Written, {} \cup Sidebar!Range(ps), {})
      BY <1>2, PinsMerged DEF Pane
    <3>2. {} \cup Sidebar!Range(ps) = Sidebar!Range(ps)
      OBVIOUS
    <3> QED BY <2>2, <3>1, <3>2, AddExtrasIs
  <2> QED BY <2>1, <2>2
<1>4. Sidebar!Built(h, ps) = Sidebar!ClampOffset(c)
  BY DEF Sidebar!Built, a, b, c
<1> HIDE DEF c
<1>5. Steady(Sidebar!ClampOffset(c)) /\ Besides(Sidebar!ClampOffset(c), c)
  BY <1>3, ClampedIs DEF Pane
<1> QED BY <1>3, <1>4, <1>5, AlikeShows DEF Pane, Steady, Besides

LEMMA SidebarInit == Sidebar!Init => Sidebar!Inv
<1> SUFFICES ASSUME Sidebar!Init PROVE SidebarHeld
  BY SidebarInvIs
<1>1. PICK h \in Heights, ps \in {<<>>} \cup {<<k>> : k \in Sidebar!Range(Customs)} :
        pins = Sidebar!Range(ps) /\ sidebar = Sidebar!Built(h, ps)
  BY DEF Sidebar!Init
<1>2. ps \in Seq(Sidebar!Kind) /\ Sidebar!Range(ps) \subseteq Sidebar!Listable
  <2>1. CASE ps = <<>>
    BY <2>1 DEF Sidebar!Range
  <2>2. CASE \E k \in Sidebar!Range(Customs) : ps = <<k>>
    <3>1. PICK k \in Sidebar!Range(Customs) : ps = <<k>>
      BY <2>2
    <3>2. k \in Sidebar!Listable /\ k \in Sidebar!Kind
      BY KindsAre DEF Sidebar!Listable
    <3>3. Sidebar!Range(ps) = {k}
      BY <3>1 DEF Sidebar!Range
    <3> QED BY <3>1, <3>2, <3>3
  <2> QED BY <1>1, <2>1, <2>2
<1>3. discovered = {}
  BY DEF Sidebar!Init
<1> QED BY <1>1, <1>2, <1>3, BuiltIs DEF SidebarHeld, Pane

(* Most steps end in one pane for the next.                                 *)
Same(a) == Sidebar!SelectionRef(a) # Sidebar!SelectionRef(sidebar) => Sidebar!SelectionRef(sidebar) \notin Sidebar!Range(a.items)
LEMMA PaneKeeps ==
  ASSUME NEW m, Steady(m), Accounted(m.full, Written, pins', discovered'),
         OnShow(m, Written, pins', discovered'), sidebar' = m,
         pins' \subseteq Sidebar!Listable, discovered' \subseteq Sidebar!Listable
  PROVE  SidebarHeld' /\ (Same(m) => Sidebar!KeepsItsKind)
BY DEF SidebarHeld, Same, Sidebar!KeepsItsKind

LEMMA SetSizeKeeps ==
  SidebarHeld /\ Sidebar!SetSize => SidebarHeld' /\ Sidebar!KeepsItsKind
<1> SUFFICES ASSUME SidebarHeld, Sidebar!SetSize PROVE SidebarHeld' /\ Sidebar!KeepsItsKind
  OBVIOUS
<1>1. PICK h \in Heights : sidebar' = Sidebar!ClampOffset([sidebar EXCEPT !.height = h])
  BY DEF Sidebar!SetSize
<1> DEFINE n == [sidebar EXCEPT !.height = h]
           m == Sidebar!ClampOffset(n)
<1>2. /\ sidebar \in Sidebar!Component /\ OnList(sidebar) /\ Accounted(sidebar.full, Written, pins, discovered)
      /\ OnShow(sidebar, Written, pins, discovered)
  BY DEF SidebarHeld, Steady
<1>3. /\ n \in Sidebar!Component /\ n.full = sidebar.full /\ n.items = sidebar.items /\ n.filter = sidebar.filter
      /\ n.active = sidebar.active /\ n.cursor = sidebar.cursor
  BY <1>2 DEF Sidebar!Component
<1>4. sidebar' = m /\ pins' = pins /\ discovered' = discovered
  BY <1>1 DEF Sidebar!SetSize
<1> HIDE DEF n
<1>5. Steady(m) /\ Besides(m, n) /\ m.cursor = n.cursor
  BY <1>2, <1>3, ClampedIs DEF OnList
<1> HIDE DEF m
<1>6. /\ m.full = sidebar.full /\ m.items = sidebar.items /\ m.filter = sidebar.filter /\ m.active = sidebar.active
      /\ m.cursor = sidebar.cursor
  BY <1>3, <1>5 DEF Besides
<1>7. Same(m)
  BY <1>6 DEF Same, Sidebar!SelectionRef
<1>8. OnShow(m, Written, pins, discovered)
  BY <1>2, <1>6, AlikeShows
<1> QED BY <1>2, <1>4, <1>5, <1>6, <1>7, <1>8, PaneKeeps DEF SidebarHeld

LEMMA ActiveIs ==
  ASSUME SidebarHeld, NEW k \in Sidebar!Listable
  PROVE  /\ Steady(Sidebar!SetActive(k)) /\ Sidebar!SetActive(k).full = sidebar.full
         /\ OnShow(Sidebar!SetActive(k), Written, pins, discovered) /\ Same(Sidebar!SetActive(k))
<1> DEFINE n == [sidebar EXCEPT !.active = k]
<1>1. sidebar \in Sidebar!Component /\ Accounted(sidebar.full, Written, pins, discovered)
  BY DEF SidebarHeld, Steady
<1>2. n \in Sidebar!Component /\ n.full = sidebar.full
  BY <1>1 DEF Sidebar!Component
<1>3. Sidebar!SetActive(k) = Sidebar!Reapply(n, Sidebar!SelectionRef(sidebar))
  BY DEF Sidebar!SetActive
<1> HIDE DEF n
<1> QED BY <1>1, <1>2, <1>3, ReappliedShows DEF Same

LEMMA WatchResourceKeeps ==
  SidebarHeld /\ Sidebar!WatchResource => SidebarHeld' /\ Sidebar!KeepsItsKind
<1> SUFFICES ASSUME SidebarHeld, Sidebar!WatchResource PROVE SidebarHeld' /\ Sidebar!KeepsItsKind
  OBVIOUS
<1>1. PICK k \in Sidebar!Listable : sidebar' = Sidebar!SetActive(k)
  BY DEF Sidebar!WatchResource
<1>2. pins' = pins /\ discovered' = discovered
  BY DEF Sidebar!WatchResource
<1>3. /\ Steady(Sidebar!SetActive(k)) /\ Sidebar!SetActive(k).full = sidebar.full
      /\ OnShow(Sidebar!SetActive(k), Written, pins, discovered) /\ Same(Sidebar!SetActive(k))
  BY ActiveIs
<1> QED BY <1>1, <1>2, <1>3, PaneKeeps DEF SidebarHeld

LEMMA RestoreLastResourceKeeps ==
  SidebarHeld /\ Sidebar!RestoreLastResource => SidebarHeld' /\ Sidebar!KeepsItsKind
<1> SUFFICES ASSUME SidebarHeld, Sidebar!RestoreLastResource PROVE SidebarHeld' /\ Sidebar!KeepsItsKind
  OBVIOUS
<1>1. PICK k \in Sidebar!Listable : sidebar' = Sidebar!SelectResource(Sidebar!SetActive(k), k)
  BY DEF Sidebar!RestoreLastResource
<1>2. pins' = pins /\ discovered' = discovered
  BY DEF Sidebar!RestoreLastResource
<1> DEFINE a == Sidebar!SetActive(k)
           i == CHOOSE j \in DOMAIN a.items : a.items[j] = k
<1>3. /\ Steady(a) /\ a.full = sidebar.full /\ OnShow(a, Written, pins, discovered)
  BY ActiveIs
<1> HIDE DEF a
<1>4. a \in Sidebar!Component /\ DOMAIN a.items \subseteq Int
  <2>1. a \in Sidebar!Component
    BY <1>3 DEF Steady
  <2>2. DOMAIN a.items = 1 .. Len(a.items)
    BY <2>1, ComponentIs
  <2> QED BY <2>1, <2>2
<1>5. k \in Sidebar!Range(a.items) => i \in DOMAIN a.items
  <2>1. k \in Sidebar!Range(a.items) => \E j \in DOMAIN a.items : a.items[j] = k
    BY DEF Sidebar!Range
  <2> QED BY <2>1
<1> HIDE DEF i
<1>6. k \in Sidebar!Range(a.items) => Steady(Sidebar!MoveTo(a, i - 1)) /\ Besides(Sidebar!MoveTo(a, i - 1), a)
  BY <1>4, <1>5, MovedIs
<1>7. Steady(sidebar') /\ Besides(sidebar', a)
  <2>1. sidebar' = IF k \in Sidebar!Range(a.items) THEN Sidebar!MoveTo(a, i - 1) ELSE a
    BY <1>1 DEF Sidebar!SelectResource, a, i
  <2> QED BY <1>3, <1>6, <2>1 DEF Besides
<1>8. OnShow(sidebar', Written, pins, discovered) /\ sidebar'.full = sidebar.full
  BY <1>3, <1>7, AlikeShows DEF Besides
<1>9. SidebarHeld'
  BY <1>2, <1>7, <1>8 DEF SidebarHeld
<1> QED BY <1>9 DEF Sidebar!KeepsItsKind

LEMMA SetFilterKeeps ==
  SidebarHeld /\ Sidebar!SetFilter => SidebarHeld' /\ Sidebar!KeepsItsKind
<1> SUFFICES ASSUME SidebarHeld, Sidebar!SetFilter PROVE SidebarHeld' /\ Sidebar!KeepsItsKind
  OBVIOUS
<1>1. PICK q \in {Sidebar!NoFilter} \cup Queries : sidebar' = Sidebar!Reapply([sidebar EXCEPT !.filter = q], Sidebar!SelectionRef(sidebar))
  BY DEF Sidebar!SetFilter
<1>2. pins' = pins /\ discovered' = discovered
  BY DEF Sidebar!SetFilter
<1> DEFINE n == [sidebar EXCEPT !.filter = q]
           m == Sidebar!Reapply(n, Sidebar!SelectionRef(sidebar))
<1>3. sidebar \in Sidebar!Component /\ Accounted(sidebar.full, Written, pins, discovered)
  BY DEF SidebarHeld, Steady
<1>4. n \in Sidebar!Component /\ n.full = sidebar.full
  BY <1>3 DEF Sidebar!Component
<1>5. sidebar' = m
  BY <1>1
<1> HIDE DEF n
<1>6. Steady(m) /\ m.full = sidebar.full /\ OnShow(m, Written, pins, discovered) /\ Same(m)
  BY <1>3, <1>4, ReappliedShows DEF Same
<1> HIDE DEF m
<1> QED BY <1>2, <1>3, <1>5, <1>6, PaneKeeps DEF SidebarHeld

(* Reconcile: the rows known and those appended.                            *)
LEMMA ReconciledKeeps ==
  ASSUME NEW E, NEW P, NEW D, NEW m \in Sidebar!Component, Accounted(m.full, E, P, D),
         NEW found, found \subseteq Sidebar!Range(Customs)
  PROVE  LET known == [i \in DOMAIN m.full |->
                         [m.full[i] EXCEPT !.found = @ \/ m.full[i].kind \in found]]
             at == {i \in DOMAIN Customs : Customs[i] \in found /\ ~Sidebar!Lists(m, Customs[i])}
             new == [i \in 1 .. Cardinality(at) |-> Sidebar!ItemOf(Customs[Sidebar!Nth(at, i)], FALSE, FALSE, TRUE)]
         IN  Accounted(known \o new, E, P, D \cup found)
<1> DEFINE list == m.full
           mark(i) == [list[i] EXCEPT !.found = @ \/ list[i].kind \in found]
           known == [i \in DOMAIN list |-> mark(i)]
           at == {i \in DOMAIN Customs : Customs[i] \in found /\ ~Sidebar!Lists(m, Customs[i])}
           c == Cardinality(at)
           entry(i) == Sidebar!ItemOf(Customs[Sidebar!Nth(at, i)], FALSE, FALSE, TRUE)
           new == [i \in 1 .. c |-> entry(i)]
           all == known \o new
<1>1. Customs \in Seq(Sidebar!Kind) /\ Sidebar!IsInjective(Customs)
  BY OnScreenAssumption DEF Sidebar!MenuAssumption
<1>2. /\ list \in Seq(Sidebar!Item) /\ Once(list) /\ KindsIn(list) = Sidebar!Range(Seed) \cup E \cup P \cup D
      /\ \A i \in DOMAIN list : Told(list[i], E, P, D)
  BY DEF Accounted
<1>3. \A k : Sidebar!Lists(m, k) <=> k \in KindsIn(list)
  BY <1>2, ItemsAre DEF Sidebar!Lists
<1>4. at \subseteq 1 .. Len(Customs) /\ Len(Customs) \in Nat
  BY <1>1
<1>5. \A i \in at : /\ Customs[i] \in found /\ Customs[i] \notin KindsIn(list) /\ Customs[i] \in Sidebar!Kind
  BY <1>1, <1>3
<1>6. \A i, j \in at : Customs[i] = Customs[j] => i = j
  BY <1>1 DEF Sidebar!IsInjective
<1>7. \A k \in found : k \in KindsIn(list) \/ \E i \in at : Customs[i] = k
  BY <1>3 DEF Sidebar!Range
<1> HIDE DEF at, c
<1>8. /\ c \in Nat /\ (\A i \in 1 .. c : Sidebar!Nth(at, i) \in at)
      /\ (\A i, j \in 1 .. c : Sidebar!Nth(at, i) = Sidebar!Nth(at, j) => i = j)
      /\ \A i \in at : \E k \in 1 .. c : Sidebar!Nth(at, k) = i
  BY <1>4, NthIs DEF c
<1>9. \A i \in 1 .. c : /\ entry(i) \in Sidebar!Item /\ entry(i).kind = Customs[Sidebar!Nth(at, i)]
                        /\ entry(i).authored = FALSE /\ entry(i).pinned = FALSE /\ entry(i).found = TRUE
  BY <1>5, <1>8 DEF Sidebar!ItemOf, Sidebar!Item
<1> HIDE DEF list, entry
<1>10. \A i \in DOMAIN list :
         /\ mark(i) \in Sidebar!Item /\ mark(i).kind = list[i].kind /\ mark(i).authored = list[i].authored
         /\ mark(i).pinned = list[i].pinned
         /\ mark(i).found = (list[i].found \/ list[i].kind \in found)
  <2> SUFFICES ASSUME NEW i \in DOMAIN list
               PROVE  /\ mark(i) \in Sidebar!Item /\ mark(i).kind = list[i].kind
                      /\ mark(i).authored = list[i].authored /\ mark(i).pinned = list[i].pinned
                      /\ mark(i).found = (list[i].found \/ list[i].kind \in found)
    OBVIOUS
  <2>1. list[i] \in Sidebar!Item
    BY <1>2, ItemsAre
  <2> QED BY <2>1 DEF Sidebar!Item
<1> HIDE DEF mark
<1>11. Len(list) \in Nat /\ DOMAIN list = 1 .. Len(list)
  BY <1>2
<1>12. known \in Seq(Sidebar!Item) /\ Len(known) = Len(list) /\ \A i \in 1 .. Len(list) : known[i] = mark(i)
  BY <1>10, <1>11
<1>13. new \in Seq(Sidebar!Item) /\ Len(new) = c /\ \A i \in 1 .. c : new[i] = entry(i)
  BY <1>8, <1>9
<1> HIDE DEF known, new
<1>14. /\ all \in Seq(Sidebar!Item) /\ Len(all) = Len(list) + c
       /\ \A i \in 1 .. Len(list) : all[i] = mark(i)
       /\ \A i \in 1 .. c : all[Len(list) + i] = entry(i)
  <2>1. all \in Seq(Sidebar!Item) /\ Len(all) = Len(known) + Len(new)
    BY <1>12, <1>13
  <2>2. \A i \in 1 .. Len(list) : all[i] = known[i]
    BY <1>8, <1>11, <1>12, <1>13
  <2>3. \A i \in 1 .. c : all[Len(list) + i] = new[i]
    BY <1>8, <1>11, <1>12, <1>13
  <2> QED BY <1>12, <1>13, <2>1, <2>2, <2>3
<1> HIDE DEF all
<1>15. DOMAIN all = 1 .. (Len(list) + c)
  BY <1>14
<1>16. \A i \in DOMAIN all : i \in 1 .. Len(list) \/ \E j \in 1 .. c : i = Len(list) + j
  <2> SUFFICES ASSUME NEW i \in DOMAIN all, i \notin 1 .. Len(list)
               PROVE  \E j \in 1 .. c : i = Len(list) + j
    OBVIOUS
  <2>1. i - Len(list) \in 1 .. c /\ i = Len(list) + (i - Len(list))
    BY <1>8, <1>11, <1>15
  <2> QED BY <2>1
<1>17. KindsIn(all) = KindsIn(list) \cup found
  <2>1. \A i \in 1 .. Len(list) : i \in DOMAIN all /\ all[i].kind = list[i].kind
    BY <1>8, <1>10, <1>11, <1>14, <1>15
  <2>2. \A j \in 1 .. c : Len(list) + j \in DOMAIN all /\ all[Len(list) + j].kind = Customs[Sidebar!Nth(at, j)]
    BY <1>8, <1>9, <1>11, <1>14, <1>15
  <2>3. ASSUME NEW k \in KindsIn(all) PROVE k \in KindsIn(list) \cup found
    <3>1. PICK i \in DOMAIN all : k = all[i].kind
      BY DEF KindsIn
    <3>2. CASE i \in 1 .. Len(list)
      BY <1>11, <2>1, <3>1, <3>2 DEF KindsIn
    <3>3. CASE \E j \in 1 .. c : i = Len(list) + j
      BY <1>5, <1>8, <2>2, <3>1, <3>3
    <3> QED BY <1>16, <3>2, <3>3
  <2>4. ASSUME NEW k \in KindsIn(list) PROVE k \in KindsIn(all)
    BY <1>11, <2>1 DEF KindsIn
  <2>5. ASSUME NEW k \in found PROVE k \in KindsIn(all)
    <3>1. CASE k \in KindsIn(list)
      BY <2>4, <3>1
    <3>2. CASE \E i \in at : Customs[i] = k
      <4>1. PICK j \in 1 .. c : Customs[Sidebar!Nth(at, j)] = k
        BY <1>8, <3>2
      <4> QED BY <2>2, <4>1 DEF KindsIn
    <3> QED BY <1>7, <3>1, <3>2
  <2> QED BY <2>3, <2>4, <2>5
<1>18. Once(all)
  <2> SUFFICES ASSUME NEW i \in DOMAIN all, NEW j \in DOMAIN all, all[i].kind = all[j].kind PROVE i = j
    BY DEF Once
  <2>1. \A a \in 1 .. Len(list) : all[a].kind = list[a].kind /\ all[a].kind \in KindsIn(list)
    BY <1>10, <1>11, <1>14 DEF KindsIn
  <2>2. \A a \in 1 .. c : all[Len(list) + a].kind = Customs[Sidebar!Nth(at, a)]
                          /\ all[Len(list) + a].kind \notin KindsIn(list)
    BY <1>5, <1>8, <1>9, <1>14
  <2>3. CASE i \in 1 .. Len(list) /\ j \in 1 .. Len(list)
    BY <1>2, <1>11, <2>1, <2>3 DEF Once
  <2>4. CASE \E a, b \in 1 .. c : i = Len(list) + a /\ j = Len(list) + b
    <3>1. PICK a \in 1 .. c, b \in 1 .. c : i = Len(list) + a /\ j = Len(list) + b
      BY <2>4
    <3>2. Customs[Sidebar!Nth(at, a)] = Customs[Sidebar!Nth(at, b)]
      BY <2>2, <3>1
    <3>3. a = b
      BY <1>6, <1>8, <3>2
    <3> QED BY <3>1, <3>3
  <2> QED BY <1>16, <2>1, <2>2, <2>3, <2>4
<1>19. \A i \in DOMAIN all : Told(all[i], E, P, D \cup found)
  <2>1. ASSUME NEW i \in 1 .. Len(list) PROVE Told(mark(i), E, P, D \cup found)
    <3>1. Told(list[i], E, P, D) /\ list[i].found \in BOOLEAN
      BY <1>2, <1>11, ItemsAre
    <3> QED BY <1>10, <1>11, <3>1 DEF Told
  <2>2. ASSUME NEW j \in 1 .. c PROVE Told(entry(j), E, P, D \cup found)
    <3>1. Customs[Sidebar!Nth(at, j)] \in found /\ Customs[Sidebar!Nth(at, j)] \notin Sidebar!Range(Seed) \cup E \cup P \cup D
      BY <1>2, <1>5, <1>8
    <3> QED BY <1>9, <3>1 DEF Told
  <2> QED BY <1>14, <1>16, <2>1, <2>2
<1> QED
  <2>1. Accounted(all, E, P, D \cup found)
    BY <1>2, <1>14, <1>17, <1>18, <1>19 DEF Accounted
  <2> QED BY <2>1 DEF all, known, new, mark, entry, list, at, c

LEMMA ReconcileKeeps ==
  SidebarHeld /\ Sidebar!Reconcile => SidebarHeld' /\ Sidebar!KeepsItsKind
<1> SUFFICES ASSUME SidebarHeld, Sidebar!Reconcile PROVE SidebarHeld' /\ Sidebar!KeepsItsKind
  OBVIOUS
<1>1. PICK found \in SUBSET Sidebar!Range(Customs) :
        sidebar' = Sidebar!Reconciled(found) /\ discovered' = discovered \cup found
  BY DEF Sidebar!Reconcile
<1>2. pins' = pins
  BY DEF Sidebar!Reconcile
<1>3. sidebar \in Sidebar!Component /\ Accounted(sidebar.full, Written, pins, discovered)
  BY DEF SidebarHeld, Steady
<1> DEFINE known == [i \in DOMAIN sidebar.full |->
                       [sidebar.full[i] EXCEPT !.found = @ \/ sidebar.full[i].kind \in found]]
           at == {i \in DOMAIN Customs : Customs[i] \in found /\ ~Sidebar!Lists(sidebar, Customs[i])}
           new == [i \in 1 .. Cardinality(at) |-> Sidebar!ItemOf(Customs[Sidebar!Nth(at, i)], FALSE, FALSE, TRUE)]
           list == known \o new
           n == [sidebar EXCEPT !.full = list]
           m == Sidebar!Reapply(n, Sidebar!SelectionRef(sidebar))
<1>4. Accounted(list, Written, pins, discovered \cup found)
  <2>1. found \subseteq Sidebar!Range(Customs)
    BY <1>1
  <2> QED BY <1>3, <2>1, ReconciledKeeps
<1>5. sidebar' = m
  BY <1>1, SidebarCount DEF Sidebar!Reconciled
<1> HIDE DEF known, at, new
<1>6. list \in Seq(Sidebar!Item)
  BY <1>4 DEF Accounted
<1> HIDE DEF list
<1>7. n \in Sidebar!Component /\ n.full = list
  BY <1>3, <1>6, FullSet
<1> HIDE DEF n
<1>8. Steady(m) /\ m.full = list /\ OnShow(m, Written, pins, discovered \cup found) /\ Same(m)
  BY <1>4, <1>7, ReappliedShows DEF Same
<1> HIDE DEF m
<1>9. discovered' \subseteq Sidebar!Listable /\ pins' \subseteq Sidebar!Listable
  BY <1>1, <1>2, KindsAre DEF SidebarHeld
<1> QED BY <1>1, <1>2, <1>4, <1>5, <1>8, <1>9, PaneKeeps

(* Unpin: the row's mark goes, or the row, or nothing that was pinned.      *)
LEMMA UnmarkedKeeps ==
  ASSUME NEW E, NEW P, NEW D, NEW list, Accounted(list, E, P, D), NEW i \in DOMAIN list,
         list[i].found
  PROVE  Accounted([list EXCEPT ![i].pinned = FALSE], E, P \ {list[i].kind}, D)
<1> DEFINE k == list[i].kind
           one == [list[i] EXCEPT !.pinned = FALSE]
           r == [list EXCEPT ![i].pinned = FALSE]
<1>1. /\ list \in Seq(Sidebar!Item) /\ Once(list) /\ KindsIn(list) = Sidebar!Range(Seed) \cup E \cup P \cup D
      /\ \A j \in DOMAIN list : Told(list[j], E, P, D)
  BY DEF Accounted
<1>2. list[i] \in Sidebar!Item /\ k \in D
  BY <1>1, ItemsAre DEF Told
<1>3. /\ one \in Sidebar!Item /\ one.kind = k /\ one.found = list[i].found /\ one.authored = list[i].authored
      /\ one.pinned = FALSE
  BY <1>2 DEF Sidebar!Item
<1>4. r = [list EXCEPT ![i] = one]
  OBVIOUS
<1> HIDE DEF one, r
<1>5. r \in Seq(Sidebar!Item) /\ DOMAIN r = DOMAIN list /\ r[i] = one /\ \A j \in DOMAIN list : j # i => r[j] = list[j]
  BY <1>1, <1>3, <1>4
<1>6. \A j \in DOMAIN list : r[j].kind = list[j].kind
  BY <1>3, <1>5
<1>7. Once(r) /\ KindsIn(r) = KindsIn(list)
  BY <1>1, <1>5, <1>6 DEF Once, KindsIn
<1>8. \A j \in DOMAIN list : Told(r[j], E, P \ {k}, D)
  <2>1. Told(one, E, P \ {k}, D)
    BY <1>1, <1>3 DEF Told
  <2>2. ASSUME NEW j \in DOMAIN list, j # i PROVE Told(list[j], E, P \ {k}, D)
    <3>1. list[j].kind # k
      BY <1>1, <2>2 DEF Once
    <3>2. Told(list[j], E, P, D)
      BY <1>1
    <3> HIDE DEF k
    <3> QED BY <3>1, <3>2 DEF Told
  <2> QED BY <1>5, <2>1, <2>2
<1>9. Sidebar!Range(Seed) \cup E \cup (P \ {k}) \cup D = Sidebar!Range(Seed) \cup E \cup P \cup D
  BY <1>2
<1> QED BY <1>1, <1>5, <1>7, <1>8, <1>9 DEF Accounted, r

LEMMA RemovedKeeps ==
  ASSUME NEW E, NEW P, NEW D, NEW list, Accounted(list, E, P, D), NEW i \in DOMAIN list,
         list[i].pinned, ~list[i].found
  PROVE  Accounted(Sidebar!Without(list, i), E, P \ {list[i].kind}, D)
<1> DEFINE k == list[i].kind
           at(j) == IF j < i THEN j ELSE j + 1
           n == Len(list)
           r == Sidebar!Without(list, i)
<1>1. /\ list \in Seq(Sidebar!Item) /\ Once(list) /\ KindsIn(list) = Sidebar!Range(Seed) \cup E \cup P \cup D
      /\ \A j \in DOMAIN list : Told(list[j], E, P, D)
  BY DEF Accounted
<1>2. k \notin D /\ k \notin Sidebar!Range(Seed) \cup E
  BY <1>1, ItemsAre DEF Told
<1>3. n \in Nat /\ n > 0 /\ DOMAIN list = 1 .. n /\ i \in 1 .. n
  BY <1>1
<1>4. \A j \in 1 .. (n - 1) : at(j) \in 1 .. n /\ at(j) # i
  BY <1>3
<1>5. \A j, l \in 1 .. (n - 1) : at(j) = at(l) => j = l
  BY <1>3
<1>6. \A l \in 1 .. n : l # i => \E j \in 1 .. (n - 1) : at(j) = l
  <2> SUFFICES ASSUME NEW l \in 1 .. n, l # i PROVE \E j \in 1 .. (n - 1) : at(j) = l
    OBVIOUS
  <2>1. CASE l < i
    <3>1. l \in 1 .. (n - 1) /\ at(l) = l
      BY <1>3, <2>1
    <3> QED BY <3>1
  <2>2. CASE ~(l < i)
    <3>1. l - 1 \in 1 .. (n - 1) /\ at(l - 1) = l
      BY <1>3, <2>2
    <3> QED BY <3>1
  <2> QED BY <2>1, <2>2
<1>7. r \in Seq(Sidebar!Item) /\ DOMAIN r = 1 .. (n - 1) /\ \A j \in 1 .. (n - 1) : r[j] = list[at(j)]
  <2>1. r = [j \in 1 .. n - 1 |-> list[at(j)]] /\ n - 1 \in Nat
    BY <1>3 DEF Sidebar!Without
  <2>2. \A j \in 1 .. (n - 1) : list[at(j)] \in Sidebar!Item
    BY <1>1, <1>3, <1>4, ItemsAre
  <2> HIDE DEF at, n, r
  <2> QED BY <2>1, <2>2
<1> HIDE DEF at, n, r
<1>8. Once(r)
  BY <1>1, <1>3, <1>4, <1>5, <1>7 DEF Once
<1>9. KindsIn(r) = KindsIn(list) \ {k}
  <2>1. \A j \in DOMAIN r : r[j].kind \in KindsIn(list) /\ r[j].kind # k
    BY <1>1, <1>3, <1>4, <1>7 DEF KindsIn, Once
  <2>2. ASSUME NEW l \in DOMAIN list, list[l].kind # k PROVE \E j \in DOMAIN r : r[j].kind = list[l].kind
    BY <1>3, <1>6, <1>7, <2>2
  <2> QED BY <2>1, <2>2 DEF KindsIn
<1>10. \A j \in DOMAIN r : Told(r[j], E, P \ {k}, D)
  <2> SUFFICES ASSUME NEW j \in DOMAIN r PROVE Told(r[j], E, P \ {k}, D)
    OBVIOUS
  <2>1. Told(r[j], E, P, D) /\ r[j].kind # k
    BY <1>1, <1>3, <1>4, <1>7 DEF Once
  <2> HIDE DEF k
  <2> QED BY <2>1 DEF Told
<1> QED BY <1>1, <1>2, <1>7, <1>8, <1>9, <1>10 DEF Accounted, r

LEMMA UnpinnedNothing ==
  ASSUME NEW E, NEW P, NEW D, NEW list, Accounted(list, E, P, D), NEW k \in P, k \notin E,
         \A i \in DOMAIN list : list[i].kind = k => ~list[i].pinned
  PROVE  /\ Accounted(list, E, P \ {k}, D) /\ SectionOf[k] # Sidebar!Custom
         /\ Sidebar!Range(Seed) \cup E \cup (P \ {k}) \cup D = Sidebar!Range(Seed) \cup E \cup P \cup D
<1>1. PICK i \in DOMAIN list : list[i].kind = k
  BY DEF Accounted, KindsIn
<1>2. Told(list[i], E, P, D) /\ ~list[i].pinned
  BY <1>1 DEF Accounted
<1>3. SectionOf[k] # Sidebar!Custom /\ (k \in Sidebar!Range(Seed) \/ k \in D)
  BY <1>1, <1>2, KindsAre DEF Told
<1>4. Sidebar!Range(Seed) \cup E \cup (P \ {k}) \cup D = Sidebar!Range(Seed) \cup E \cup P \cup D
  BY <1>3
<1>5. \A j \in DOMAIN list : Told(list[j], E, P \ {k}, D)
  <2> SUFFICES ASSUME NEW j \in DOMAIN list PROVE Told(list[j], E, P \ {k}, D)
    OBVIOUS
  <2>1. Told(list[j], E, P, D) /\ (list[j].kind = k => ~list[j].pinned)
    BY DEF Accounted
  <2>2. CASE list[j].kind = k
    BY <2>1, <2>2 DEF Told
  <2>3. CASE list[j].kind # k
    BY <2>1, <2>3 DEF Told
  <2> QED BY <2>2, <2>3
<1> QED BY <1>3, <1>4, <1>5 DEF Accounted

LEMMA UnpinnedIs ==
  ASSUME SidebarHeld, NEW k \in pins, k \notin Written
  PROVE  LET m == Sidebar!Unpinned(k) IN
         /\ Steady(m) /\ Accounted(m.full, Written, pins \ {k}, discovered)
         /\ OnShow(m, Written, pins \ {k}, discovered) /\ Same(m)
<1> DEFINE at == {i \in DOMAIN sidebar.full : sidebar.full[i].kind = k /\ sidebar.full[i].pinned}
           i == CHOOSE j \in at : TRUE
           full == IF sidebar.full[i].found THEN [sidebar.full EXCEPT ![i].pinned = FALSE] ELSE Sidebar!Without(sidebar.full, i)
           n == [sidebar EXCEPT !.full = full]
           d == Sidebar!Derived(n)
           sel == Sidebar!SelectionRef(sidebar)
           r == Sidebar!RestoreSelection(d, sel)
           went == sel = k /\ k \notin Sidebar!Range(d.items)
           p == IF went THEN Sidebar!MoveTo(r, sidebar.cursor - 1) ELSE r
           m == Sidebar!Unpinned(k)
<1>0. /\ sidebar \in Sidebar!Component /\ OnList(sidebar) /\ Accounted(sidebar.full, Written, pins, discovered)
      /\ OnShow(sidebar, Written, pins, discovered)
  BY DEF SidebarHeld, Steady
<1>1. CASE at = {}
  <2>1. m = sidebar
    BY <1>1 DEF Sidebar!Unpinned
  <2>2. \A j \in DOMAIN sidebar.full : sidebar.full[j].kind = k => ~sidebar.full[j].pinned
    BY <1>1
  <2>3. /\ Accounted(sidebar.full, Written, pins \ {k}, discovered) /\ SectionOf[k] # Sidebar!Custom
        /\ Sidebar!Range(Seed) \cup Written \cup (pins \ {k}) \cup discovered
             = Sidebar!Range(Seed) \cup Written \cup pins \cup discovered
    BY <1>0, <2>2, UnpinnedNothing
  <2>4. OnShow(sidebar, Written, pins \ {k}, discovered)
    BY <1>0, <2>3 DEF OnShow
  <2> HIDE DEF m
  <2> QED BY <2>1, <2>3, <2>4 DEF SidebarHeld, Same, m
<1>2. CASE at # {}
  <2>1. i \in at
    BY <1>2
  <2>2. i \in DOMAIN sidebar.full /\ sidebar.full[i].kind = k /\ sidebar.full[i].pinned
    BY <2>1
  <2>3. m = Sidebar!ClampOffset(p)
    BY <1>2, Zenon DEF Sidebar!Unpinned
  <2> HIDE DEF at, i
  <2>4. Accounted(full, Written, pins \ {k}, discovered)
    <3>1. CASE sidebar.full[i].found
      BY <1>0, <2>2, <3>1, UnmarkedKeeps
    <3>2. CASE ~sidebar.full[i].found
      BY <1>0, <2>2, <3>2, RemovedKeeps
    <3> QED BY <3>1, <3>2
  <2> HIDE DEF full
  <2>5. n \in Sidebar!Component /\ n.full = full
    BY <1>0, <2>4, FullSet DEF Accounted
  <2> HIDE DEF n
  <2>6. d \in Sidebar!Component /\ d.full = full /\ OnShow(d, Written, pins \ {k}, discovered)
    BY <2>4, <2>5, DerivedIs, DerivedShows
  <2> HIDE DEF d, sel
  <2>7. /\ r \in Sidebar!Component /\ Besides(r, d) /\ OnList(r)
        /\ sel \in Sidebar!Range(d.items) => r.items[r.cursor + 1] = sel
    BY <2>6, RestoredIs
  <2> HIDE DEF r
  <2>8. sidebar.cursor - 1 \in Int
    BY <1>0, ComponentIs
  <2>9. /\ p \in Sidebar!Component /\ Besides(p, d) /\ OnList(p)
        /\ sel \in Sidebar!Range(d.items) => p.items[p.cursor + 1] = sel
    <3>1. CASE went
      BY <2>7, <2>8, <3>1, MovedIs DEF Steady, Besides
    <3>2. CASE ~went
      BY <2>7, <3>2
    <3> QED BY <3>1, <3>2
  <2> HIDE DEF p, m, went
  <2>10. Steady(m) /\ Besides(m, p) /\ m.cursor = p.cursor
    BY <2>3, <2>9, ClampedIs
  <2>11. m.full = full /\ m.items = d.items /\ m.filter = d.filter /\ m.active = d.active
    BY <2>6, <2>9, <2>10 DEF Besides
  <2>12. OnShow(m, Written, pins \ {k}, discovered)
    BY <2>6, <2>11, AlikeShows
  <2>13. sel \in Sidebar!Range(m.items) => Sidebar!SelectionRef(m) = sel
    <3>1. sel \in Sidebar!Range(m.items) => m.items # <<>>
      BY DEF Sidebar!Range
    <3>2. p.items = m.items
      BY <2>10 DEF Besides
    <3> QED BY <2>9, <2>10, <2>11, <3>1, <3>2 DEF Sidebar!SelectionRef
  <2> QED BY <2>4, <2>10, <2>11, <2>12, <2>13 DEF Same, m, sel
<1> QED BY <1>1, <1>2

LEMMA TogglePinKeeps ==
  SidebarHeld /\ Sidebar!TogglePin => SidebarHeld' /\ Sidebar!KeepsItsKind
<1> SUFFICES ASSUME SidebarHeld, Sidebar!TogglePin PROVE SidebarHeld' /\ Sidebar!KeepsItsKind
  OBVIOUS
<1>1. PICK k \in Sidebar!Listable :
        /\ k \notin Sidebar!Range(Extras)
        /\ IF k \in pins THEN pins' = pins \ {k} /\ sidebar' = Sidebar!Unpinned(k)
           ELSE pins' = pins \cup {k} /\ sidebar' = Sidebar!AddExtras(sidebar, <<k>>, TRUE)
  BY DEF Sidebar!TogglePin
<1>2. discovered' = discovered
  BY DEF Sidebar!TogglePin
<1>3. CASE k \in pins
  <2> DEFINE m == Sidebar!Unpinned(k)
  <2>1. pins' = pins \ {k} /\ sidebar' = m /\ k \notin Written
    BY <1>1, <1>3 DEF Written
  <2>2. /\ Steady(m) /\ Accounted(m.full, Written, pins \ {k}, discovered)
        /\ OnShow(m, Written, pins \ {k}, discovered) /\ Same(m)
    BY <1>3, <2>1, UnpinnedIs
  <2> HIDE DEF m
  <2> QED BY <1>2, <2>1, <2>2, PaneKeeps DEF SidebarHeld
<1>4. CASE k \notin pins
  <2> DEFINE m == Sidebar!AddExtras(sidebar, <<k>>, TRUE)
  <2>1. pins' = pins \cup {k} /\ sidebar' = m
    BY <1>1, <1>4
  <2>2. <<k>> \in Seq(Sidebar!Kind) /\ Sidebar!Range(<<k>>) = {k} /\ <<k>> # <<>>
    BY DEF Sidebar!Range, Sidebar!Listable
  <2>3. sidebar \in Sidebar!Component /\ Accounted(sidebar.full, Written, pins, discovered)
    BY DEF SidebarHeld, Steady
  <2>4. Accounted(Sidebar!Merged(sidebar.full, <<k>>, TRUE), Written, pins \cup {k}, discovered)
    BY <2>2, <2>3, PinsMerged
  <2>5. /\ Steady(m) /\ Pane(m, Written, pins \cup {k}, discovered)
        /\ Sidebar!SelectionRef(sidebar) \in Sidebar!Range(m.items) => Sidebar!SelectionRef(m) = Sidebar!SelectionRef(sidebar)
    BY <2>2, <2>3, <2>4, AddExtrasIs
  <2> HIDE DEF m
  <2> QED BY <1>2, <2>1, <2>5, PaneKeeps DEF SidebarHeld, Pane, Same
<1> QED BY <1>3, <1>4

(* A move by rows looks for an item's row, and there is one.                *)
LEMMA MoveByRowsIs ==
  ASSUME NEW delta \in Int, sidebar \in Sidebar!Component, OnList(sidebar), sidebar.items # <<>>
  PROVE  \E i \in Int : Sidebar!MoveByRows(delta) = Sidebar!MoveTo(sidebar, i)
<1> DEFINE rows == {Sidebar!RowOf(sidebar, i) : i \in DOMAIN sidebar.items}
           target == Sidebar!Smaller(Sidebar!Larger(Sidebar!RowOf(sidebar, sidebar.cursor + 1) + delta, 0), Sidebar!RowCount(sidebar) - 1)
           down == {r \in rows : r >= target}
           up == {r \in rows : r <= target}
           to == IF (delta > 0 /\ down # {}) \/ up = {} THEN Sidebar!Min(down) ELSE Sidebar!Max(up)
           i == CHOOSE j \in DOMAIN sidebar.items : Sidebar!RowOf(sidebar, j) = to
<1>1. /\ DOMAIN sidebar.items \subseteq Nat /\ (\A j \in DOMAIN sidebar.items : j > 0)
      /\ sidebar.cursor + 1 \in DOMAIN sidebar.items
  <2>1. DOMAIN sidebar.items = 1 .. Len(sidebar.items) /\ Len(sidebar.items) \in Nat
    BY ComponentIs
  <2> QED BY <2>1 DEF OnList
<1>2. \A j \in DOMAIN sidebar.items : Sidebar!RowOf(sidebar, j) \in Nat
  BY <1>1, RowsAre
<1>3. rows \subseteq Nat /\ rows # {}
  BY <1>1, <1>2
<1>4. target \in Int
  <2>1. Sidebar!RowCount(sidebar) \in Nat /\ Sidebar!RowOf(sidebar, sidebar.cursor + 1) \in Nat
    BY <1>1, <1>2, RowCountIs
  <2> QED BY <2>1 DEF Sidebar!Smaller, Sidebar!Larger
<1>5. Sidebar!MoveByRows(delta) = Sidebar!MoveTo(sidebar, i - 1)
  BY DEF Sidebar!MoveByRows
<1> HIDE DEF target
<1>6. to \in rows
  <2>1. CASE (delta > 0 /\ down # {}) \/ up = {}
    <3>1. down \subseteq Nat /\ down # {}
      <4> HIDE DEF rows
      <4>1. PICK r \in rows : r \in Nat
        BY <1>3
      <4>2. r <= target \/ r >= target
        BY <1>4, <4>1
      <4> QED BY <1>3, <2>1, <4>1, <4>2
    <3>2. Sidebar!Min(down) \in down
      <4> HIDE DEF down
      <4> QED BY <3>1, Smallest
    <3>3. to = Sidebar!Min(down)
      BY <2>1
    <3> QED BY <3>2, <3>3
  <2>2. CASE ~((delta > 0 /\ down # {}) \/ up = {})
    <3>1. up # {} /\ up \subseteq 0 .. target /\ target \in Nat
      <4> HIDE DEF rows
      <4>1. up # {} /\ up \subseteq rows /\ \A r \in up : r <= target
        BY <2>2
      <4>2. PICK r \in up : r \in Nat /\ r <= target
        BY <1>3, <4>1
      <4>3. target \in Nat
        BY <1>4, <4>2
      <4>4. \A x \in up : x \in Nat /\ x <= target
        BY <1>3, <4>1
      <4> HIDE DEF up
      <4>5. up \subseteq 0 .. target
        BY <4>3, <4>4
      <4> QED BY <4>1, <4>3, <4>5
    <3>2. Sidebar!Max(up) \in up
      <4> HIDE DEF up
      <4> QED BY <3>1, Greatest
    <3>3. to = Sidebar!Max(up)
      BY <2>2
    <3> QED BY <3>2, <3>3
  <2> QED BY <2>1, <2>2
<1> HIDE DEF to
<1>7. i \in DOMAIN sidebar.items
  BY <1>6
<1> HIDE DEF i
<1>8. i - 1 \in Int
  BY <1>1, <1>7
<1> QED BY <1>5, <1>8

(* The cursor moved, and nothing else.                                      *)
LEMMA CursorMovedKeeps ==
  ASSUME SidebarHeld, NEW i \in Int, sidebar' = Sidebar!MoveTo(sidebar, i), pins' = pins, discovered' = discovered
  PROVE  SidebarHeld'
<1>1. sidebar \in Sidebar!Component
  BY DEF SidebarHeld, Steady
<1>2. Steady(sidebar') /\ Besides(sidebar', sidebar)
  BY <1>1, MovedIs
<1>3. OnShow(sidebar', Written, pins, discovered) /\ sidebar'.full = sidebar.full
  BY <1>2, AlikeShows DEF SidebarHeld, Besides
<1> QED BY <1>2, <1>3 DEF SidebarHeld

LEMMA UpdateKeeps ==
  SidebarHeld /\ Sidebar!Update => SidebarHeld' /\ Sidebar!KeepsItsKind
<1> SUFFICES ASSUME SidebarHeld, Sidebar!Update PROVE SidebarHeld' /\ Sidebar!KeepsItsKind
  OBVIOUS
<1>1. pins' = pins /\ discovered' = discovered /\ sidebar.items # <<>>
  BY DEF Sidebar!Update
<1>2. sidebar \in Sidebar!Component /\ OnList(sidebar)
  BY DEF SidebarHeld, Steady
<1>3. sidebar.cursor \in Int /\ Len(sidebar.items) \in Nat /\ sidebar.height \in Nat
  BY <1>2, ComponentIs
<1>4. \E i \in Int : sidebar' = Sidebar!MoveTo(sidebar, i)
  <2>1. CASE \E i \in {sidebar.cursor - 1, sidebar.cursor + 1, 0, Len(sidebar.items) - 1} : sidebar' = Sidebar!MoveTo(sidebar, i)
    BY <1>3, <2>1
  <2>2. CASE \E n \in {Sidebar!Step(sidebar.height), Sidebar!Step(sidebar.height \div 2)}, way \in {-1, 1} :
               sidebar' = Sidebar!MoveByRows(way * n)
    <3>1. PICK n \in {Sidebar!Step(sidebar.height), Sidebar!Step(sidebar.height \div 2)} : \E way \in {-1, 1} :
            sidebar' = Sidebar!MoveByRows(way * n)
      BY <2>2
    <3>2. n \in Int
      <4>1. sidebar.height \div 2 \in Int
        BY <1>3
      <4> QED BY <1>3, <3>1, <4>1 DEF Sidebar!Step
    <3>3. PICK way \in {-1, 1} : sidebar' = Sidebar!MoveByRows(way * n)
      BY <3>1
    <3>4. way * n \in Int
      BY <3>2
    <3> QED BY <1>1, <1>2, <3>3, <3>4, MoveByRowsIs
  <2> QED BY <2>1, <2>2 DEF Sidebar!Update
<1>5. SidebarHeld'
  BY <1>1, <1>4, CursorMovedKeeps
<1> QED BY <1>5 DEF Sidebar!KeepsItsKind

LEMMA ClickKeeps ==
  SidebarHeld /\ Sidebar!Click => SidebarHeld' /\ Sidebar!KeepsItsKind
<1> SUFFICES ASSUME SidebarHeld, Sidebar!Click PROVE SidebarHeld' /\ Sidebar!KeepsItsKind
  OBVIOUS
<1>1. pins' = pins /\ discovered' = discovered
  BY DEF Sidebar!Click
<1>2. PICK i \in DOMAIN sidebar.items : sidebar' = Sidebar!MoveTo(sidebar, i - 1)
  BY DEF Sidebar!Click
<1>3. i - 1 \in Int
  <2>1. DOMAIN sidebar.items = 1 .. Len(sidebar.items)
    BY ComponentIs DEF SidebarHeld, Steady
  <2> QED BY <2>1
<1>4. SidebarHeld'
  BY <1>1, <1>2, <1>3, CursorMovedKeeps
<1> QED BY <1>4 DEF Sidebar!KeepsItsKind

LEMMA ResetClusterKeeps ==
  SidebarHeld /\ Sidebar!ResetCluster => SidebarHeld' /\ Sidebar!KeepsItsKind
<1> SUFFICES ASSUME SidebarHeld, Sidebar!ResetCluster PROVE SidebarHeld' /\ Sidebar!KeepsItsKind
  OBVIOUS
<1>1. sidebar' = Sidebar!Built(sidebar.height, <<>>) /\ pins' = {} /\ discovered' = {}
  BY DEF Sidebar!ResetCluster
<1>2. sidebar.height \in Heights
  BY ComponentIs DEF SidebarHeld, Steady
<1>3. <<>> \in Seq(Sidebar!Kind) /\ Sidebar!Range(<<>>) = {}
  BY DEF Sidebar!Range
<1>4. Steady(Sidebar!Built(sidebar.height, <<>>)) /\ Pane(Sidebar!Built(sidebar.height, <<>>), Written, {}, {})
  BY <1>2, <1>3, BuiltIs
<1>5. SidebarHeld'
  BY <1>1, <1>4 DEF SidebarHeld, Pane
<1> QED BY <1>5 DEF Sidebar!KeepsItsKind

LEMMA SidebarStep ==
  Sidebar!Inv /\ [Sidebar!Next]_sidebarVars => Sidebar!Inv' /\ (Sidebar!KeepsItsKind \/ UNCHANGED sidebarVars)
<1> SUFFICES ASSUME SidebarHeld, [Sidebar!Next]_sidebarVars PROVE SidebarHeld' /\ (Sidebar!KeepsItsKind \/ UNCHANGED sidebarVars)
  <2>1. Sidebar!Inv' <=> SidebarHeld'
    BY SidebarInvIs, PTL
  <2> QED BY <2>1, SidebarInvIs
<1>1. CASE UNCHANGED sidebarVars
  BY <1>1 DEF sidebarVars, SidebarHeld
<1>2. CASE Sidebar!Next
  BY <1>2, SetSizeKeeps, WatchResourceKeeps, RestoreLastResourceKeeps, SetFilterKeeps, ReconcileKeeps,
     TogglePinKeeps, UpdateKeeps, ClickKeeps, ResetClusterKeeps DEF Sidebar!Next
<1> QED BY <1>1, <1>2


---------------------------- (* all of it *) --------------------------------
ScreenInv ==
  /\ part = "palette" => Inv /\ CameFrom
  /\ part = "dialog" => Prompts!Inv
  /\ part = "keys" => Engine!Inv
  /\ part = "canvas" => Probe!Inv
  /\ part = "logs" => Lines!Inv /\ Tallied
  /\ part = "table" => Rows!Inv
  /\ part = "menu" => Sidebar!Inv

LEMMA ScreenInitInv == ScreenInit => ScreenInv
BY InitInv, EscIsBack, PromptsInit, EngineInit, ProbeInit, LinesInit, TalliedInit, TableInit, SidebarInit
DEF ScreenInit, ScreenInv

LEMMA ScreenStep == ScreenInv /\ [ScreenNext]_screenVars => ScreenInv'
<1> SUFFICES ASSUME ScreenInv, [ScreenNext]_screenVars PROVE ScreenInv'
  OBVIOUS
<1>1. part' = part
  BY DEF ScreenNext, screenVars
<1>2. CASE part = "dialog"
  <2>1. [Prompts!Next]_promptsVars
    BY <1>2 DEF ScreenNext, screenVars
  <2> QED BY <1>1, <1>2, <2>1, PromptsStep DEF ScreenInv
<1>3. CASE part = "keys"
  <2>1. [Engine!Next]_engineVars
    BY <1>3 DEF ScreenNext, screenVars
  <2> QED BY <1>1, <1>3, <2>1, EngineStep DEF ScreenInv
<1>4. CASE part = "canvas"
  <2>1. [Probe!Next]_probeVars
    BY <1>4 DEF ScreenNext, screenVars
  <2> QED BY <1>1, <1>4, <2>1, ProbeStep DEF ScreenInv
<1>5. CASE part = "logs"
  <2>1. [Lines!Next]_linesVars
    BY <1>5 DEF ScreenNext, screenVars
  <2> QED BY <1>1, <1>5, <2>1, LinesStep, TalliedStep DEF ScreenInv
<1>6. CASE part = "table"
  <2>1. [Rows!Next]_rowsVars
    BY <1>6 DEF ScreenNext, screenVars
  <2> QED BY <1>1, <1>6, <2>1, TableStep DEF ScreenInv
<1>7. CASE part = "menu"
  <2>1. [Sidebar!Next]_sidebarVars
    BY <1>7 DEF ScreenNext, screenVars
  <2> QED BY <1>1, <1>7, <2>1, SidebarStep DEF ScreenInv
<1>8. CASE part = "palette"
  <2>1. [Next]_vars
    BY <1>8 DEF ScreenNext, screenVars
  <2> QED BY <1>1, <1>8, <2>1, StepInv, CameFromStep DEF ScreenInv
<1> QED BY <1>1, <1>2, <1>3, <1>4, <1>5, <1>6, <1>7, <1>8 DEF ScreenInv

LEMMA ScreenInvHolds == ScreenSpec => []ScreenInv
BY ScreenInitInv, ScreenStep, PTL DEF ScreenSpec

(* app.go's handleModalConfirmed: whatever answers come late, a delete or a *)
(* drain was answered for, once, in a dialog that named it.                 *)
THEOREM AskedForCorrect == ScreenSpec => []OnlyWhatWasAskedFor
<1>1. ScreenInv => OnlyWhatWasAskedFor
  BY DEF ScreenInv, OnlyWhatWasAskedFor, Prompts!Inv
<1> QED BY <1>1, ScreenInvHolds, PTL

(* app.go's handleModalConfirmed: the object a write reaches is the one its *)
(* dialog named, unless a key was overtaken by another dialog.              *)
THEOREM NamedCorrect == ScreenSpec => []ActsOnWhatWasNamed
<1>1. ScreenInv => ActsOnWhatWasNamed
  BY DEF ScreenInv, ActsOnWhatWasNamed, Prompts!Inv
<1> QED BY <1>1, ScreenInvHolds, PTL

(* components/table's applyFilter, called on every path that changes what   *)
(* it reads: the displayed rows are the watch's, each once, narrowed and    *)
(* sorted stably, and the cursors are on them, for any objects and samples. *)
THEOREM RowsCorrect == ScreenSpec => []RowsAreTheLiveOnes
<1>1. ScreenInv => RowsAreTheLiveOnes
  BY TableShows DEF ScreenInv, RowsAreTheLiveOnes, Rows!Inv
<1> QED BY <1>1, ScreenInvHolds, PTL

(* components/menu's addExtras, Unpin and Reconcile, in any order: a kind   *)
(* has a row for a reason and only for one, and the row under the cursor is *)
(* on the screen, for any kinds, sections, files, pins and discoveries.     *)
THEOREM ReasonsCorrect == ScreenSpec => []RowsHaveReasons
<1>1. ScreenInv => RowsHaveReasons
  BY DEF ScreenInv, RowsHaveReasons, Sidebar!Inv
<1> QED BY <1>1, ScreenInvHolds, PTL

(* components/logsview's shownLines: kept up line by line, trimmed and       *)
(* filtered, what the logs view shows is what filtering anew would show, of *)
(* the stream asked for last, with the cursor on a line of it.              *)
THEOREM LogsCorrect == ScreenSpec => []ShownIsARebuild
<1>1. ScreenInv => ShownIsARebuild
  BY DEF ScreenInv, ShownIsARebuild, Lines!Inv
<1> QED BY <1>1, ScreenInvHolds, PTL

(* Nothing but the reader takes a cursor, or a selection's start, off what  *)
(* it is on (menu's and table's restoreSelection, logsview's trim and       *)
(* placeCursor), and Esc in the palette leads only to the list the reader   *)
(* came from (palDirect), for any kinds, objects, lines and bounds.         *)
THEOREM CursorsCorrect == ScreenSpec => CursorsKeepTheirPlace
<1> DEFINE Keeps == /\ part = "palette" => BackToWhereItCameFrom
                    /\ part = "menu"  => Sidebar!KeepsItsKind
                    /\ part = "table" => Rows!KeepsItsObject
                    /\ part = "logs"  => Lines!LinesStay
<1>1. ScreenInv /\ [ScreenNext]_screenVars => [Keeps]_screenVars
  <2> SUFFICES ASSUME ScreenInv, ScreenNext, ~UNCHANGED screenVars PROVE Keeps
    OBVIOUS
  <2>1. ASSUME part = "palette" PROVE BackToWhereItCameFrom
    BY <2>1, EscIsBack DEF ScreenInv
  <2>2. ASSUME part = "menu" PROVE Sidebar!KeepsItsKind
    <3>1. Sidebar!Next /\ UNCHANGED <<part, vars, rowsVars, linesVars, promptsVars, engineVars, probeVars>>
      BY <2>2 DEF ScreenNext
    <3>2. ~UNCHANGED sidebarVars
      BY <3>1 DEF screenVars
    <3> QED BY <2>2, <3>1, <3>2, SidebarStep DEF ScreenInv
  <2>3. ASSUME part = "table" PROVE Rows!KeepsItsObject
    <3>1. Rows!Next /\ UNCHANGED <<part, vars, sidebarVars, linesVars, promptsVars, engineVars, probeVars>>
      BY <2>3 DEF ScreenNext
    <3>2. ~UNCHANGED rowsVars
      BY <3>1 DEF screenVars
    <3> QED BY <2>3, <3>1, <3>2, TableStep DEF ScreenInv
  <2>4. ASSUME part = "logs" PROVE Lines!LinesStay
    BY <2>4, LinesStayed DEF ScreenInv
  <2> QED BY <2>1, <2>2, <2>3, <2>4
<1> HIDE DEF Keeps
<1>2. ScreenSpec => [][Keeps]_screenVars
  BY <1>1, ScreenInvHolds, PTL DEF ScreenSpec
<1> QED BY <1>2 DEF CursorsKeepTheirPlace, Keeps

(* sequencer.go's Timeout and internal/keylog's abandonedSequences: a timer *)
(* runs its own key's binding, and the report makes nothing up, for any     *)
(* bindings and however many keys.                                          *)
THEOREM SequencesCorrect == ScreenSpec => []SequencesAreTrue
<1>1. ScreenInv => SequencesAreTrue
  BY EngineReport DEF ScreenInv, SequencesAreTrue, Engine!Inv
<1> QED BY <1>1, ScreenInvHolds, PTL

(* canvas.go's handleCanvasProbe: a terminal that does as it is asked is    *)
(* warned about only where a preview came between or a report outlasted the *)
(* next probe's delay.  A pick retires the probe and the report under way.  *)
THEOREM WarningsCorrect == ScreenSpec => WarnsIfIgnored
<1> DEFINE Warn == part = "canvas" => Probe!TypeOK /\ Probe!WarnsIfMoved
<1>1. ScreenInv /\ [ScreenNext]_screenVars => [Warn]_screenVars
  <2> SUFFICES ASSUME ScreenInv, ScreenNext, part = "canvas"
               PROVE  Probe!TypeOK /\ Probe!WarnsIfMoved
    OBVIOUS
  <2>1. Probe!Inv /\ [Probe!Next]_probeVars
    BY DEF ScreenInv, ScreenNext
  <2> QED BY <2>1, ProbeStep DEF Probe!Inv
<1> HIDE DEF Warn
<1>2. ScreenSpec => [][Warn]_screenVars
  BY <1>1, ScreenInvHolds, PTL DEF ScreenSpec
<1> QED BY <1>2 DEF WarnsIfIgnored, Warn
=============================================================================
