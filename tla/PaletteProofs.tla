--------------------------- MODULE PaletteProofs ---------------------------
(***************************************************************************)
(* Proofs about Palette, for any themes, rows, verbs and bounds.           *)
(*                                                                         *)
(* A preview is undone because the anchor is, for as long as the theme     *)
(* stage is up, the theme last chosen (Anchors), and every way out of the  *)
(* stage wears it again.  A pick that no other key overtook is the only    *)
(* one in flight; the stage it was made in is up until it is handled, or   *)
(* has been closed under it, when it does nothing (InFlight).              *)
(***************************************************************************)
EXTENDS Palette, TLAPS

USE PaletteAssumption

Stages == {"closed", "verbs"} \cup Arg

(* The theme on screen is the anchor's preview, or the theme chosen.        *)
Anchors ==
  /\ stage = "theme" => anchor = chosen
  /\ stage # "theme" => theme = chosen

(* The theme stage lists themes, and while the table kept its row, the row  *)
(* verbs listed are those of the object in the title.                       *)
Listing ==
  /\ stage = "theme" => \A l \in listed : l[2] \in Theme
  /\ ~moved => \A l \in listed : l[1] = "row" => titled = row

(* A pick is still what the reader meant, or the palette closed under it.   *)
Meant(p) ==
  \/ stage = "closed"
  \/ /\ stage = p.stage
     /\ ~moved /\ p.label[1] = "row" => p.on = row

(* Unless a key was pressed over another's message, one is in flight.       *)
InFlight ==
  ~overtaken => \A m \in Pressed :
    /\ inbox[m] = 1
    /\ \A n \in Pressed : n = m
    /\ m.type = "selected" => Meant(m.pick)

(* What is on the screen fits the stage, and what is in flight is messages: *)
(* TypeOK in two halves, with what the proof adds to it.                    *)
OnScreen ==
  /\ stage \in Stages /\ direct \in BOOLEAN
  /\ listed \subseteq Label /\ titled \in Row \cup {None}
  /\ (stage = "closed") => ~direct /\ listed = {} /\ titled = None
  /\ theme \in Theme /\ chosen \in Theme /\ anchor \in Theme \cup {None}
  /\ (anchor # None) = (stage = "theme")
  /\ row \in Row \cup {None} /\ Anchors /\ Listing
Boxed ==
  /\ IsABag(inbox) /\ (\A m \in BagToSet(inbox) : m \in Message)
  /\ ns \in Label /\ cluster \in 0 .. MaxSwitches /\ keys \in 0 .. MaxKeys

Inv == OnScreen /\ Boxed /\ InFlight /\ PicksAreWhatWasShown

LEMMA InvMeans == Inv => TypeOK /\ PreviewLeavesNoTrace /\ PicksAreWhatWasShown
BY DEF Inv, OnScreen, Boxed, Anchors, Stages, TypeOK, PreviewLeavesNoTrace

-----------------------------------------------------------------------------
(* One more message in flight.                                              *)
LEMMA PostBag ==
  ASSUME NEW B, IsABag(B), NEW m
  PROVE  LET C == B (+) SetToBag({m})
         IN  /\ IsABag(C)
             /\ BagToSet(C) = BagToSet(B) \cup {m}
             /\ \A x \in BagToSet(B) : x # m => C[x] = B[x]
             /\ m \notin BagToSet(B) => C[m] = 1
<1> DEFINE C == B (+) SetToBag({m})
<1>1. C = [e \in DOMAIN B \cup {m} |-> (IF e \in DOMAIN B THEN B[e] ELSE 0) + (IF e = m THEN 1 ELSE 0)]
  BY DEF (+), SetToBag
<1>2. \A e \in DOMAIN B : B[e] \in Nat /\ B[e] > 0
  BY DEF IsABag
<1> HIDE DEF C
<1>3. DOMAIN C = DOMAIN B \cup {m}
  BY <1>1
<1>4. \A e \in DOMAIN C : C[e] \in Nat /\ C[e] > 0
  BY <1>1, <1>2
<1>5. IsABag(C)
  BY <1>1, <1>3, <1>4 DEF IsABag
<1>6. /\ \A x \in DOMAIN B : x # m => C[x] = B[x]
      /\ m \notin DOMAIN B => C[m] = 1
  BY <1>1, <1>2
<1> QED
  BY <1>3, <1>5, <1>6 DEF BagToSet, C

(* One of the messages in flight is handled.                                *)
LEMMA TakeBag ==
  ASSUME NEW B, IsABag(B), NEW m \in BagToSet(B)
  PROVE  LET C == B (-) SetToBag({m})
         IN  /\ IsABag(C)
             /\ BagToSet(C) \subseteq BagToSet(B)
             /\ \A x \in BagToSet(C) : x # m => C[x] = B[x]
             /\ B[m] = 1 => m \notin BagToSet(C)
<1> DEFINE A == [e \in DOMAIN B |-> IF e = m THEN B[e] - 1 ELSE B[e]]
           C == B (-) SetToBag({m})
<1>1. C = [e \in {d \in DOMAIN A : A[d] > 0} |-> A[e]]
  <2>1. A = [e \in DOMAIN B |-> IF e \in DOMAIN SetToBag({m}) THEN B[e] - SetToBag({m})[e] ELSE B[e]]
    BY DEF SetToBag
  <2> QED BY <2>1 DEF (-)
<1>2. \A e \in DOMAIN B : B[e] \in Nat /\ B[e] > 0
  BY DEF IsABag
<1>3. \A e \in DOMAIN B : A[e] \in Nat
  BY <1>2
<1>4. DOMAIN A = DOMAIN B
  OBVIOUS
<1>5. DOMAIN C = {d \in DOMAIN B : A[d] > 0} /\ \A e \in DOMAIN C : C[e] = A[e]
  BY <1>1, <1>4
<1> HIDE DEF C
<1>6. IsABag(C)
  <2>1. C = [e \in DOMAIN C |-> C[e]]
    BY <1>1
  <2>2. \A e \in DOMAIN C : C[e] \in {n \in Nat : n > 0}
    BY <1>3, <1>5
  <2> HIDE DEF A
  <2> QED BY <2>1, <2>2 DEF IsABag
<1>7. \A x \in DOMAIN C : x # m => C[x] = B[x]
  BY <1>5
<1>8. B[m] = 1 => m \notin DOMAIN C
  BY <1>5, m \in DOMAIN B DEF BagToSet
<1> QED
  BY <1>5, <1>6, <1>7, <1>8 DEF BagToSet, C

(* What a message is made of.                                               *)
LEMMA MessageShape ==
  ASSUME NEW m \in Message
  PROVE  /\ m.type \in {"selected", "cancelled", "loaded"}
         /\ m.type = "selected" => m.pick \in Pick
         /\ m.type = "loaded" => m.what \in Loads /\ m.cluster \in 0 .. MaxSwitches
BY DEF Message

LEMMA PickShape ==
  ASSUME NEW p \in Pick
  PROVE  p.label \in Label /\ p.on \in Row \cup {None} /\ p.stage \in Arg \cup {"verbs"}
BY DEF Pick

(* A label's first half says what it is.                                    *)
LEMMA Labels ==
  /\ Verbs \subseteq Label /\ RowVerbs \subseteq Label
  /\ \A a \in Arg : Values(a) \subseteq Label
  /\ \A c \in 0 .. MaxSwitches : NsOf(c) \subseteq Label
  /\ Of("ctx", {"next"}) \subseteq Label
  /\ \A l \in Verbs : l[1] = "verb"
  /\ \A l \in RowVerbs : l[1] = "row"
  /\ \A c \in 0 .. MaxSwitches : \A l \in NsOf(c) : l[1] = "ns"
  /\ \A l \in Of("ctx", {"next"}) : l[1] = "ctx"
  /\ \A l \in Values("theme") : l[1] = "theme" /\ l[2] \in Theme
  /\ \A a \in Arg \ {"action"} : \A l \in Values(a) : l[1] # "row"
<1>1. /\ Verbs \subseteq Label /\ RowVerbs \subseteq Label
      /\ \A l \in Verbs : l[1] = "verb"
      /\ \A l \in RowVerbs : l[1] = "row"
  BY DEF Label, Verbs, RowVerbs, Of
<1>2. /\ \A c \in 0 .. MaxSwitches : NsOf(c) \subseteq Label
      /\ \A c \in 0 .. MaxSwitches : \A l \in NsOf(c) : l[1] = "ns"
  BY DEF Label, NsOf, Of
<1>3. /\ Of("ctx", {"next"}) \subseteq Label
      /\ \A l \in Of("ctx", {"next"}) : l[1] = "ctx"
  BY DEF Label, Of
<1>4. /\ Values("resource") = Of("res", Resource) /\ Values("pin") = Of("res", Resource)
      /\ Values("theme") = Of("theme", Theme) /\ Values("action") = RowVerbs
      /\ Values("namespace") = {} /\ Values("context") = {}
  BY DEF Values, Loads
<1>5. /\ Of("res", Resource) \subseteq Label /\ Of("theme", Theme) \subseteq Label
      /\ \A l \in Of("res", Resource) : l[1] = "res"
      /\ \A l \in Of("theme", Theme) : l[1] = "theme" /\ l[2] \in Theme
  BY DEF Label, Of
<1> QED
  BY <1>1, <1>2, <1>3, <1>4, <1>5 DEF Arg

-----------------------------------------------------------------------------
(* The verbs are shown, or the palette closes, over a row that may change.  *)
LEMMA ShowVerbsFits ==
  ASSUME OnScreen, ShowVerbs, UNCHANGED <<chosen, row, moved>>
  PROVE  OnScreen'
<1>1. theme' = chosen /\ anchor' = None
  BY DEF OnScreen, Anchors, ShowVerbs, Anchored
<1>2. listed' \subseteq Label /\ titled' = row'
  BY Labels DEF ShowVerbs
<1> QED
  BY <1>1, <1>2 DEF OnScreen, Anchors, Listing, ShowVerbs, Stages

LEMMA CloseFits ==
  ASSUME OnScreen, Close, chosen' = chosen, row' \in Row \cup {None}
  PROVE  OnScreen'
<1>1. theme' = chosen /\ anchor' = None
  BY DEF OnScreen, Anchors, Close, Anchored
<1> QED
  BY <1>1 DEF OnScreen, Anchors, Listing, Close, Stages

LEMMA EnterArgFits ==
  ASSUME OnScreen, stage # "theme", NEW a \in Arg, NEW k \in BOOLEAN, EnterArg(a, k),
         UNCHANGED <<chosen, row, moved>>
  PROVE  OnScreen'
<1>1. theme = chosen /\ theme' = chosen /\ anchor' = IF a = "theme" THEN chosen ELSE None
  BY DEF OnScreen, Anchors, EnterArg
<1>2. listed' \subseteq Label /\ titled' \in Row \cup {None}
  BY Labels DEF EnterArg, OnScreen
<1>3. Listing'
  BY Labels DEF EnterArg, Listing
<1>4. stage' = a /\ a # "closed" /\ direct' \in BOOLEAN
  BY DEF EnterArg, Arg
<1>5. theme \in Theme /\ chosen \in Theme /\ row \in Row \cup {None} /\ chosen # None
  BY DEF OnScreen
<1> QED
  BY <1>1, <1>2, <1>3, <1>4, <1>5 DEF OnScreen, Anchors, Stages

-----------------------------------------------------------------------------
(* What a step adds to the messages in flight, or takes from them.          *)
LEMMA AskedBag ==
  ASSUME NEW B, IsABag(B), \A m \in BagToSet(B) : m \in Message,
         cluster \in 0 .. MaxSwitches, NEW a \in Arg, NEW ok \in BOOLEAN
  PROVE  LET C == Asked(a, ok, B)
         IN  /\ IsABag(C) /\ \A m \in BagToSet(C) : m \in Message
             /\ \A m \in BagToSet(C) : m.type # "loaded" => m \in BagToSet(B)
<1> DEFINE n == [type |-> "loaded", what |-> a, cluster |-> cluster, ok |-> ok]
<1>1. CASE a \in Loads
  <2>1. n \in Message /\ n.type = "loaded"
    BY <1>1 DEF Message
  <2>2. Asked(a, ok, B) = B (+) SetToBag({n})
    BY <1>1 DEF Asked
  <2> HIDE DEF n
  <2>3. /\ IsABag(B (+) SetToBag({n}))
        /\ BagToSet(B (+) SetToBag({n})) = BagToSet(B) \cup {n}
    BY PostBag
  <2> QED BY <2>1, <2>2, <2>3
<1>2. CASE a \notin Loads
  BY <1>2 DEF Asked
<1> QED
  BY <1>1, <1>2

(* A key that puts no message of its own in flight.                         *)
LEMMA KeyKeeps ==
  ASSUME Boxed, Key, ns' \in Label,
         \/ inbox' = inbox
         \/ \E a \in Arg, ok \in BOOLEAN : inbox' = Asked(a, ok, inbox)
  PROVE  Boxed' /\ InFlight'
<1>1. /\ IsABag(inbox') /\ \A m \in BagToSet(inbox') : m \in Message
      /\ \A m \in BagToSet(inbox') : m.type # "loaded" => m \in BagToSet(inbox)
  BY AskedBag DEF Boxed
<1>2. Boxed'
  BY <1>1 DEF Boxed, Key
<1>3. ~overtaken' => Pressed' = {}
  BY <1>1 DEF Key, Pressed
<1> QED
  BY <1>2, <1>3 DEF InFlight

(* A key whose message is handled later.                                    *)
LEMMA KeyPosts ==
  ASSUME Boxed, Key, UNCHANGED ns, NEW m \in Message, m.type # "loaded", inbox' = Post(m),
         m.type = "selected" => Meant(m.pick)'
  PROVE  Boxed' /\ InFlight'
<1>1. /\ IsABag(inbox') /\ BagToSet(inbox') = BagToSet(inbox) \cup {m}
      /\ m \notin BagToSet(inbox) => inbox'[m] = 1
  BY PostBag DEF Boxed, Post
<1>2. Boxed'
  BY <1>1 DEF Boxed, Key
<1>3. ASSUME ~overtaken' PROVE Pressed' = {m} /\ inbox'[m] = 1
  <2>1. Pressed = {}
    BY <1>3 DEF Key
  <2>2. m \notin BagToSet(inbox)
    BY <2>1 DEF Pressed
  <2>3. Pressed' = {m}
    BY <1>1, <2>1 DEF Pressed
  <2> QED BY <1>1, <2>2, <2>3
<1>4. InFlight'
  BY <1>3 DEF InFlight
<1> QED
  BY <1>2, <1>4

(* A key's message is handled: unless it was overtaken, none is left.       *)
LEMMA AnswerTaken ==
  ASSUME Boxed, InFlight, NEW m \in BagToSet(inbox), m.type # "loaded",
         ns' \in Label, UNCHANGED <<cluster, keys, overtaken>>,
         \/ inbox' = Take(m)
         \/ \E a \in Arg, ok \in BOOLEAN : inbox' = Asked(a, ok, Take(m))
  PROVE  Boxed' /\ InFlight'
<1> DEFINE B == Take(m)
<1>1. /\ IsABag(B) /\ BagToSet(B) \subseteq BagToSet(inbox)
      /\ inbox[m] = 1 => m \notin BagToSet(B)
  BY TakeBag DEF Boxed, Take
<1>2. \A n \in BagToSet(B) : n \in Message
  BY <1>1 DEF Boxed
<1> HIDE DEF B
<1>3. /\ IsABag(inbox') /\ \A n \in BagToSet(inbox') : n \in Message
      /\ \A n \in BagToSet(inbox') : n.type # "loaded" => n \in BagToSet(B)
  <2>1. CASE inbox' = B
    BY <1>1, <1>2, <2>1
  <2>2. CASE \E a \in Arg, ok \in BOOLEAN : inbox' = Asked(a, ok, B)
    BY <1>1, <1>2, <2>2, AskedBag DEF Boxed
  <2> QED BY <2>1, <2>2 DEF B
<1>4. Boxed'
  BY <1>3 DEF Boxed
<1>5. ASSUME ~overtaken PROVE Pressed' = {}
  <2>1. inbox[m] = 1 /\ \A n \in Pressed : n = m
    BY <1>5 DEF InFlight, Pressed
  <2> QED BY <1>1, <1>3, <2>1 DEF Pressed
<1>6. InFlight'
  BY <1>5 DEF InFlight
<1> QED
  BY <1>4, <1>6

(* What is in flight stays, and its palette is up or has closed.            *)
LEMMA StillMeant ==
  ASSUME Boxed, InFlight, IsABag(inbox'), BagToSet(inbox') \subseteq BagToSet(inbox),
         \A m \in BagToSet(inbox') : m.type # "loaded" => inbox'[m] = inbox[m],
         ns' \in Label, cluster' \in 0 .. MaxSwitches, keys' \in 0 .. MaxKeys,
         overtaken' = overtaken, stage' \in {stage, "closed"}, moved => moved',
         Pressed # {} /\ row' # row => moved' \/ stage' = "closed"
  PROVE  Boxed' /\ InFlight'
<1>1. Boxed'
  BY DEF Boxed
<1>2. ASSUME ~overtaken', NEW m \in Pressed'
      PROVE  /\ inbox'[m] = 1
             /\ \A n \in Pressed' : n = m
             /\ m.type = "selected" => Meant(m.pick)'
  <2>1. m \in Pressed /\ inbox'[m] = inbox[m] /\ Pressed' \subseteq Pressed
    BY <1>2 DEF Pressed
  <2>2. /\ inbox[m] = 1 /\ \A n \in Pressed : n = m
        /\ m.type = "selected" => Meant(m.pick)
    BY <1>2, <2>1 DEF InFlight
  <2>3. Meant(m.pick) => Meant(m.pick)'
    BY <2>1 DEF Meant
  <2> QED BY <2>1, <2>2, <2>3
<1> QED
  BY <1>1, <1>2 DEF InFlight

-----------------------------------------------------------------------------
(* Nothing is on its way in the beginning.                                  *)
LEMMA InitInv == Init => Inv
<1> SUFFICES ASSUME Init PROVE Inv
  OBVIOUS
<1>1. BagToSet(inbox) = {} /\ IsABag(inbox)
  BY DEF Init, EmptyBag, SetToBag, BagToSet, IsABag
<1>2. <<"ns", 0>> \in Label
  <2>1. <<"ns", 0>> \in NsOf(0) /\ 0 \in 0 .. MaxSwitches
    BY DEF NsOf, Of
  <2> QED BY <2>1, Labels
<1>3. OnScreen
  BY DEF Init, OnScreen, Anchors, Listing, Stages
<1>4. Boxed /\ InFlight
  BY <1>1, <1>2 DEF Init, Boxed, InFlight, Pressed
<1>5. PicksAreWhatWasShown
  BY DEF Init, PicksAreWhatWasShown, NoPick, None
<1> QED
  BY <1>3, <1>4, <1>5 DEF Inv

(* The last pick carried out stays what it was.                             *)
LEMMA DoneStays ==
  ASSUME PicksAreWhatWasShown, UNCHANGED done, overtaken => overtaken', moved => moved'
  PROVE  PicksAreWhatWasShown'
BY DEF PicksAreWhatWasShown

(* A key that opens, closes or changes a stage keeps the invariant.         *)
LEMMA KeysKeepInv ==
  ASSUME Inv,
         OpenPalette \/ Backspace \/ \E a \in Arg, ok \in BOOLEAN : OpenArg(a, ok) \/ Space(a, ok)
  PROVE  Inv'
<1> USE DEF Inv
<1>1. /\ Key /\ UNCHANGED <<ns, done>>
      /\ \/ inbox' = inbox
         \/ \E a \in Arg, ok \in BOOLEAN : inbox' = Asked(a, ok, inbox)
  BY DEF OpenPalette, Backspace, OpenArg, Space
<1>2. UNCHANGED <<row, cluster, chosen, moved>> /\ (overtaken => overtaken') /\ ns' \in Label
  BY <1>1 DEF Key, Boxed
<1>3. Boxed' /\ InFlight'
  BY <1>1, <1>2, KeyKeeps
<1>4. OnScreen'
  <2>1. CASE ShowVerbs
    BY <1>2, <2>1, ShowVerbsFits
  <2>2. ASSUME NEW a \in Arg, NEW k \in BOOLEAN, EnterArg(a, k), stage \in {"closed", "verbs"}
        PROVE OnScreen'
    BY <1>2, <2>2, EnterArgFits
  <2>3. \/ ShowVerbs
        \/ \E a \in Arg, k \in BOOLEAN : EnterArg(a, k) /\ stage \in {"closed", "verbs"}
    BY DEF OpenPalette, Backspace, OpenArg, Space
  <2> QED BY <2>1, <2>2, <2>3
<1>5. PicksAreWhatWasShown'
  BY <1>1, <1>2, DoneStays
<1> QED
  BY <1>3, <1>4, <1>5

LEMMA PreviewKeepsInv == ASSUME Inv, NEW l \in listed, Preview(l) PROVE Inv'
<1> USE DEF Inv
<1>1. /\ Key /\ UNCHANGED <<menu, anchor, ns, inbox, done, row, cluster, chosen, moved>>
      /\ (overtaken => overtaken') /\ ns' \in Label
  BY DEF Preview, Key, Boxed
<1>2. theme' = l[2] /\ l[2] \in Theme /\ stage = "theme"
  BY DEF Preview, OnScreen, Listing
<1>3. OnScreen'
  BY <1>1, <1>2 DEF OnScreen, Anchors, Listing, menu
<1>4. Boxed' /\ InFlight'
  BY <1>1, KeyKeeps
<1> QED
  BY <1>1, <1>3, <1>4, DoneStays

(* Nothing on the screen changes.                                           *)
LEMMA OnScreenStays ==
  ASSUME OnScreen, UNCHANGED <<menu, theme, anchor, chosen, row, moved>>
  PROVE  OnScreen'
BY DEF OnScreen, Anchors, Listing, menu

LEMMA EnterKeepsInv == ASSUME Inv, NEW l \in listed, Enter(l) PROVE Inv'
<1> USE DEF Inv
<1>1. [label |-> l, on |-> titled, stage |-> stage] \in Pick
  <2>1. stage \in Arg \cup {"verbs"}
    BY DEF OnScreen, Stages
  <2> QED BY <2>1 DEF Pick, OnScreen
<1>2. PICK p \in Pick : p = [label |-> l, on |-> titled, stage |-> stage]
  BY <1>1
<1>3. PICK m : m = [type |-> "selected", pick |-> p]
  OBVIOUS
<1>4. m \in Message /\ m.type = "selected" /\ m.pick = p
  BY <1>2, <1>3 DEF Message
<1>5. /\ Key /\ UNCHANGED <<menu, theme, anchor, ns, done, row, cluster, chosen, moved>>
      /\ (overtaken => overtaken') /\ inbox' = Post(m)
  BY <1>2, <1>3 DEF Enter, Key
<1>6. p.stage = stage /\ p.label = l /\ p.on = titled
  BY <1>2
<1>7. Meant(p)'
  BY <1>5, <1>6 DEF Meant, OnScreen, Listing, menu
<1>8. Boxed' /\ InFlight'
  BY <1>4, <1>5, <1>7, KeyPosts
<1> QED
  BY <1>5, <1>8, OnScreenStays, DoneStays

LEMMA EscKeepsInv == ASSUME Inv, Esc PROVE Inv'
<1> USE DEF Inv
<1>1. PICK m : m = [type |-> "cancelled"]
  OBVIOUS
<1>2. m \in Message /\ m.type = "cancelled"
  BY <1>1 DEF Message
<1>3. /\ Key /\ UNCHANGED <<menu, theme, anchor, ns, done, row, cluster, chosen, moved>>
      /\ (overtaken => overtaken') /\ inbox' = Post(m)
  BY <1>1 DEF Esc, Key
<1>4. Boxed' /\ InFlight'
  BY <1>2, <1>3, KeyPosts
<1> QED
  BY <1>3, <1>4, OnScreenStays, DoneStays

(* Steps that press no key and handle no message.                           *)
LEMMA OthersKeepInv ==
  ASSUME Inv,
         \/ \E t \in Theme : BoundTheme(t)
         \/ \E r \in Row \cup {None} : WatchEvent(r)
         \/ SwitchCluster
  PROVE  Inv'
<1> USE DEF Inv
<1>1. ASSUME NEW t \in Theme, BoundTheme(t) PROVE Inv'
  <2>1. OnScreen'
    BY <1>1 DEF BoundTheme, OnScreen, Anchors, Listing, menu
  <2>2. Boxed' /\ InFlight'
    BY <1>1 DEF BoundTheme, Boxed, InFlight, Pressed, Meant, menu
  <2> QED BY <1>1, <2>1, <2>2, DoneStays DEF BoundTheme
<1>2. ASSUME NEW r \in Row \cup {None}, WatchEvent(r) PROVE Inv'
  <2>1. OnScreen'
    BY <1>2 DEF WatchEvent, OnScreen, Anchors, Listing, menu
  <2>2. Boxed' /\ InFlight'
    BY <1>2, StillMeant DEF WatchEvent, Boxed, menu
  <2> QED BY <1>2, <2>1, <2>2, DoneStays DEF WatchEvent
<1>3. CASE SwitchCluster
  <2>1. OnScreen'
    BY <1>3, CloseFits DEF SwitchCluster
  <2>2. cluster' \in 0 .. MaxSwitches
    BY <1>3 DEF SwitchCluster, Boxed
  <2>3. ns' \in Label
    <3>1. 0 \in 0 .. MaxSwitches /\ <<"ns", 0>> \in NsOf(0)
      BY DEF NsOf, Of
    <3> QED BY <1>3, <3>1, Labels DEF SwitchCluster
  <2>4. Boxed' /\ InFlight'
    BY <1>3, <2>2, <2>3, StillMeant DEF SwitchCluster, Close, Boxed
  <2> QED BY <1>3, <2>1, <2>4, DoneStays DEF SwitchCluster
<1> QED
  BY <1>1, <1>2, <1>3

LEMMA CancelledKeepsInv == ASSUME Inv, NEW m \in BagToSet(inbox), Cancelled(m) PROVE Inv'
<1> USE DEF Inv
<1>1. /\ m.type # "loaded" /\ inbox' = Take(m)
      /\ UNCHANGED <<row, ns, cluster, chosen, done, overtaken, moved, keys>>
      /\ ShowVerbs \/ Close
  BY DEF Cancelled
<1>2. OnScreen'
  BY <1>1, ShowVerbsFits, CloseFits DEF OnScreen
<1>3. Boxed' /\ InFlight'
  BY <1>1, AnswerTaken DEF Boxed
<1> QED
  BY <1>1, <1>2, <1>3, DoneStays

LEMMA LoadedKeepsInv == ASSUME Inv, NEW m \in BagToSet(inbox), Loaded(m) PROVE Inv'
<1> USE DEF Inv
<1>1. /\ m.type = "loaded" /\ inbox' = Take(m)
      /\ UNCHANGED <<row, ns, cluster, chosen, done, overtaken, moved, keys>>
      /\ m.what \in Loads /\ m.cluster \in 0 .. MaxSwitches
  BY MessageShape DEF Loaded, Boxed
<1>2. /\ IsABag(inbox') /\ BagToSet(inbox') \subseteq BagToSet(inbox)
      /\ \A x \in BagToSet(inbox') : x # m => inbox'[x] = inbox[x]
  BY <1>1, TakeBag DEF Boxed, Take
<1>3. OnScreen' /\ stage' \in {stage, "closed"}
  <2>1. CASE UNCHANGED <<menu, theme, anchor, seen>>
    BY <1>1, <2>1, OnScreenStays DEF menu
  <2>2. CASE Close
    BY <1>1, <2>2, CloseFits DEF OnScreen, Close
  <2>3. CASE /\ stage = m.what
             /\ listed' = IF m.what = "context" THEN Of("ctx", {"next"}) ELSE NsOf(m.cluster)
             /\ UNCHANGED <<stage, direct, titled, theme, anchor, seen>>
    <3>1. listed' \subseteq Label /\ \A l \in listed' : l[1] # "row"
      BY <1>1, <2>3, Labels
    <3>2. stage # "theme" /\ stage # "closed"
      BY <1>1, <2>3 DEF Loads
    <3> QED BY <1>1, <2>3, <3>1, <3>2 DEF OnScreen, Anchors, Listing
  <2> QED BY <2>1, <2>2, <2>3 DEF Loaded
<1>4. Boxed' /\ InFlight'
  BY <1>1, <1>2, <1>3, StillMeant DEF Boxed
<1> QED
  BY <1>1, <1>3, <1>4, DoneStays

(* A pick does what it was made for, or nothing.                            *)
LEMMA SelectedKeepsInv ==
  ASSUME Inv, NEW m \in BagToSet(inbox), NEW ok \in BOOLEAN, Selected(m, ok)
  PROVE  Inv'
<1> USE DEF Inv
<1> DEFINE p == m.pick
<1>1. /\ m.type = "selected" /\ UNCHANGED <<row, cluster, overtaken, moved, keys>>
      /\ p \in Pick /\ p.label \in Label
  BY MessageShape, PickShape DEF Selected, Boxed
<1>2. \/ stage \in Arg /\ ApplyArg(p) /\ inbox' = Take(m)
      \/ stage \notin Arg /\ RunVerb(p, ok, Take(m)) /\ UNCHANGED <<ns, chosen>>
  BY DEF Selected
<1>3. ~overtaken => Meant(p)
  BY <1>1 DEF InFlight, Pressed
<1> HIDE DEF p
<1>4. OnScreen'
  <2>1. CASE stage = "theme" /\ Resolves(p.label) /\ ApplyArg(p)
    <3>1. p.label[2] \in Theme
      BY <2>1 DEF Resolves, OnScreen, Listing
    <3> QED BY <1>1, <2>1, <3>1 DEF ApplyArg, OnScreen, Anchors, Listing, Stages
  <2>2. CASE Close /\ UNCHANGED chosen
    BY <1>1, <2>2, CloseFits DEF OnScreen
  <2>3. ASSUME stage \notin Arg, NEW a \in Arg, EnterArg(a, FALSE), UNCHANGED chosen PROVE OnScreen'
    BY <1>1, <2>3, EnterArgFits DEF Arg
  <2>4. \/ stage = "theme" /\ Resolves(p.label) /\ ApplyArg(p)
        \/ Close /\ UNCHANGED chosen
        \/ stage \notin Arg /\ UNCHANGED chosen /\ \E a \in Arg : EnterArg(a, FALSE)
    BY <1>2 DEF ApplyArg, RunVerb, HasStage
  <2> QED BY <2>1, <2>2, <2>3, <2>4
<1>5. Boxed' /\ InFlight'
  <2>1. ns' \in Label
    BY <1>1, <1>2 DEF ApplyArg, Boxed
  <2>2. \/ inbox' = Take(m)
        \/ \E a \in Arg, k \in BOOLEAN : inbox' = Asked(a, k, Take(m))
    BY <1>2 DEF RunVerb, HasStage
  <2> QED BY <1>1, <2>1, <2>2, AnswerTaken
<1>6. PicksAreWhatWasShown'
  <2>1. \/ UNCHANGED done
        \/ /\ stage # "closed"
           /\ done' = [label |-> p.label, in |-> p.stage, as |-> stage, on |-> p.on, to |-> row]
    BY <1>2 DEF ApplyArg, RunVerb, Done, OnScreen, Arg
  <2>2. CASE UNCHANGED done
    BY <1>1, <2>2, DoneStays
  <2>3. CASE /\ stage # "closed"
             /\ done' = [label |-> p.label, in |-> p.stage, as |-> stage, on |-> p.on, to |-> row]
    BY <1>1, <1>3, <2>3 DEF PicksAreWhatWasShown, Meant
  <2> QED BY <2>1, <2>2, <2>3
<1> QED
  BY <1>4, <1>5, <1>6

LEMMA StepInv == Inv /\ [Next]_vars => Inv'
<1> SUFFICES ASSUME Inv, [Next]_vars PROVE Inv'
  OBVIOUS
<1>1. CASE UNCHANGED vars
  BY <1>1 DEF vars, menu, Inv, OnScreen, Boxed, Anchors, Listing, InFlight, Pressed, Meant,
              PicksAreWhatWasShown
<1>2. CASE Next
  BY <1>2, KeysKeepInv, PreviewKeepsInv, EnterKeepsInv, EscKeepsInv, OthersKeepInv,
     CancelledKeepsInv, LoadedKeepsInv, SelectedKeepsInv DEF Next
<1> QED
  BY <1>1, <1>2

LEMMA Invariance == Spec => []Inv
BY InitInv, StepInv, PTL DEF Spec

(* The palette's state stays well-typed.                                    *)
THEOREM TypeCorrect == Spec => []TypeOK
BY Invariance, InvMeans, PTL

(* Every way out of the theme stage undoes the preview (showPaletteVerbs,   *)
(* closePalette, applyThemeNamed), and none undoes a choice.                *)
THEOREM PreviewCorrect == Spec => []PreviewLeavesNoTrace
BY Invariance, InvMeans, PTL

(* A pick that no other key overtook is carried out in the stage it was     *)
(* made in, and a row verb on the row the palette named (applyPaletteArg,   *)
(* handleCommandSelected).                                                  *)
THEOREM PicksCorrect == Spec => []PicksAreWhatWasShown
BY Invariance, InvMeans, PTL

(* A palette that is open, unless a verb's own key opened it, has shown its *)
(* verbs since it opened.                                                   *)
CameFrom ==
  /\ stage # "closed" /\ ~direct => seen
  /\ stage = "verbs" => seen

LEMMA CameFromStep == Inv /\ CameFrom /\ [Next]_vars => CameFrom'
<1> SUFFICES ASSUME Inv, CameFrom, [Next]_vars PROVE CameFrom'
  OBVIOUS
<1>1. stage = "closed" => listed = {}
  BY DEF Inv, OnScreen
<1>2. ASSUME ShowVerbs \/ Close \/ UNCHANGED <<stage, direct, seen>> PROVE CameFrom'
  BY <1>2 DEF ShowVerbs, Close, CameFrom
<1>3. ASSUME NEW a \in Arg, EnterArg(a, FALSE), seen, seen' = seen PROVE CameFrom'
  BY <1>3 DEF EnterArg, Arg, CameFrom
<1>4. ASSUME NEW a \in Arg, NEW ok \in BOOLEAN, OpenArg(a, ok) PROVE CameFrom'
  BY <1>4 DEF OpenArg, EnterArg, Arg, CameFrom
<1>5. ASSUME NEW a \in Arg, NEW ok \in BOOLEAN, Space(a, ok) PROVE CameFrom'
  BY <1>3, <1>5 DEF Space, CameFrom
<1>6. CASE OpenPalette \/ Backspace \/ Esc \/ SwitchCluster
  BY <1>2, <1>6 DEF OpenPalette, Backspace, Esc, SwitchCluster, menu
<1>7. ASSUME NEW l \in listed, Preview(l) \/ Enter(l) PROVE CameFrom'
  BY <1>2, <1>7 DEF Preview, Enter, menu
<1>8. CASE (\E th \in Theme : BoundTheme(th)) \/ \E r \in Row \cup {None} : WatchEvent(r)
  BY <1>2, <1>8 DEF BoundTheme, WatchEvent, menu
<1>9. ASSUME NEW m \in BagToSet(inbox), Cancelled(m) \/ Loaded(m) PROVE CameFrom'
  BY <1>2, <1>9 DEF Cancelled, Loaded, menu
<1>10. ASSUME NEW m \in BagToSet(inbox), NEW ok \in BOOLEAN, Selected(m, ok) PROVE CameFrom'
  <2>1. CASE ApplyArg(m.pick)
    BY <1>2, <2>1 DEF ApplyArg, Close, CameFrom
  <2>2. CASE stage \notin Arg /\ RunVerb(m.pick, ok, Take(m))
    <3>1. CASE Close
      BY <1>2, <3>1
    <3>2. ASSUME ~Close PROVE CameFrom'
      <4>1. /\ m.pick.label \in listed /\ HasStage(m.pick.label[2])
            /\ EnterArg(m.pick.label[2], FALSE) /\ seen' = seen
        BY <2>2, <3>2 DEF RunVerb
      <4>2. m.pick.label[2] \in Arg
        BY <4>1 DEF HasStage
      <4>3. stage = "verbs"
        BY <1>1, <2>2, <4>1 DEF Inv, OnScreen, Stages
      <4> QED BY <1>3, <4>1, <4>2, <4>3 DEF CameFrom
    <3> QED BY <3>1, <3>2
  <2> QED BY <1>10, <2>1, <2>2 DEF Selected
<1>11. CASE UNCHANGED vars
  BY <1>2, <1>11 DEF vars, menu
<1> QED BY <1>4, <1>5, <1>6, <1>7, <1>8, <1>9, <1>10, <1>11 DEF Next

(* What the two invariants say of a step, and where they begin.             *)
LEMMA EscIsBack ==
  /\ Init => CameFrom
  /\ Inv /\ CameFrom => BackToWhereItCameFrom
<1>1. Init => CameFrom
  BY DEF Init, CameFrom
<1>2. ASSUME Inv, CameFrom, NEW m \in BagToSet(inbox), Cancelled(m), stage' = "verbs", stage # "verbs"
      PROVE  seen
  <2>1. stage \in Arg /\ ~direct
    BY <1>2 DEF Cancelled, Close
  <2> QED BY <1>2, <2>1 DEF CameFrom, Arg
<1> QED BY <1>1, <1>2 DEF BackToWhereItCameFrom

(* app.go's CancelledMsg: Esc shows the verb list only to a reader who has  *)
(* been there since the palette opened (palDirect).                         *)
THEOREM EscCorrect == Spec => EscGoesBack
<1>1. Spec => []CameFrom
  BY InitInv, StepInv, EscIsBack, CameFromStep, PTL DEF Spec
<1>2. Spec => [][BackToWhereItCameFrom]_vars
  BY <1>1, Invariance, EscIsBack, PTL
<1> QED BY <1>2 DEF EscGoesBack
=============================================================================
