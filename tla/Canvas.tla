------------------------------- MODULE Canvas -------------------------------
(***************************************************************************)
(* The canvas probe (tui/canvas.go): some time after a palette is put on,  *)
(* the terminal is asked for its background, and an answer of the other    *)
(* polarity than the palette's raises a warning.  The palette's preview    *)
(* (tui/theme.go) repaints without any of this.  A theme is a name and a   *)
(* polarity; the terminal, its latency and the frames are external.        *)
(***************************************************************************)
EXTENDS Naturals, Sequences, FiniteSets

CONSTANTS
  Themes,     \* palettes: each a polarity and a name
  Own,        \* the terminal's own background's polarity
  MaxGen,     \* bound: palettes picked
  MaxAnswers  \* bound: answers on the way

Polarity == {"dark", "light"}
CanvasAssumption ==
  /\ Own \in Polarity /\ \A th \in Themes : th.polarity \in Polarity
  /\ MaxGen \in Nat /\ MaxAnswers \in Nat

VARIABLES
  honours,   \* the terminal does set the background it is asked to
  painted,   \* the palette of the last frame
  shown,     \* the one the shell wears, previewed or picked
  anchor,    \* the one picked, while another is previewed
  gen, awaiting,
  ticks,     \* probes armed: their generation, and whether their palette's frame is out
  answers,   \* the terminal's reports on the way: the palette each was made under
  warned,
  moved      \* history: a preview, or a report slower than the next probe, may mislead it

vars == <<honours, painted, shown, anchor, gen, awaiting, ticks, answers, warned, moved>>

None == [polarity |-> Own, name |-> "none"]
Tick == [gen : 0 .. MaxGen, framed : BOOLEAN]

TypeOK ==
  /\ honours \in BOOLEAN /\ {painted, shown} \subseteq Themes /\ anchor \in Themes \cup {None}
  /\ gen \in 0 .. MaxGen /\ awaiting \in BOOLEAN /\ ticks \subseteq Tick /\ answers \in Seq(Themes)
  /\ warned \in BOOLEAN /\ moved \in BOOLEAN

Init ==
  /\ honours \in BOOLEAN /\ shown \in Themes /\ painted = shown /\ anchor = None
  /\ gen = 0 /\ awaiting = FALSE /\ ticks = {[gen |-> 0, framed |-> TRUE]} /\ answers = <<>>
  /\ warned = FALSE /\ moved = FALSE

(* What a terminal reports under a palette, and whether an older report is  *)
(* still on the way.                                                        *)
Reported(th) == IF honours THEN th.polarity ELSE Own
Belated == \E i \in DOMAIN answers : answers[i] # shown

(* A frame carries the background request out; the probe's delay leaves     *)
(* time for its palette's own frame.                                        *)
Paint ==
  /\ painted # shown \/ \E k \in ticks : ~k.framed
  /\ painted' = shown /\ ticks' = {[k EXCEPT !.framed = TRUE] : k \in ticks}
  /\ moved' = (moved /\ (anchor # None \/ (awaiting /\ Belated)))
  /\ UNCHANGED <<honours, shown, anchor, gen, awaiting, answers, warned>>
(* A probe armed for the palette worn now.                                  *)
Due(k) == k.gen = gen
(* handleCanvasProbe: the query goes out at once and is answered for the    *)
(* frame that is on the screen.                                             *)
HandleCanvasProbe(k) ==
  /\ k.framed /\ ticks' = ticks \ {k} /\ Len(answers) < MaxAnswers
  /\ IF Due(k)
     THEN awaiting' = TRUE /\ answers' = Append(answers, painted) /\ moved' = (moved \/ Belated)
     ELSE UNCHANGED <<awaiting, answers, moved>>
  /\ UNCHANGED <<honours, painted, shown, anchor, gen, warned>>
(* A report nobody asked for, such as one on a theme change of its own.     *)
Unsolicited ==
  /\ Len(answers) < MaxAnswers /\ answers' = Append(answers, painted)
  /\ UNCHANGED <<honours, painted, shown, anchor, gen, awaiting, ticks, warned, moved>>
(* handleBackgroundColor and checkCanvas.                                   *)
HandleBackgroundColor ==
  /\ answers # <<>> /\ answers' = Tail(answers) /\ awaiting' = FALSE
  /\ warned' = (warned \/ (awaiting /\ Reported(Head(answers)) # shown.polarity))
  /\ UNCHANGED <<honours, painted, shown, anchor, gen, ticks, moved>>

(* applyThemeNamed: a pick starts a new generation and retires the older    *)
(* one's answer; the palette picked may be painted already, by its preview. *)
(* As if only the tick were retired: not the code.                          *)
RetireNothing == UNCHANGED awaiting
Retire == awaiting' = FALSE
Apply ==
  /\ gen < MaxGen /\ gen' = gen + 1 /\ Retire
  /\ shown' \in Themes \ {IF anchor = None THEN shown ELSE anchor} /\ anchor' = None
  /\ ticks' = ticks \cup {[gen |-> gen', framed |-> painted = shown']} /\ moved' = FALSE
  /\ UNCHANGED <<honours, painted, answers, warned>>
Preview ==
  /\ shown' \in Themes \ {shown} /\ anchor' = (IF anchor = None THEN shown ELSE anchor) /\ moved' = TRUE
  /\ UNCHANGED <<honours, painted, gen, awaiting, ticks, answers, warned>>
RestoreThemeAnchor ==
  /\ anchor # None /\ shown' = anchor /\ anchor' = None /\ moved' = TRUE
  /\ UNCHANGED <<honours, painted, gen, awaiting, ticks, answers, warned>>

Next == \/ Paint \/ Unsolicited \/ HandleBackgroundColor \/ Apply \/ Preview \/ RestoreThemeAnchor
        \/ \E k \in ticks : HandleCanvasProbe(k)
Spec == Init /\ [][Next]_vars
----------------------------- (* properties *) -----------------------------
(* A terminal that does as it is asked is warned about only if a preview    *)
(* came between, or a report outlasted the next probe's delay: a pick       *)
(* retires the probe and the report under way (canvasGen, awaitingCanvas).  *)
WarnsIfMoved == (warned' /\ ~warned /\ honours) => moved
WarnsIfIgnored == [][WarnsIfMoved]_vars
(* "A false 'it did not land'" is what the probe's delay is there to avoid  *)
(* (canvasProbeDelay).                                                      *)
WarningsAreTrue == warned => ~honours

(* Why: until something may mislead the probe, the answers it waits for are *)
(* made under the palette worn, and a probe that is due finds it painted.   *)
Undisturbed ==
  ~moved =>
    /\ awaiting => painted = shown /\ ~Belated
    /\ \A k \in ticks : k.framed /\ Due(k) => painted = shown
Inv == TypeOK /\ (\A k \in ticks : k.gen <= gen) /\ Undisturbed
=============================================================================
