-------------------------------- MODULE Keys --------------------------------
(***************************************************************************)
(* From key presses to actions (tui/app.go, keymap/sequencer.go), and what *)
(* the key log makes of them afterwards (tui/keylog.go, internal/keylog).  *)
(* A prefix waits for its next key or for a timer; a surface that opens    *)
(* meanwhile takes the keys but leaves the prefix where it is.  Matching   *)
(* itself is the myelin library's: Feed and Expire are what the Sequencer  *)
(* relies on.                                                              *)
(***************************************************************************)
EXTENDS Naturals, Sequences, SequencesExt, Functions

CONSTANTS
  KeyName,
  Browse, Text,     \* the surfaces whose keys are sequenced; those that take text
  Bound,            \* the sequences bound on every browsing surface
  AcceptKeys,       \* the keys a confirm dialog resolves, one at a time
  MaxPresses        \* bound: keys pressed

Confirm == "confirm"
Surface == Browse \cup Text \cup {Confirm}
KeysAssumption ==
  /\ Confirm \notin Browse \cup Text /\ Browse \cap Text = {} /\ Browse # {}
  /\ AcceptKeys \subseteq KeyName /\ Bound \subseteq Seq(KeyName) \ {<<>>}
  /\ MaxPresses \in Nat

VARIABLES
  surface,
  pending,   \* the Sequencer: keys held, where the first was typed, the last's number
  seqGen,
  timers,    \* ticks armed: the generation and the press that armed them
  expired,   \* a timer has emptied the sequencer since the last press
  trace,     \* the key log
  ran,       \* history: what the sequencer last ran, and on whose word
  abandoned, \* history: the prefixes that came to nothing
  strayed    \* history: a key went elsewhere, or a short form ran, under a prefix

vars == <<surface, pending, seqGen, timers, expired, trace, ran, abandoned, strayed>>

Empty   == [seq |-> <<>>, on |-> Confirm, n |-> 0]
NoRun   == [seq |-> <<>>, on |-> Confirm, armed |-> 0, last |-> 0]
Press   == [key : KeyName, surface : Surface, acted : BOOLEAN, held : BOOLEAN, late : BOOLEAN]

TypeOK ==
  /\ surface \in Surface
  /\ pending \in [seq : Seq(KeyName), on : Surface, n : 0 .. Len(trace)]
  /\ pending.seq # <<>> => pending.on \in Browse
  /\ trace \in Seq(Press) /\ Len(trace) <= MaxPresses /\ seqGen \in 0 .. Len(trace)
  /\ timers \subseteq [gen : 1 .. seqGen, n : 1 .. Len(trace)]
  /\ expired \in BOOLEAN /\ strayed \in BOOLEAN /\ abandoned \in Seq(Seq(KeyName))

Init ==
  /\ surface \in Browse /\ pending = Empty /\ seqGen = 0 /\ timers = {} /\ expired = FALSE
  /\ trace = <<>> /\ ran = NoRun /\ abandoned = <<>> /\ strayed = FALSE

Longer(s) == \E b \in Bound : IsStrictPrefix(s, b)
Fits(s)   == s \in Bound \/ Longer(s)

(* Sequencer.Input: a key that fits nothing held is fed again on its own.   *)
Input(k) == LET s == Append(pending.seq, k) IN IF Fits(s) THEN s ELSE <<k>>

(* Update, a key on a surface that browses.                                 *)
PressKey(k) ==
  LET s     == Input(k)
      fresh == Len(s) = 1 /\ pending.seq # <<>>
      n     == Len(trace) + 1
      holds == Longer(s)
      runs  == s \in Bound /\ ~holds
  IN /\ surface \in Browse /\ n <= MaxPresses
     /\ pending' = IF holds
          THEN [seq |-> s, on |-> IF Len(s) = 1 THEN surface ELSE pending.on, n |-> n] ELSE Empty
     /\ seqGen' = IF holds THEN seqGen + 1 ELSE seqGen
     /\ timers' = IF holds THEN timers \cup {[gen |-> seqGen + 1, n |-> n]} ELSE timers
     /\ ran' = IF runs THEN [seq |-> s, on |-> surface, armed |-> n, last |-> n] ELSE ran
     /\ abandoned' = IF fresh THEN Append(abandoned, pending.seq) ELSE abandoned
     /\ strayed' = (strayed \/ (fresh /\ holds))
     /\ trace' = Append(trace, [key |-> k, surface |-> surface, acted |-> runs,
                                held |-> holds, late |-> expired])
     /\ expired' = FALSE /\ UNCHANGED surface

(* Update, a key on a surface that takes keys one at a time: the sequencer  *)
(* is not fed, nor reset.                                                   *)
PressElsewhere(k) ==
  /\ surface \notin Browse /\ Len(trace) < MaxPresses
  /\ trace' = Append(trace, [key |-> k, surface |-> surface, held |-> FALSE, late |-> expired,
                             acted |-> surface = Confirm /\ k \in AcceptKeys])
  /\ strayed' = (strayed \/ pending.seq # <<>>) /\ expired' = FALSE
  /\ UNCHANGED <<surface, pending, seqGen, timers, ran, abandoned>>

(* A timer superseded since it was armed; and as if any would do.           *)
StaleIfEmpty(t) == pending.seq = <<>>
Stale(t) == t.gen # seqGen \/ pending.seq = <<>>
(* seqTimeoutMsg: what is held resolves to its short form, if it has one.   *)
Timeout(t) ==
  /\ timers' = timers \ {t}
  /\ IF Stale(t) THEN UNCHANGED <<pending, expired, ran, abandoned, strayed>>
     ELSE /\ pending' = Empty /\ expired' = TRUE
          /\ IF pending.seq \in Bound
               THEN /\ ran' = [seq |-> pending.seq, on |-> surface, armed |-> t.n, last |-> pending.n]
                    /\ strayed' = TRUE /\ UNCHANGED abandoned
               ELSE /\ abandoned' = Append(abandoned, pending.seq) /\ UNCHANGED <<ran, strayed>>
  /\ UNCHANGED <<surface, seqGen, trace>>

(* A surface opens or closes: an action's doing, or a late message's.       *)
Surfaces(s) ==
  /\ s # surface /\ surface' = s
  /\ UNCHANGED <<pending, seqGen, timers, expired, trace, ran, abandoned, strayed>>

Next ==
  \/ \E k \in KeyName : PressKey(k) \/ PressElsewhere(k)
  \/ \E t \in timers : Timeout(t)
  \/ \E s \in Surface : Surfaces(s)

Spec == Init /\ [][Next]_vars

------------------------------ (* keylog *) ---------------------------------
(* abandonedSequences: one pass over the trace, keeping the run of held     *)
(* presses and what has been reported.  A run is let off if, with the press *)
(* that ended it, it is a binding.                                          *)
Flushed(st, after) ==
  IF st.run = <<>> \/ (after # <<>> /\ st.run \o after \in Bound)
    THEN [run |-> <<>>, out |-> st.out] ELSE [run |-> <<>>, out |-> Append(st.out, st.run)]
Scan(st, rec) ==
  IF ~rec.held THEN Flushed(st, <<rec.key>>)
  ELSE LET from == IF st.run # <<>> /\ rec.late THEN Flushed(st, <<>>) ELSE st
       IN [from EXCEPT !.run = Append(@, rec.key)]
Tallies == [run : Seq(KeyName), out : Seq(Seq(KeyName))]
Tally(records) == FoldLeft(Scan, [run |-> <<>>, out |-> <<>>], records)
AbandonedSequences(records) == Flushed(Tally(records), <<>>).out

(* Analyze's dead ends: a press that did nothing, held nothing and was not  *)
(* typed into a field.                                                      *)
DeadEnds(records) ==
  {i \in DOMAIN records : ~records[i].acted /\ ~records[i].held /\ records[i].surface \notin Text}

----------------------------- (* properties *) ------------------------------
(* scheduleTimeout's "an earlier timer, left over from a prefix already     *)
(* resolved, cannot fire this one early": what a timer runs is what its own *)
(* key left waiting.                                                        *)
TimersRunTheirOwn == ran.armed = ran.last

(* The report makes nothing up: what it calls abandoned the sequencer gave  *)
(* up, though timeouts are not in the trace; unless keys went to another    *)
(* surface under a prefix, one prefix broke off another, or a short form    *)
(* ran on a timeout.                                                        *)
Report == AbandonedSequences(trace)
GivenUp == abandoned \o IF pending.seq = <<>> THEN <<>> ELSE <<pending.seq>>
ReportIsTrue ==
  ~strayed => Range(Report) \subseteq Range(GivenUp) /\ Len(Report) <= Len(GivenUp)

(* abandonedSequences' comment, "if no (or the trace ended), it was         *)
(* abandoned and is reported": nothing given up is left out.                *)
NothingIsHidden == ~strayed => Len(Report) = Len(GivenUp)

(* What the two rest on: the timer of the keys that wait is the last one's, *)
(* and abandonedSequences, as far as the trace goes, has the keys that wait *)
(* as its run, or the run a timer gave up since.                            *)
LastTimer == pending.seq # <<>> => \A t \in timers : t.gen = seqGen => t.n = pending.n
TalliedSoFar ==
  LET st == Tally(trace)
  IN ~strayed =>
       /\ pending.seq # <<>> => st.run = pending.seq /\ ~expired
       /\ pending.seq = <<>> /\ st.run # <<>> =>
            expired /\ st.run \in Range(abandoned) /\ Len(st.out) < Len(abandoned)
       /\ Range(st.out) \subseteq Range(abandoned) /\ Len(st.out) <= Len(abandoned)
Inv == TypeOK /\ Tally(trace) \in Tallies /\ LastTimer /\ TimersRunTheirOwn /\ TalliedSoFar

(* Sequencer.Reset's "e.g. on focus change": an action runs on the surface  *)
(* its keys were typed on.                                                  *)
ActsWhereTyped ==
  [][\A t \in timers : Timeout(t) /\ ran' # ran => ran'.on = pending.on]_vars
=============================================================================
