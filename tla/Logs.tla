-------------------------------- MODULE Logs --------------------------------
(***************************************************************************)
(* The logs view (tui/logs.go, components/logsview): lines pumped in       *)
(* batches from the stream asked for last, held up to a cap, and narrowed  *)
(* by a filter whose result is kept up to date line by line; a cursor and  *)
(* a selection that stay on their lines as others come and go; and the     *)
(* previous instance's log, which falls back to the current one's.         *)
(***************************************************************************)
EXTENDS Naturals, Sequences, FiniteSets, SequencesExt, FiniteSetsExt

CONSTANTS
  MaxLines, Chunk,  \* MaxLines, trimChunk
  Batch,            \* the most lines in one message (logBatchMax)
  MaxWritten,       \* bound: lines the streams deliver
  MaxKeys           \* bound: keys the reader presses

LogsAssumption ==
  /\ MaxLines \in Nat \ {0} /\ Chunk \in Nat \ {0} /\ Batch \in Nat /\ MaxWritten \in Nat /\ MaxKeys \in Nat

VARIABLES
  view,      \* the logs view
  previous,  \* logReq.previous
  gen,       \* viewerGen
  inbox,     \* the pumps in flight
  written,   \* lines delivered so far
  keys

vars == <<view, previous, gen, inbox, written, keys>>

(* A filter is empty, one that some lines match, or no regular expression.  *)
Empty == ""
Query == {Empty, "f", "("}
None == "none"
Line == [n : Nat \ {0}, f : BOOLEAN, gen : Nat]
Pump == [gen : Nat, previous : BOOLEAN]

View == [active : BOOLEAN, lines : Seq(Line), shown : Seq(Nat), trimmed : BOOLEAN,
         cursor : Nat, anchor : Nat, following : BOOLEAN, resume : BOOLEAN,
         filtering : BOOLEAN, query : Query, regex : BOOLEAN, re : {None, "f"}]
TypeOK ==
  /\ view \in View /\ Len(view.lines) < MaxLines + Chunk
  /\ previous \in BOOLEAN /\ gen \in Nat /\ inbox \subseteq Pump /\ written \in 0 .. MaxWritten /\ keys \in 0 .. MaxKeys

Fresh == [active |-> FALSE, lines |-> <<>>, shown |-> <<>>, trimmed |-> FALSE, cursor |-> 0, anchor |-> 0,
          following |-> TRUE, resume |-> FALSE, filtering |-> FALSE, query |-> Empty, regex |-> FALSE, re |-> None]
Init == view = Fresh /\ previous = FALSE /\ gen = 0 /\ inbox = {} /\ written = 0 /\ keys = 0

---------------------------- (* what is shown *) ----------------------------
(* matcher: a regular expression that does not compile leaves the last that *)
(* did in force, and one that never did keeps nothing.                      *)
Keeps(v, line) == CASE v.query = Empty -> TRUE
                    [] v.query # Empty /\ v.regex -> v.re # None /\ line.f
                    [] OTHER -> v.query = "f" /\ line.f
Compile(v) == [v EXCEPT !.re = CASE ~v.regex \/ v.query = Empty -> None
                                 [] v.regex /\ v.query = "(" -> @
                                 [] OTHER -> v.query]
Kept(v) ==
  LET upTo[n \in 0 .. Len(v.lines)] ==
        IF n = 0 THEN <<>>
        ELSE IF Keeps(v, v.lines[n]) THEN Append(upTo[n - 1], n) ELSE upTo[n - 1]
  IN upTo[Len(v.lines)]

AtOrAfter(shown, i) == 1 + Cardinality({k \in DOMAIN shown : shown[k] < i})   \* slices.BinarySearch
FollowsNothing(old, at, new) == at                                             \* not the code
Follows(old, at, new) == IF at \in DOMAIN old THEN AtOrAfter(new, old[at]) ELSE at
Place(v) ==                                                                   \* placeCursor
  LET n == Len(v.shown)
      cursor == CASE n = 0 -> 0
                  [] n > 0 /\ v.following -> n
                  [] OTHER -> Max({1, Min({v.cursor, n})})
  IN [v EXCEPT !.cursor = cursor, !.anchor = Min({@, n})]
Render(v) ==                                                                  \* rebuildShown, syncContent
  LET new == Kept(v)
  IN Place([v EXCEPT !.shown = new, !.cursor = Follows(v.shown, @, new), !.anchor = Follows(v.shown, @, new)])

(* appendLine extends what is shown; trim drops the oldest lines of both.   *)
ExtendUnfiltered(v, line) ==   \* not the code: a new line is always shown
  [v EXCEPT !.lines = Append(@, line), !.shown = Append(@, Len(v.lines) + 1)]
Extend(v, line) ==
  [v EXCEPT !.lines = Append(@, line),
            !.shown = IF Keeps(v, line) THEN Append(@, Len(v.lines) + 1) ELSE @]
Trim(v) ==
  LET drop == Len(v.lines) - MaxLines
      cut  == Cardinality({k \in DOMAIN v.shown : v.shown[k] <= drop})
      back(at) == IF at > cut + 1 THEN at - cut ELSE 1
      rest == SubSeq(v.shown, cut + 1, Len(v.shown))
  IN IF Len(v.lines) < MaxLines + Chunk THEN v
     ELSE [v EXCEPT !.lines = SubSeq(@, drop + 1, Len(@)), !.trimmed = TRUE,
                    !.shown = [k \in DOMAIN rest |-> rest[k] - drop],
                    !.cursor = IF cut > 0 THEN back(@) ELSE @,
                    !.anchor = IF cut > 0 /\ @ > 0 THEN back(@) ELSE @]
AppendBatch(v, batch) == IF batch = <<>> THEN v ELSE Place(Trim(FoldLeft(Extend, v, batch)))

------------------------------ (* the keys *) ------------------------------
Key == view.active /\ keys < MaxKeys /\ keys' = keys + 1
Same == UNCHANGED <<previous, gen, inbox, written>>
EndSelect(v, resume) ==
  IF v.anchor = 0 THEN v
  ELSE [v EXCEPT !.anchor = 0, !.resume = FALSE, !.following = @ \/ (resume /\ v.resume)]
CloseFilter(v) == IF v.filtering THEN Compile([v EXCEPT !.filtering = FALSE, !.query = Empty]) ELSE v

MoveTo(v, at) == IF v.shown = <<>> THEN v ELSE Place([v EXCEPT !.cursor = at])
Up(to) ==
  /\ Key /\ to <= Max({1, view.cursor - 1}) /\ view' = MoveTo([view EXCEPT !.following = FALSE], to) /\ Same
(* Down past the newest line follows again, but not in a selection.         *)
AtNewest == ~view.following /\ view.anchor = 0 /\ view.shown # <<>> /\ view.cursor = Len(view.shown)
Down ==
  /\ Key /\ view' = IF AtNewest THEN Place([view EXCEPT !.following = TRUE]) ELSE MoveTo(view, view.cursor + 1)
  /\ Same
Bottom ==
  /\ Key /\ view' = IF view.anchor > 0 THEN MoveTo(view, Len(view.shown)) ELSE Place([view EXCEPT !.following = TRUE])
  /\ Same
ToggleFollow ==
  /\ Key /\ view' = Place([EndSelect(view, FALSE) EXCEPT !.following = ~view.following]) /\ Same
Select ==
  /\ Key /\ Same
  /\ view' = Place(CASE view.anchor > 0 -> EndSelect(view, TRUE)
                     [] view.anchor = 0 /\ view.shown = <<>> -> view
                     [] OTHER -> [view EXCEPT !.anchor = Max({view.cursor, 1}), !.resume = view.following,
                                              !.following = FALSE])
Yank == Key /\ view.cursor > 0 /\ view' = Place(EndSelect(view, TRUE)) /\ Same
OpenFilter == Key /\ ~view.filtering /\ view' = Render([view EXCEPT !.filtering = TRUE]) /\ Same
TypeFilter(q) ==
  /\ Key /\ view.filtering /\ q # view.query /\ view' = Render(Compile([view EXCEPT !.query = q])) /\ Same
ToggleRegex == Key /\ view' = Render(Compile([view EXCEPT !.regex = ~@])) /\ Same

Close(v) == [CloseFilter(v) EXCEPT !.active = FALSE]
CloseLogs == view' = Close(view) /\ gen' = gen + 1
Back ==
  /\ Key /\ UNCHANGED <<previous, inbox, written>>
  /\ CASE view.filtering -> view' = Render(CloseFilter(view)) /\ UNCHANGED gen
       [] ~view.filtering /\ view.anchor > 0 -> view' = Place(EndSelect(view, TRUE)) /\ UNCHANGED gen
       [] OTHER -> CloseLogs

--------------------------- (* the streams *) ------------------------------
Restream(v) == Render([v EXCEPT !.lines = <<>>, !.shown = <<>>, !.cursor = 0, !.anchor = 0,
                                !.trimmed = FALSE, !.resume = FALSE, !.following = TRUE])
Started(prev, box) == /\ previous' = prev /\ gen' = gen + 1
                      /\ inbox' = box \cup {[gen |-> gen + 1, previous |-> prev]}
OpenLogs ==
  /\ ~view.active /\ keys < MaxKeys /\ keys' = keys + 1 /\ UNCHANGED written
  /\ view' = [Restream(Compile([CloseFilter(view) EXCEPT !.regex = FALSE])) EXCEPT !.active = TRUE]
  /\ Started(FALSE, inbox)
TogglePrevious ==
  /\ Key /\ view' = Restream(view) /\ Started(~previous, inbox) /\ UNCHANGED written

(* handleLogMsg: a batch, and what ended the stream if anything did.        *)
Stop(m) == inbox' = inbox \ {m}
Ended(m, v, end) ==
  CASE end = "open"   -> view' = v /\ UNCHANGED <<previous, gen, inbox>>
    [] end = "closed" -> view' = v /\ Stop(m) /\ UNCHANGED <<previous, gen>>
    [] end = "error" /\ v.lines = <<>> /\ previous  -> view' = v /\ Started(FALSE, inbox \ {m})
    [] end = "error" /\ v.lines = <<>> /\ ~previous -> /\ view' = Close(v) /\ gen' = gen + 1
                                                       /\ Stop(m) /\ UNCHANGED previous
    [] OTHER -> view' = v /\ Stop(m) /\ UNCHANGED <<previous, gen>>
Current(m) == m.gen = gen /\ view.active
Stamped(m, fs) == [i \in DOMAIN fs |-> [n |-> written + i, f |-> fs[i], gen |-> m.gen]]
LogMsg(m, fs, end) ==
  /\ written + Len(fs) <= MaxWritten /\ (fs = <<>> => end # "open") /\ UNCHANGED keys
  /\ IF Current(m) THEN written' = written + Len(fs) /\ Ended(m, AppendBatch(view, Stamped(m, fs)), end)
     ELSE Stop(m) /\ UNCHANGED <<view, previous, gen, written>>

Handle(m) == \E fs \in SeqOf(BOOLEAN, Batch), end \in {"open", "closed", "error"} : LogMsg(m, fs, end)
Next ==
  \/ Down \/ Bottom \/ ToggleFollow \/ Select \/ Yank \/ OpenFilter \/ ToggleRegex \/ Back \/ OpenLogs \/ TogglePrevious
  \/ \E to \in 1 .. MaxLines : Up(to)
  \/ \E q \in Query : TypeFilter(q)
  \/ \E m \in inbox : Handle(m)
Spec == Init /\ [][Next]_vars

----------------------------- (* properties *) -----------------------------
(* shownLines' comment: what is shown, kept up line by line, is always what *)
(* filtering every line again would show; the cursor is on one of the lines *)
(* shown, on the newest while following; and the lines are all of the       *)
(* stream asked for last.                                                   *)
ShownIsARebuild ==
  view.active =>
    /\ view.shown = Kept(view) /\ view.cursor \in DOMAIN view.shown \cup {0}
    /\ (view.cursor = 0) = (view.shown = <<>>) /\ view.anchor <= Len(view.shown)
    /\ view.following => view.cursor = Len(view.shown)
    /\ \A i \in DOMAIN view.lines : view.lines[i].gen = gen

Inv == TypeOK /\ ShownIsARebuild

(* Lines that come and go, and changes of the filter, leave the cursor and  *)
(* the selection's start on their lines as long as those lines are shown.   *)
LineAt(v, at) == v.lines[v.shown[at]].n
ShownLines(v) == {LineAt(v, k) : k \in DOMAIN v.shown}
StaysOn(old, new) == old > 0 /\ LineAt(view, old) \in ShownLines(view') => new > 0 /\ LineAt(view', new) = LineAt(view, old)
Disturbs == (\E m \in inbox : Handle(m)) \/ ToggleRegex \/ \E q \in Query : TypeFilter(q)
LinesStay ==
  /\ ~view.following /\ view'.active
  /\ ~StaysOn(view.cursor, view'.cursor) \/ ~StaysOn(view.anchor, view'.anchor)
  => ~Disturbs
LinesStayUnderTheCursor == [][LinesStay]_vars
=============================================================================
