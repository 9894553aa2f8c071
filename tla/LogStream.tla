----------------------------- MODULE LogStream -----------------------------
(***************************************************************************)
(* A followed log (kube/logs.go followLogStream, logResumer): lines are    *)
(* read over one connection until it drops, and again from the whole       *)
(* second of the last line over the next, without those already delivered. *)
(* The container writes lines in the order of their time, and ends.        *)
(***************************************************************************)
EXTENDS Naturals, Sequences, FiniteSets

CONSTANTS
  MaxLines,   \* bound: lines the container writes
  TailLines,  \* LogOptions.TailLines, never 0 (tui/logs.go's defaultLogTail)
  Buf,        \* logChanBuffer
  MaxFaults,  \* bound: connections that drop or fail to open
  Torn        \* may a connection drop in the middle of a line

LogStreamAssumption ==
  /\ MaxLines \in Nat /\ TailLines \in Nat \ {0} /\ Buf \in Nat \ {0} /\ MaxFaults \in Nat
  /\ Torn \in BOOLEAN

VARIABLES
  log,       \* the container's log: each line's second, and whether it is too long
  finished,  \* the container has ended
  pc,        \* followLogStream: "opening", "reading", "sending", "backoff", "closed"
  next,      \* the next line of this connection
  last,      \* lastTS as a line's index, 0 before the first (haveLast)
  window,    \* curSec and secLines
  resuming,  \* resuming and resumeSec, 0 when not
  item,      \* the event being sent
  out,       \* the channel
  left,      \* the context is cancelled
  faults,
  midSecond, \* history: the tail began in the middle of a second
  read       \* history: what the reader received

vars == <<log, finished, pc, next, last, window, resuming, item, out, left, faults, midSecond, read>>
world == <<log, finished>>
resumer == <<last, window, resuming>>

Line == [sec : Nat \ {0}, long : BOOLEAN]
(* A raw line is told from another by its index and from its own torn head. *)
Raw == [type : {"line", "torn"}, at : Nat \ {0}]
Error == [type |-> "error", at |-> 1]
Nothing == [type |-> "nothing", at |-> 1]
Event == Raw \cup {Error}

TypeOK ==
  /\ log \in Seq(Line) /\ Len(log) <= MaxLines /\ finished \in BOOLEAN
  /\ pc \in {"opening", "reading", "sending", "backoff", "closed"}
  /\ next \in 1 .. MaxLines + 1 /\ last \in 0 .. Len(log)
  /\ window.sec \in Nat /\ window.lines \subseteq Raw /\ resuming \in Nat
  /\ item \in Event \cup {Nothing} /\ (pc = "sending") = (item # Nothing)
  /\ out \in Seq(Event) /\ Len(out) <= Buf /\ read \in Seq(Event)
  /\ left \in BOOLEAN /\ midSecond \in BOOLEAN /\ faults \in 0 .. MaxFaults

Init ==
  /\ log = <<>> /\ finished = FALSE /\ pc = "opening" /\ next = 1 /\ last = 0
  /\ window = [sec |-> 0, lines |-> {}] /\ resuming = 0 /\ item = Nothing
  /\ out = <<>> /\ left = FALSE /\ faults = 0 /\ midSecond = FALSE /\ read = <<>>

--------------------------- (* the container *) ----------------------------
Now == IF log = <<>> THEN 1 ELSE log[Len(log)].sec
Write(step, long) ==
  /\ ~finished /\ Len(log) < MaxLines
  /\ log' = Append(log, [sec |-> Now + step, long |-> long])
  /\ UNCHANGED <<finished, pc, next, resumer, item, out, left, faults, read, midSecond>>
Finish ==
  /\ ~finished /\ finished' = TRUE
  /\ UNCHANGED <<log, pc, next, resumer, item, out, left, faults, read, midSecond>>

-------------------------- (* followLogStream *) ---------------------------
Quiet == UNCHANGED <<item, out, read>>
Fault == faults < MaxFaults /\ faults' = faults + 1

(* logOpenOptions: the tail the first time, the last line's second after.   *)
Begins(i) == i = 1 \/ log[i - 1].sec < log[i].sec
Start == IF last = 0 THEN (IF Len(log) > TailLines THEN Len(log) - TailLines ELSE 0) + 1
         ELSE CHOOSE i \in 1 .. last : log[i].sec = log[last].sec /\ Begins(i)
MidSecond(i) == i \in 2 .. Len(log) /\ log[i - 1].sec = log[i].sec
Open ==
  /\ pc = "opening" /\ ~left /\ pc' = "reading" /\ next' = Start
  /\ resuming' = IF last = 0 THEN 0 ELSE window.sec
  /\ midSecond' = IF last = 0 THEN MidSecond(Start) ELSE midSecond
  /\ UNCHANGED <<world, last, window, left, faults>> /\ Quiet

(* Nothing delivered yet is taken for never having been connected.          *)
OpenFails ==
  /\ pc = "opening" /\ ~left /\ Fault
  /\ resuming' = IF last = 0 THEN 0 ELSE window.sec
  /\ IF last = 0 THEN pc' = "sending" /\ item' = Error ELSE pc' = "backoff" /\ UNCHANGED item
  /\ UNCHANGED <<world, next, last, window, out, left, read, midSecond>>

(* logResumer.process, on a whole line or on one the connection broke off   *)
(* in, which the scanner hands over like the last line of a file.           *)
(* As if a second were only ever served in one piece: not the code.         *)
ServedBySecond(raw) == resuming > 0 /\ log[raw.at].sec <= resuming
Served(raw) == resuming > 0 /\ log[raw.at].sec <= resuming /\ raw \in window.lines
Process(raw) ==
  LET sec == log[raw.at].sec IN
  /\ resuming' = IF sec > resuming THEN 0 ELSE resuming
  /\ IF Served(raw) THEN UNCHANGED <<last, window>>
     ELSE /\ window' = [sec |-> sec, lines |-> (IF sec = window.sec THEN window.lines ELSE {}) \cup {raw}]
          /\ last' = raw.at
Deliver(raw) == IF Served(raw) THEN UNCHANGED <<pc, item>> ELSE pc' = "sending" /\ item' = raw

Read ==
  /\ pc = "reading" /\ ~left /\ next <= Len(log) /\ ~log[next].long
  /\ LET raw == [type |-> "line", at |-> next] IN Process(raw) /\ Deliver(raw)
  /\ next' = next + 1 /\ UNCHANGED <<world, out, left, faults, read, midSecond>>

(* The scan ends: the log did, the connection did, or a line is too long.   *)
(* Only the first ends the stream.                                          *)
Ended == finished /\ next > Len(log)
ReadEnds ==
  /\ pc = "reading" /\ ~left /\ UNCHANGED <<world, next, resumer, left, midSecond>> /\ Quiet
  /\ \/ Ended /\ pc' = "closed" /\ UNCHANGED faults
     \/ Fault /\ pc' = "backoff"
     \/ next <= Len(log) /\ log[next].long /\ pc' = "backoff" /\ UNCHANGED faults
(* The rest of a torn line comes with the next connection.                  *)
ReadTorn ==
  /\ Torn /\ pc = "reading" /\ ~left /\ next <= Len(log) /\ ~log[next].long /\ Fault
  /\ LET raw == [type |-> "torn", at |-> next] IN
       /\ Process(raw)
       /\ IF Served(raw) THEN pc' = "backoff" /\ UNCHANGED item ELSE pc' = "sending" /\ item' = raw
  /\ UNCHANGED <<world, next, out, left, read, midSecond>>

Backoff ==
  /\ pc = "backoff" /\ ~left /\ pc' = "opening"
  /\ UNCHANGED <<world, next, resumer, left, faults, midSecond>> /\ Quiet

(* sendLog; an error is the last event.                                     *)
Send ==
  /\ pc = "sending" /\ Len(out) < Buf /\ out' = Append(out, item) /\ item' = Nothing
  /\ pc' = CASE item.type = "error" -> "closed" [] item.type = "torn" -> "backoff" [] OTHER -> "reading"
  /\ UNCHANGED <<world, next, resumer, left, faults, read, midSecond>>
GiveUp ==
  /\ left /\ pc # "closed" /\ pc' = "closed" /\ item' = Nothing
  /\ UNCHANGED <<world, next, resumer, out, left, faults, read, midSecond>>

--------------------------- (* the reader *) -------------------------------
Receive ==
  /\ ~left /\ out # <<>> /\ out' = Tail(out) /\ read' = Append(read, Head(out))
  /\ UNCHANGED <<world, pc, next, resumer, item, left, faults, midSecond>>
Leave ==
  /\ ~left /\ left' = TRUE
  /\ UNCHANGED <<world, pc, next, resumer, item, out, faults, read, midSecond>>

Follow == Open \/ OpenFails \/ Read \/ ReadEnds \/ ReadTorn \/ Backoff \/ Send \/ GiveUp
Next == Follow \/ Receive \/ Leave \/ Finish \/ \E step \in 0 .. 1, long \in BOOLEAN : Write(step, long)

(* The goroutine runs, the server answers, and the reader receives until it *)
(* leaves; nothing says the container ends or the reader leaves.            *)
Fairness == WF_vars(Follow) /\ WF_vars(Receive)
Spec == Init /\ [][Next]_vars /\ Fairness
----------------------------- (* properties *) -----------------------------
Delivered == read \o out
TornSoFar == \E i \in DOMAIN Delivered : Delivered[i].type = "torn"
InTurn ==
  \A i, j \in DOMAIN Delivered :
    j = i + 1 /\ Delivered[j].type = "line" => Delivered[j].at = Delivered[i].at + 1

(* Logs' promise: an uninterrupted, duplicate-free stream of lines, however *)
(* often the connection dropped, up to the log's last line if that is how   *)
(* it ends; here as long as no connection drops in the middle of a line.    *)
StreamIsTheLog ==
  ~TornSoFar =>
    /\ InTurn
    /\ pc = "closed" /\ ~left /\ Delivered # <<>> /\ Error \notin {Delivered[i] : i \in DOMAIN Delivered}
         => Delivered[Len(Delivered)].at = Len(log)

(* It keeps that promise if the tail it starts with begins with a second.   *)
TailedStreamIsTheLog == ~midSecond => StreamIsTheLog

(* The goroutine ends with the container's log, and with its reader.  (With *)
(* an over-long line it does not: every connection ends there.)             *)
Ending == left \/ (finished /\ \A i \in DOMAIN log : ~log[i].long)
Closed == pc = "closed"
StreamEnds == Ending ~> Closed

(* Why: what was delivered ends with the last line taken, and the window    *)
(* holds that line's second whole up to it, so a connection served from the *)
(* start of that second passes over those lines and no other.               *)
Ordered ==
  /\ \A i, j \in DOMAIN log : i <= j => log[i].sec <= log[j].sec
  /\ \A n \in DOMAIN log : \E i \in 1 .. n : log[i].sec = log[n].sec /\ Begins(i)
LastIs(n) == Delivered # <<>> /\ Delivered[Len(Delivered)].at = n
NoError == \A i \in DOMAIN Delivered : Delivered[i].type # "error"
Untaken ==
  last = 0 =>
    /\ window = [sec |-> 0, lines |-> {}] /\ resuming = 0 /\ item \in {Nothing, Error}
    /\ Delivered # <<>> => pc = "closed" /\ ~NoError
    /\ pc = "reading" /\ ~midSecond => next = 1 \/ (next <= Len(log) /\ Begins(next))
InWindow == {raw \in [type : {"line"}, at : 1 .. last] : log[raw.at].sec = log[last].sec}
Resumes ==
  /\ next <= last + 1
  /\ next <= last => resuming = window.sec /\ \A i \in next .. last : log[i].sec = window.sec
Placed ==
  /\ window.sec = log[last].sec /\ window.lines = InWindow /\ resuming \in {0, window.sec}
  /\ pc = "reading" => Resumes
  /\ pc = "sending" => /\ item = [type |-> "line", at |-> last] /\ next = last + 1
                       /\ Delivered # <<>> => LastIs(last - 1)
  /\ pc # "sending" => LastIs(last)
Whole == ~midSecond /\ ~TornSoFar
Inv ==
  /\ TypeOK /\ Ordered /\ Untaken
  /\ pc # "closed" => NoError
  /\ Whole => InTurn
  /\ Whole /\ last > 0 /\ pc # "closed" /\ item.type # "torn" => Placed
  /\ Whole /\ pc = "closed" /\ ~left /\ Delivered # <<>> /\ NoError => finished /\ LastIs(Len(log))
=============================================================================
