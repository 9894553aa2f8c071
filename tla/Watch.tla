------------------------------- MODULE Watch -------------------------------
(***************************************************************************)
(* The live browse pane, end to end: the API server's versioned            *)
(* collection, the reconnecting List->Watch goroutine (kube/watch.go), the *)
(* bounded channel it feeds, the one-receive-per-command pump              *)
(* (tui/msg.go), and the table the shell folds the events onto             *)
(* (tui/app.go handleWatchMsg, components/table ApplyEvent).               *)
(*                                                                         *)
(* The server is external: it is modelled by what watch.go relies on.      *)
(* Versions count every write in the cluster, so some leave this           *)
(* collection unchanged; a bookmark is how a watcher learns of those.      *)
(***************************************************************************)
EXTENDS Integers, Sequences

CONSTANTS
  Uid,        \* the objects of the watched collection
  Row,        \* what one table row may show of an object
  Absent,     \* no row: the object does not exist
  MaxRV,      \* bound: the last resource version the server reaches
  Buf,        \* watchChanBuffer
  MaxFaults   \* bound: failed requests and dropped streams

ASSUME AbsentAssumption == Absent \notin Row
ASSUME BoundAssumption  == MaxRV \in Nat /\ Buf \in Nat \ {0} /\ MaxFaults \in Nat

Version  == 0..MaxRV
NoRV     == -1                               \* the empty resourceVersion string
Gone     == -2                               \* a connection the server cannot serve
Snapshot == [Uid -> Row \cup {Absent}]
Blank    == [u \in Uid |-> Absent]

VARIABLES
  \* the API server
  now,        \* latest resource version
  hist,       \* hist[v]: the collection at version v
  floor,      \* the oldest version a watch may still resume from
  watchable,  \* whether it serves watches of this kind at all (else 405)
  faults,     \* failures so far
  \* the watch goroutine
  pc,         \* where watchLoop is
  rv,         \* its resourceVersion
  needList,   \* a List is due
  listOnly,   \* degraded to periodic Lists
  lastRV,     \* streamTableWatch's lastRV, NoRV before the first event
  pos,        \* the version the open connection has been read up to
  ev,         \* the event sendWatch is delivering (Error when it is not)
  chan,       \* the bounded channel
  cancelled,  \* the watch context is cancelled
  \* the shell
  pump,       \* the pump command: receiving, delivering its message, or ended
  msg,        \* the message it delivers (Closed when it does not)
  rows,       \* the table's rows
  notice,     \* the reason an empty pane carries (table.SetNotice)
  shown       \* history variable: the version the rows belong to

server == <<now, hist, floor>>
conn   == <<lastRV, pos>>
ui     == <<pump, msg, rows, notice, shown>>
vars   == <<now, hist, floor, watchable, faults, pc, rv, needList, listOnly,
            lastRV, pos, ev, chan, cancelled, pump, msg, rows, notice, shown>>

(* Events: a RESET carries the whole collection, a delta one object's row   *)
(* (Absent for DELETED), an ERROR nothing.  "rv" is the version the object  *)
(* list or the object carried.                                              *)
Reset(v, s)    == [type |-> "RESET", rv |-> v, rows |-> s]
Delta(v, u, r) == [type |-> "DELTA", rv |-> v, uid |-> u, row |-> r]
Error          == [type |-> "ERROR"]
Closed         == [type |-> "CLOSED"]

ResetEvents == { Reset(v, s) : v \in Version, s \in Snapshot }
DeltaEvents == { Delta(v, u, r) : v \in Version, u \in Uid, r \in Row \cup {Absent} }
Event       == ResetEvents \cup DeltaEvents \cup {Error}

Sending == {"sendReset", "sendListError", "sendOpenError", "sendDelta"}
PCs     == {"top", "list", "open", "stream", "poll", "backoff", "done"} \cup Sending

TypeOK ==
  /\ now \in Version
  /\ hist \in [Version -> Snapshot]
  /\ floor \in Version
  /\ watchable \in BOOLEAN
  /\ faults \in 0..MaxFaults
  /\ pc \in PCs
  /\ rv \in Version
  /\ needList \in BOOLEAN
  /\ listOnly \in BOOLEAN
  /\ lastRV \in Version \cup {NoRV}
  /\ pos \in Version \cup {Gone}
  /\ ev \in Event
  /\ chan \in Seq(Event) /\ Len(chan) <= Buf
  /\ cancelled \in BOOLEAN
  /\ pump \in {"receiving", "delivering", "ended"}
  /\ msg \in Event \cup {Closed}
  /\ rows \in Snapshot
  /\ notice \in BOOLEAN
  /\ shown \in Version \cup {NoRV}

Init ==
  /\ now = 0
  /\ hist \in [Version -> Snapshot]
  /\ \A v \in Version : hist[v] = hist[0]
  /\ floor = 0
  /\ watchable \in BOOLEAN
  /\ faults = 0
  /\ pc = "top"
  /\ rv = 0
  /\ needList = TRUE
  /\ listOnly \in BOOLEAN
  /\ lastRV = NoRV
  /\ pos = 0
  /\ ev = Error
  /\ chan = <<>>
  /\ cancelled = FALSE
  /\ pump = "receiving"
  /\ msg = Closed
  /\ rows = Blank
  /\ notice = FALSE
  /\ shown = NoRV

-----------------------------------------------------------------------------
(* The API server: a write to the collection, a write elsewhere in the      *)
(* cluster, and the compaction of old versions.                             *)

Write ==
  /\ now < MaxRV
  /\ \E u \in Uid, r \in Row \cup {Absent} :
       /\ r # hist[now][u]
       /\ hist' = [hist EXCEPT ![now + 1] = [hist[now] EXCEPT ![u] = r]]
  /\ now' = now + 1
  /\ UNCHANGED <<floor, watchable, faults, pc, rv, needList, listOnly, conn, ev,
                 chan, cancelled, ui>>

WriteElsewhere ==
  /\ now < MaxRV
  /\ hist' = [hist EXCEPT ![now + 1] = hist[now]]
  /\ now' = now + 1
  /\ UNCHANGED <<floor, watchable, faults, pc, rv, needList, listOnly, conn, ev,
                 chan, cancelled, ui>>

Compact ==
  /\ floor < now
  /\ floor' \in (floor + 1)..now
  /\ UNCHANGED <<now, hist, watchable, faults, pc, rv, needList, listOnly, conn,
                 ev, chan, cancelled, ui>>

(* A request made under a cancelled context fails without using the budget. *)
Fail == \/ cancelled /\ faults' = faults
        \/ faults < MaxFaults /\ faults' = faults + 1

-----------------------------------------------------------------------------
(* watchLoop *)

Top ==
  /\ pc = "top"
  /\ pc' = IF cancelled THEN "done"
           ELSE IF needList THEN "list"
           ELSE IF listOnly THEN "poll" ELSE "open"
  /\ UNCHANGED <<server, watchable, faults, rv, needList, listOnly, conn, ev,
                 chan, cancelled, ui>>

(* A List with no resourceVersion reads the latest version; one answered    *)
(* from a lagging cache would not.                                          *)
ListsCached == floor
ListsLatest == now

ListOk ==
  /\ pc = "list"
  /\ pc' = "sendReset"
  /\ rv' = ListsLatest
  /\ ev' = Reset(ListsLatest, hist[ListsLatest])
  /\ UNCHANGED <<server, watchable, faults, needList, listOnly, conn, chan,
                 cancelled, ui>>

ListError ==
  /\ pc = "list"
  /\ Fail
  /\ pc' = "sendListError"
  /\ ev' = Error
  /\ UNCHANGED <<server, watchable, rv, needList, listOnly, conn, chan,
                 cancelled, ui>>

(* The bounded channel, and one deeper than it is made.                     *)
HasRoomOneMore == Len(chan) <= Buf
HasRoom        == Len(chan) < Buf

(* sendWatch: deliver ev when the channel has room, whatever the context    *)
(* says; what follows depends on which send it is.                          *)
Send ==
  /\ pc \in Sending
  /\ HasRoom
  /\ chan' = Append(chan, ev)
  /\ pc' = CASE pc = "sendReset"     -> (IF listOnly THEN "poll" ELSE "open")
             [] pc = "sendListError" -> "backoff"
             [] pc = "sendOpenError" -> "backoff"
             [] pc = "sendDelta"     -> "stream"
  /\ needList' = CASE pc = "sendReset"     -> FALSE
                   [] pc = "sendOpenError" -> TRUE
                   [] OTHER                -> needList
  /\ ev' = Error
  /\ UNCHANGED <<server, watchable, faults, rv, listOnly, conn, cancelled, ui>>

(* sendWatch and sleep give up when the context is cancelled; a stream read *)
(* fails and the loop returns.                                              *)
Waits                == {"poll", "backoff", "stream"}
InterruptibleNotSend == Waits                 \* a bare channel send
Interruptible        == Waits \cup Sending

Abandon ==
  /\ cancelled
  /\ pc \in Interruptible
  /\ pc' = "done"
  /\ ev' = Error
  /\ UNCHANGED <<server, watchable, faults, rv, needList, listOnly, conn, chan,
                 cancelled, ui>>

Poll ==
  /\ pc = "poll"
  /\ needList' = TRUE
  /\ pc' = "top"
  /\ UNCHANGED <<server, watchable, faults, rv, listOnly, conn, ev, chan,
                 cancelled, ui>>

Backoff ==
  /\ pc = "backoff"
  /\ pc' = "top"
  /\ UNCHANGED <<server, watchable, faults, rv, needList, listOnly, conn, ev,
                 chan, cancelled, ui>>

(* openTableWatch.  A version the server has compacted is answered either   *)
(* by an error status or by a stream whose first event is 410 Gone.         *)
OpenOk ==
  /\ pc = "open"
  /\ watchable
  /\ pc' = "stream"
  /\ lastRV' = NoRV
  /\ pos' = IF rv >= floor THEN rv ELSE Gone
  /\ UNCHANGED <<server, watchable, faults, rv, needList, listOnly, ev, chan,
                 cancelled, ui>>

OpenUnsupported ==
  /\ pc = "open"
  /\ ~watchable
  /\ listOnly' = TRUE
  /\ pc' = "top"
  /\ UNCHANGED <<server, watchable, faults, rv, needList, conn, ev, chan,
                 cancelled, ui>>

OpenError ==
  /\ pc = "open"
  /\ \/ Fail
     \/ watchable /\ rv < floor /\ faults' = faults
  /\ pc' = "sendOpenError"
  /\ ev' = Error
  /\ UNCHANGED <<server, watchable, rv, needList, listOnly, conn, chan,
                 cancelled, ui>>

-----------------------------------------------------------------------------
(* streamTableWatch *)

(* The event at version v is the next one of this collection: the first     *)
(* version after pos that differs from what the connection has delivered.   *)
NextChange(v) ==
  /\ v \in (pos + 1)..now
  /\ hist[v] # hist[pos]
  /\ \A w \in pos..(v - 1) : hist[w] = hist[pos]

ReadDelta ==
  /\ pc = "stream"
  /\ pos # Gone
  /\ \E v \in Version :
       /\ NextChange(v)
       /\ \E u \in Uid :
            /\ hist[v][u] # hist[pos][u]
            /\ ev' = Delta(v, u, hist[v][u])
       /\ pos' = v
       /\ lastRV' = v
  /\ pc' = "sendDelta"
  /\ UNCHANGED <<server, watchable, faults, rv, needList, listOnly, chan,
                 cancelled, ui>>

(* A bookmark says every change up to v has been sent; no row changes. *)
ReadBookmark ==
  /\ pc = "stream"
  /\ pos # Gone
  /\ \E v \in pos..now :
       /\ \A w \in pos..v : hist[w] = hist[pos]
       /\ lastRV # v
       /\ pos' = v
       /\ lastRV' = v
  /\ UNCHANGED <<server, watchable, faults, pc, rv, needList, listOnly, ev, chan,
                 cancelled, ui>>

(* The stream is over: the loop keeps the newest version it saw and backs   *)
(* off; only an expired version makes it list again.                        *)
ResumeFromList == rv                          \* lastRV not carried over
ResumeFromLast == IF lastRV # NoRV THEN lastRV ELSE rv

RelistNever(expired)     == needList          \* 410 treated as any drop
RelistOnExpired(expired) == needList \/ expired

EndStream(expired) ==
  /\ rv' = ResumeFromLast
  /\ needList' = RelistOnExpired(expired)
  /\ lastRV' = NoRV
  /\ pos' = 0
  /\ pc' = "backoff"

(* End of stream, transport drop, undecodable event, or an ERROR event      *)
(* other than 410.                                                          *)
StreamDrop ==
  /\ pc = "stream"
  /\ Fail
  /\ EndStream(FALSE)
  /\ UNCHANGED <<server, watchable, listOnly, ev, chan, cancelled, ui>>

StreamExpired ==
  /\ pc = "stream"
  /\ pos < floor
  /\ EndStream(TRUE)
  /\ UNCHANGED <<server, watchable, faults, listOnly, ev, chan, cancelled, ui>>

-----------------------------------------------------------------------------
(* The shell *)

(* watchPump: one receive per command; a closed, drained channel yields a   *)
(* WatchClosedMsg.                                                          *)
Receive ==
  /\ pump = "receiving"
  /\ \/ chan # <<>> /\ msg' = Head(chan) /\ chan' = Tail(chan)
     \/ chan = <<>> /\ pc = "done" /\ msg' = Closed /\ chan' = chan
  /\ pump' = "delivering"
  /\ UNCHANGED <<server, watchable, faults, pc, rv, needList, listOnly, conn, ev,
                 cancelled, rows, notice, shown>>

(* ApplyEvent: a RESET replaces the rows and clears the notice, a delta     *)
(* upserts or deletes one.                                                  *)
ApplyEvent(e) ==
  \/ /\ e.type = "RESET"
     /\ rows' = e.rows
     /\ notice' = FALSE
     /\ shown' = e.rv
  \/ /\ e.type = "DELTA"
     /\ rows' = [rows EXCEPT ![e.uid] = e.row]
     /\ notice' = notice
     /\ shown' = e.rv

(* handleWatchMsg.  A message of a superseded watch is dropped and its pump *)
(* chain stops.                                                             *)
HandleWatchMsg ==
  /\ pump = "delivering"
  /\ IF cancelled \/ msg = Closed
     THEN pump' = "ended" /\ UNCHANGED <<rows, notice, shown>>
     ELSE /\ pump' = "receiving"
          /\ \/ ApplyEvent(msg)
             \/ msg = Error /\ notice' = TRUE /\ UNCHANGED <<rows, shown>>
  /\ msg' = Closed
  /\ UNCHANGED <<server, watchable, faults, pc, rv, needList, listOnly, conn, ev,
                 chan, cancelled>>

(* watchResource starting another watch, or stopClusterAsync: the context   *)
(* is cancelled and the generation bumped in one step.                      *)
Cancel ==
  /\ ~cancelled
  /\ cancelled' = TRUE
  /\ UNCHANGED <<server, watchable, faults, pc, rv, needList, listOnly, conn, ev,
                 chan, ui>>

-----------------------------------------------------------------------------
List   == ListOk \/ ListError
Open   == OpenOk \/ OpenUnsupported \/ OpenError
Stream == ReadDelta \/ ReadBookmark \/ StreamDrop \/ StreamExpired
Loop   == Top \/ List \/ Send \/ Abandon \/ Poll \/ Backoff \/ Open \/ Stream
Server == Write \/ WriteElsewhere \/ Compact
Shell  == Receive \/ HandleWatchMsg

(* The goroutine and the pump have both come to an end. *)
Finished ==
  /\ pc = "done" /\ pump = "ended"
  /\ UNCHANGED vars

Next == Server \/ Loop \/ Shell \/ Cancel \/ Finished

(* Timers fire, responses arrive, the runtime runs goroutines and Bubble    *)
(* Tea runs commands and delivers messages.  An open stream delivers the    *)
(* events it has and the 410 it owes.  Nothing makes the server change, the *)
(* user leave, or a fault happen.                                           *)
Fairness ==
  /\ WF_vars(Top) /\ WF_vars(List) /\ WF_vars(Send) /\ WF_vars(Abandon)
  /\ WF_vars(Poll) /\ WF_vars(Backoff) /\ WF_vars(Open)
  /\ WF_vars(ReadDelta) /\ WF_vars(StreamExpired)
  /\ WF_vars(Receive) /\ WF_vars(HandleWatchMsg)

Spec     == Init /\ [][Next]_vars
FairSpec == Spec /\ Fairness

-----------------------------------------------------------------------------
(* Safety *)

(* The pane is never a mixture: once a RESET has arrived its rows are       *)
(* exactly the collection at the version of the last event folded in,       *)
(* through drops, resumes, bookmarks and re-lists.                          *)
TableIsSnapshot ==
  IF shown = NoRV THEN rows = Blank ELSE shown <= now /\ rows = hist[shown]

(* The promise of LiveTable, refined with the history variable as the       *)
(* version shown.                                                           *)
Promise == INSTANCE LiveTable WITH
  Uid <- Uid, Row <- Row, Absent <- Absent, MaxRV <- MaxRV,
  now <- now, hist <- hist, shown <- shown, rows <- rows
PromiseSpec == Promise!Spec

-----------------------------------------------------------------------------
(* Liveness *)

(* A pane nobody leaves catches up: once writes and faults have stopped it  *)
(* ends up showing the latest collection and no failure notice.             *)
CaughtUp == cancelled \/ (rows = hist[now] /\ ~notice)
CatchesUp == <>[]CaughtUp

(* Leaving a pane frees it: after the cancellation the goroutine returns    *)
(* even if nobody reads its full channel, and the pump command ends too.    *)
Left == cancelled
Freed == pc = "done" /\ pump = "ended"
NothingLeaks == Left ~> Freed
=============================================================================
