---------------------------- MODULE WatchProofs ----------------------------
(***************************************************************************)
(* Proofs about Watch, for any objects, rows, versions, channel and faults.*)
(*                                                                         *)
(* Between the server and the pane are the event being sent, the channel   *)
(* and the message being delivered.  Each carries the pane from the        *)
(* version the one before left it at to a later one (Chained), and where   *)
(* the last one leaves it the collection is what it is at the version the  *)
(* goroutine would resume from; a drop, a resume or a bookmark changes     *)
(* neither.                                                                *)
(***************************************************************************)
EXTENDS Watch, TLAPS

USE BoundAssumption, AbsentAssumption

(* With the collection's history h up to version n, e carries a pane that   *)
(* shows version v to version w.                                            *)
Carries(h, n, v, e, w) ==
  \/ e.type = "ERROR" /\ w = v
  \/ /\ e.type = "RESET" /\ w = e.rv
     /\ w \in 0 .. n /\ v <= w /\ e.rows = h[w]
  \/ /\ e.type = "DELTA" /\ w = e.rv /\ v # NoRV
     /\ w \in 0 .. n /\ v <= w /\ h[w] = [h[v] EXCEPT ![e.uid] = e.row]

(* A version differs from the one before in one object at most.             *)
OneWrite ==
  \A v \in 0 .. (now - 1), x \in Uid, y \in Uid :
    hist[v + 1][x] # hist[v][x] /\ hist[v + 1][y] # hist[v][y] => x = y

(* The goroutine's own state.                                               *)
LoopInv ==
  /\ rv <= now /\ lastRV <= now
  /\ lastRV # NoRV => pc \in {"stream", "sendDelta", "done"}
  /\ pc \in {"stream", "sendDelta"} => pos = ResumeFromLast \/ (pos = Gone /\ lastRV = NoRV)
  /\ pc \in {"open", "stream", "sendDelta"} => ~needList
  /\ pc \notin {"sendReset", "sendDelta"} => ev = Error
  /\ pc = "done" => cancelled

(* Versions a pane may be at; the version a message at hand takes it to;    *)
(* and a version that, unless a list is due, can be resumed from.           *)
Reached(n) == {NoRV} \cup (0 .. n)
Lands(z) ==
  IF pump = "delivering" /\ msg # Closed THEN Carries(hist, now, shown, msg, z) ELSE z = shown
Resumable(z) ==
  pc = "sendReset" \/ ~needList =>
    z # NoRV /\ z <= ResumeFromLast /\ hist[z] = hist[ResumeFromLast]

(* Where what is under way takes the pane: at[0] once the message is        *)
(* handled, at[i] once the channel's i-th event is, and one further once    *)
(* the event being sent is.                                                 *)
Last == Len(chan) + 1
Chained(at) ==
  /\ Lands(at[0])
  /\ \A i \in 1 .. Len(chan) : Carries(hist, now, at[i - 1], chan[i], at[i])
  /\ Carries(hist, now, at[Len(chan)], ev, at[Last])
  /\ Resumable(at[Last])
Chain == ~cancelled => \E at \in [0 .. Last -> Reached(now)] : Chained(at)

Inv == TypeOK /\ TableIsSnapshot /\ OneWrite /\ LoopInv /\ Chain

-----------------------------------------------------------------------------
(* Type correctness, one step per action.                                   *)
USE DEF NoRV, Gone, Version

LEMMA SnapshotRows ==
  ASSUME TypeOK, NEW v \in Version, NEW u \in Uid
  PROVE  hist[v] \in Snapshot /\ hist[v][u] \in Row \cup {Absent}
BY DEF TypeOK, Snapshot

LEMMA EventShape ==
  ASSUME NEW e \in Event
  PROVE  /\ e.type \in {"RESET", "DELTA", "ERROR"} /\ e # Closed
         /\ e.type = "RESET" => e.rv \in Version /\ e.rows \in Snapshot
         /\ e.type = "DELTA" => e.rv \in Version /\ e.uid \in Uid /\ e.row \in Row \cup {Absent}
         /\ e.type = "ERROR" => e = Error
<1>1. CASE e \in ResetEvents
  <2>1. PICK v \in Version, c \in Snapshot : e = Reset(v, c)
    BY <1>1 DEF ResetEvents
  <2>2. e.type = "RESET" /\ e.rv = v /\ e.rows = c
    BY <2>1 DEF Reset
  <2> QED BY <2>2 DEF Closed
<1>2. CASE e \in DeltaEvents
  <2>1. PICK v \in Version, u \in Uid, r \in Row \cup {Absent} : e = Delta(v, u, r)
    BY <1>2 DEF DeltaEvents
  <2>2. e.type = "DELTA" /\ e.rv = v /\ e.uid = u /\ e.row = r
    BY <2>1 DEF Delta
  <2> QED BY <2>2 DEF Closed
<1>3. CASE e = Error
  BY <1>3 DEF Error, Closed
<1> QED
  BY <1>1, <1>2, <1>3 DEF Event

LEMMA FaultsBounded == TypeOK /\ (Fail \/ faults' = faults) => faults' \in 0 .. MaxFaults
BY DEF TypeOK, Fail

(* What a send does, whichever send it is.                                  *)
LEMMA SendStep ==
  ASSUME TypeOK, Send
  PROVE  /\ pc \in Sending /\ Len(chan) < Buf /\ chan' = Append(chan, ev) /\ ev' = Error
         /\ UNCHANGED <<now, hist, floor, watchable, faults, rv, listOnly, lastRV, pos,
                       cancelled, pump, msg, rows, notice, shown>>
         /\ pc' \in {"poll", "open", "backoff", "stream"} /\ needList' \in BOOLEAN
         /\ pc' = "open" => ~needList'
         /\ pc = "sendDelta" => pc' = "stream" /\ needList' = needList
         /\ pc' = "stream" => pc = "sendDelta"
         /\ pc = "sendReset" \/ needList' \/ needList' = needList
<1>1. /\ pc' = CASE pc = "sendReset"     -> (IF listOnly THEN "poll" ELSE "open")
                  [] pc = "sendListError" -> "backoff"
                  [] pc = "sendOpenError" -> "backoff"
                  [] pc = "sendDelta"     -> "stream"
      /\ needList' = CASE pc = "sendReset"     -> FALSE
                        [] pc = "sendOpenError" -> TRUE
                        [] OTHER                -> needList
  BY DEF Send
<1>2. /\ pc \in Sending /\ Len(chan) < Buf /\ chan' = Append(chan, ev) /\ ev' = Error
      /\ UNCHANGED <<now, hist, floor, watchable, faults, rv, listOnly, lastRV, pos,
                    cancelled, pump, msg, rows, notice, shown>>
  BY Zenon DEF Send, HasRoom, server, conn, ui
<1>3. CASE pc = "sendReset"
  BY <1>1, <1>2, <1>3
<1>4. CASE pc \in {"sendListError", "sendOpenError"}
  BY <1>1, <1>2, <1>4 DEF TypeOK
<1>5. CASE pc = "sendDelta"
  BY <1>1, <1>2, <1>5 DEF TypeOK
<1> QED
  BY <1>2, <1>3, <1>4, <1>5 DEF Sending

LEMMA Types == TypeOK /\ [Next]_vars => TypeOK'
<1> SUFFICES ASSUME TypeOK, [Next]_vars PROVE TypeOK'
  OBVIOUS
<1>1. CASE Write
  <2>1. PICK u \in Uid, r \in Row \cup {Absent} :
          hist' = [hist EXCEPT ![now + 1] = [hist[now] EXCEPT ![u] = r]]
    BY <1>1 DEF Write
  <2>2. hist[now] \in Snapshot /\ now + 1 \in Version
    BY <1>1 DEF Write, TypeOK
  <2>3. hist' \in [Version -> Snapshot]
    BY <2>1, <2>2 DEF TypeOK, Snapshot
  <2> QED BY <1>1, <2>2, <2>3 DEF Write, TypeOK, conn, ui
<1>2. CASE WriteElsewhere
  BY <1>2 DEF WriteElsewhere, TypeOK, conn, ui
<1>3. CASE Compact
  BY <1>3 DEF Compact, TypeOK, conn, ui
<1>4. CASE Top \/ Poll \/ Backoff
  BY <1>4 DEF Top, Poll, Backoff, TypeOK, server, conn, ui, PCs
<1>5. CASE ListOk
  <2>1. Reset(now, hist[now]) \in Event
    BY SnapshotRows DEF TypeOK, Event, ResetEvents
  <2> QED BY <1>5, <2>1 DEF ListOk, ListsLatest, TypeOK, server, conn, ui, PCs, Sending
<1>6. CASE ListError \/ OpenError
  BY <1>6, FaultsBounded DEF ListError, OpenError, TypeOK, server, conn, ui, PCs, Sending, Event
<1>7. CASE Send
  <2>1. Append(chan, ev) \in Seq(Event) /\ Len(Append(chan, ev)) = Len(chan) + 1
    BY DEF TypeOK
  <2>2. chan' \in Seq(Event) /\ Len(chan') <= Buf /\ ev' \in Event
    BY <1>7, <2>1, SendStep DEF Event
  <2>3. pc' \in PCs /\ needList' \in BOOLEAN
    BY <1>7, SendStep DEF PCs
  <2>4. UNCHANGED <<now, hist, floor, watchable, faults, rv, listOnly, lastRV, pos,
                   cancelled, pump, msg, rows, notice, shown>>
    BY <1>7, SendStep
  <2> QED BY <2>2, <2>3, <2>4 DEF TypeOK
<1>8. CASE Abandon
  BY <1>8 DEF Abandon, TypeOK, server, conn, ui, PCs, Event
<1>9. CASE OpenOk \/ OpenUnsupported
  BY <1>9 DEF OpenOk, OpenUnsupported, TypeOK, server, conn, ui, PCs
<1>10. CASE ReadDelta
  <2>1. PICK v \in Version, u \in Uid : ev' = Delta(v, u, hist[v][u]) /\ pos' = v /\ lastRV' = v
    BY <1>10 DEF ReadDelta
  <2>2. ev' \in Event
    BY <2>1, SnapshotRows DEF Event, DeltaEvents
  <2> QED BY <1>10, <2>1, <2>2 DEF ReadDelta, TypeOK, server, ui, PCs, Sending
<1>11. CASE ReadBookmark
  <2>1. pos' \in Version /\ lastRV' \in Version
    BY <1>11 DEF ReadBookmark, TypeOK
  <2> QED BY <1>11, <2>1 DEF ReadBookmark, TypeOK, server, ui
<1>12. CASE StreamDrop \/ StreamExpired
  <2>1. faults' \in 0 .. MaxFaults
    BY <1>12, FaultsBounded DEF StreamDrop, StreamExpired
  <2>2. \E x \in BOOLEAN : EndStream(x)
    BY <1>12 DEF StreamDrop, StreamExpired
  <2>3. rv' \in Version /\ needList' \in BOOLEAN /\ lastRV' = NoRV /\ pos' = 0 /\ pc' = "backoff"
    BY <2>2 DEF EndStream, ResumeFromLast, RelistOnExpired, TypeOK
  <2> QED BY <1>12, <2>1, <2>3 DEF StreamDrop, StreamExpired, TypeOK, server, ui, PCs
<1>13. CASE Receive
  <2>1. chan # <<>> => Head(chan) \in Event /\ Tail(chan) \in Seq(Event) /\ Len(Tail(chan)) <= Buf
    BY DEF TypeOK
  <2> QED BY <1>13, <2>1 DEF Receive, TypeOK, server, conn
<1>14. CASE HandleWatchMsg
  <2>1. ASSUME ApplyEvent(msg), msg \in Event PROVE rows' \in Snapshot /\ notice' \in BOOLEAN /\ shown' \in Version
    <3>1. CASE msg.type = "RESET"
      BY <2>1, <3>1, EventShape DEF ApplyEvent
    <3>2. CASE msg.type = "DELTA"
      <4>1. rows' = [rows EXCEPT ![msg.uid] = msg.row] /\ notice' = notice /\ shown' = msg.rv
        BY <2>1, <3>2 DEF ApplyEvent
      <4>2. msg.rv \in Version /\ msg.uid \in Uid /\ msg.row \in Row \cup {Absent}
        BY <2>1, <3>2, EventShape
      <4> QED BY <4>1, <4>2 DEF TypeOK, Snapshot
    <3> QED BY <2>1, <3>1, <3>2 DEF ApplyEvent
  <2> QED BY <1>14, <2>1 DEF HandleWatchMsg, TypeOK, server, conn
<1>15. CASE Cancel
  BY <1>15 DEF Cancel, TypeOK, server, conn, ui
<1>16. CASE UNCHANGED vars
  BY <1>16 DEF vars, TypeOK, conn
<1> QED
  BY <1>1, <1>2, <1>3, <1>4, <1>5, <1>6, <1>7, <1>8, <1>9, <1>10, <1>11, <1>12, <1>13, <1>14,
     <1>15, <1>16 DEF Next, Server, Loop, List, Open, Stream, Shell, Finished

LEMMA InitTypes == Init => TypeOK
<1> SUFFICES ASSUME Init PROVE TypeOK
  OBVIOUS
<1>1. chan \in Seq(Event) /\ Len(chan) <= Buf
  BY DEF Init
<1>2. rows \in Snapshot
  BY DEF Init, Snapshot, Blank
<1>3. ev \in Event
  BY DEF Init, Event
<1> QED
  BY <1>1, <1>2, <1>3 DEF Init, TypeOK, PCs

-----------------------------------------------------------------------------
(* The server only adds versions: what was there stays, and the version     *)
(* added differs from the one before in one object at most.                 *)
Grown ==
  /\ now < MaxRV /\ now' = now + 1 /\ hist' = [hist EXCEPT ![now + 1] = hist'[now + 1]]
  /\ \A v \in 0 .. now : hist'[v] = hist[v]
  /\ \A x \in Uid, y \in Uid :
       hist'[now + 1][x] # hist[now][x] /\ hist'[now + 1][y] # hist[now][y] => x = y
  /\ UNCHANGED <<pc, rv, needList, lastRV, pos, ev, chan, cancelled, ui>>

LEMMA ServerGrows ==
  ASSUME TypeOK, Write \/ WriteElsewhere
  PROVE  Grown
<1>1. now + 1 \in Version /\ hist[now] \in Snapshot /\ now < MaxRV
  BY DEF TypeOK, Write, WriteElsewhere
<1>2. now' = now + 1 /\ UNCHANGED <<pc, rv, needList, lastRV, pos, ev, chan, cancelled, ui>>
  BY DEF Write, WriteElsewhere, conn
<1>3. CASE Write
  <2>1. PICK u \in Uid, r \in Row \cup {Absent} :
          hist' = [hist EXCEPT ![now + 1] = [hist[now] EXCEPT ![u] = r]]
    BY <1>3 DEF Write
  <2>2. \A v \in 0 .. now : hist'[v] = hist[v]
    BY <2>1 DEF TypeOK
  <2>3. hist'[now + 1] = [hist[now] EXCEPT ![u] = r]
    BY <1>1, <2>1 DEF TypeOK
  <2>4. \A x \in Uid : x # u => hist'[now + 1][x] = hist[now][x]
    BY <1>1, <2>3 DEF Snapshot
  <2>5. hist' = [hist EXCEPT ![now + 1] = hist'[now + 1]]
    BY <2>1, <2>3, Zenon
  <2> QED BY <1>1, <1>2, <2>2, <2>4, <2>5 DEF Grown
<1>4. CASE WriteElsewhere
  <2>1. \A v \in 0 .. now : hist'[v] = hist[v]
    BY <1>4 DEF WriteElsewhere, TypeOK
  <2>2. hist'[now + 1] = hist[now]
    BY <1>1, <1>4 DEF WriteElsewhere, TypeOK
  <2> QED BY <1>1, <1>2, <1>4, <2>1, <2>2 DEF Grown, WriteElsewhere
<1> QED BY <1>3, <1>4

(* What an event carries a pane from and to stays true as the server grows. *)
LEMMA CarriesOn ==
  ASSUME NEW h1, NEW h2, NEW n \in Nat, \A v \in 0 .. n : h2[v] = h1[v],
         NEW e \in Event, NEW v \in Reached(n), NEW w \in Reached(n), Carries(h1, n, v, e, w)
  PROVE  Carries(h2, n + 1, v, e, w)
<1>1. v # NoRV => h2[v] = h1[v]
  BY DEF Reached
<1>2. w # NoRV => h2[w] = h1[w] /\ w \in 0 .. (n + 1)
  BY DEF Reached
<1>3. CASE e.type = "ERROR"
  BY <1>3 DEF Carries
<1>4. CASE e.type = "RESET"
  <2>1. w = e.rv /\ w \in 0 .. n /\ v <= w /\ e.rows = h1[w]
    BY <1>4 DEF Carries
  <2> QED BY <1>2, <1>4, <2>1 DEF Carries
<1>5. CASE e.type = "DELTA"
  <2>1. w = e.rv /\ v # NoRV /\ w \in 0 .. n /\ v <= w /\ h1[w] = [h1[v] EXCEPT ![e.uid] = e.row]
    BY <1>5 DEF Carries
  <2> QED BY <1>1, <1>2, <1>5, <2>1 DEF Carries
<1> QED BY <1>3, <1>4, <1>5 DEF Carries

-----------------------------------------------------------------------------
(* Versions differ by one write, and the goroutine's own state.             *)
LEMMA HistoryKept ==
  ASSUME [Next]_vars, ~Write, ~WriteElsewhere
  PROVE  UNCHANGED <<now, hist>>
BY DEF Next, Server, Loop, List, Open, Stream, Shell, Finished, Compact, Top, ListOk, ListError,
       Send, Abandon, Poll, Backoff, OpenOk, OpenUnsupported, OpenError, ReadDelta, ReadBookmark,
       StreamDrop, StreamExpired, Receive, HandleWatchMsg, Cancel, vars, server

LEMMA OneWriteStep == TypeOK /\ OneWrite /\ [Next]_vars => OneWrite'
<1> SUFFICES ASSUME TypeOK, OneWrite, [Next]_vars PROVE OneWrite'
  OBVIOUS
<1>1. CASE Write \/ WriteElsewhere
  <2>1. Grown
    BY <1>1, ServerGrows
  <2> SUFFICES ASSUME NEW v \in 0 .. now, NEW x \in Uid, NEW y \in Uid,
                      hist'[v + 1][x] # hist'[v][x], hist'[v + 1][y] # hist'[v][y]
               PROVE  x = y
    BY <2>1 DEF OneWrite, Grown, TypeOK
  <2>2. CASE v = now
    BY <2>1, <2>2 DEF Grown, TypeOK
  <2>3. CASE v # now
    <3>1. v \in 0 .. (now - 1) /\ v + 1 \in 0 .. now
      BY <2>3 DEF TypeOK
    <3> QED BY <2>1, <3>1 DEF Grown, OneWrite
  <2> QED BY <2>2, <2>3
<1>2. CASE ~Write /\ ~WriteElsewhere
  BY <1>2, HistoryKept DEF OneWrite
<1> QED BY <1>1, <1>2

LEMMA LoopStep == TypeOK /\ LoopInv /\ [Next]_vars => LoopInv'
<1> SUFFICES ASSUME TypeOK, LoopInv, [Next]_vars PROVE LoopInv'
  OBVIOUS
<1>1. CASE Write \/ WriteElsewhere
  BY <1>1, ServerGrows DEF Grown, LoopInv, ResumeFromLast, TypeOK
<1>2. CASE Compact \/ Cancel \/ Receive \/ HandleWatchMsg \/ UNCHANGED vars
  <2>1. UNCHANGED <<now, pc, rv, needList, lastRV, pos, ev>> /\ (cancelled => cancelled')
    BY <1>2 DEF Compact, Cancel, Receive, HandleWatchMsg, server, conn, vars
  <2> QED BY <2>1 DEF LoopInv, ResumeFromLast
<1>3. CASE Top \/ Poll \/ Backoff
  BY <1>3 DEF Top, Poll, Backoff, server, conn, LoopInv, ResumeFromLast
<1>4. CASE ListOk \/ ListError
  <2>1. CASE ListOk
    BY <2>1 DEF ListOk, ListsLatest, server, conn, LoopInv, ResumeFromLast, TypeOK
  <2>2. CASE ListError
    BY <2>2 DEF ListError, server, conn, LoopInv, ResumeFromLast
  <2> QED BY <1>4, <2>1, <2>2
<1>5. CASE Send
  BY <1>5, SendStep DEF LoopInv, ResumeFromLast, Sending
<1>6. CASE Abandon
  BY <1>6 DEF Abandon, server, conn, LoopInv, ResumeFromLast
<1>7. CASE OpenOk \/ OpenUnsupported \/ OpenError
  <2>1. CASE OpenOk
    BY <2>1 DEF OpenOk, server, LoopInv, ResumeFromLast, TypeOK
  <2>2. CASE OpenUnsupported
    BY <2>2 DEF OpenUnsupported, server, conn, LoopInv, ResumeFromLast
  <2>3. CASE OpenError
    BY <2>3 DEF OpenError, server, conn, LoopInv, ResumeFromLast
  <2> QED BY <1>7, <2>1, <2>2, <2>3
<1>8. CASE ReadDelta
  <2>1. PICK v \in Version : NextChange(v) /\ pos' = v /\ lastRV' = v
    BY <1>8 DEF ReadDelta
  <2>2. v <= now
    BY <2>1 DEF NextChange, TypeOK
  <2> QED BY <1>8, <2>1, <2>2 DEF ReadDelta, server, LoopInv, ResumeFromLast
<1>9. CASE ReadBookmark
  <2>1. pos' = lastRV' /\ lastRV' <= now /\ lastRV' # NoRV
    BY <1>9 DEF ReadBookmark, TypeOK
  <2> QED BY <1>9, <2>1 DEF ReadBookmark, server, LoopInv, ResumeFromLast
<1>10. CASE StreamDrop \/ StreamExpired
  <2>1. pc = "stream" /\ rv' = ResumeFromLast /\ lastRV' = NoRV /\ pc' = "backoff"
        /\ UNCHANGED <<now, ev, cancelled>>
    BY <1>10 DEF StreamDrop, StreamExpired, EndStream, server
  <2> QED BY <2>1 DEF LoopInv, ResumeFromLast, TypeOK
<1> QED
  BY <1>1, <1>2, <1>3, <1>4, <1>5, <1>6, <1>7, <1>8, <1>9, <1>10
     DEF Next, Server, Loop, List, Open, Stream, Shell, Finished

-----------------------------------------------------------------------------
(* The chain survives a step that changes only its last link, if the new    *)
(* link carries the pane to where the goroutine can resume from.            *)
LEMMA LastLink ==
  ASSUME TypeOK, Chain, UNCHANGED <<now, hist, chan, cancelled, pump, msg, shown>>,
         \A y \in Reached(now), z \in Reached(now) :
           Carries(hist, now, y, ev, z) /\ Resumable(z) /\ ~cancelled =>
             \E w \in Reached(now) : Carries(hist, now, y, ev', w) /\ Resumable(w)'
  PROVE  Chain'
<1> SUFFICES ASSUME ~cancelled PROVE (\E at \in [0 .. Last -> Reached(now)] : Chained(at))'
  BY DEF Chain
<1>1. PICK at \in [0 .. Last -> Reached(now)] : Chained(at)
  BY DEF Chain
<1>2. Len(chan) \in Nat /\ Last = Len(chan) + 1 /\ Last' = Last /\ Reached(now)' = Reached(now)
  BY DEF TypeOK, Last, Reached
<1>3. at[Len(chan)] \in Reached(now) /\ at[Last] \in Reached(now)
  BY <1>2
<1>4. PICK w \in Reached(now) : Carries(hist, now, at[Len(chan)], ev', w) /\ Resumable(w)'
  BY <1>1, <1>3 DEF Chained
<1>5. PICK bt \in [0 .. Last -> Reached(now)] : bt = [at EXCEPT ![Last] = w]
  BY <1>2
<1>6. bt[Last] = w /\ \A i \in 0 .. Len(chan) : bt[i] = at[i]
  BY <1>2, <1>5
<1>7. Lands(bt[0])'
  <2>1. bt[0] = at[0] /\ Lands(at[0])
    BY <1>1, <1>2, <1>6 DEF Chained
  <2> QED BY <2>1 DEF Lands
<1>8. \A i \in 1 .. Len(chan') : Carries(hist', now', bt[i - 1], chan'[i], bt[i])
  BY <1>1, <1>2, <1>6 DEF Chained
<1>9. Carries(hist', now', bt[Len(chan')], ev', bt[Last]) /\ Resumable(bt[Last])'
  BY <1>2, <1>4, <1>6
<1>10. Chained(bt)'
  <2>1. Resumable(bt[Last])'
    BY <1>2, <1>6, <1>9
  <2> QED BY <1>2, <1>7, <1>8, <1>9, <2>1 DEF Chained
<1> QED BY <1>2, <1>5, <1>10

(* An error carries a pane nowhere.                                         *)
LEMMA ErrorStays ==
  ASSUME NEW h, NEW n, NEW v, NEW w
  PROVE  Carries(h, n, v, Error, w) <=> w = v
BY DEF Carries, Error

LEMMA ServerChain ==
  ASSUME TypeOK, LoopInv, TableIsSnapshot, Chain, Grown
  PROVE  Chain'
<1> SUFFICES ASSUME ~cancelled PROVE (\E at \in [0 .. Last -> Reached(now)] : Chained(at))'
  BY DEF Chain, Grown
<1>1. PICK at \in [0 .. Last -> Reached(now)] : Chained(at)
  BY DEF Chain
<1>2. /\ Len(chan) \in Nat /\ Last = Len(chan) + 1 /\ Last' = Last
      /\ Reached(now) \subseteq Reached(now') /\ now' = now + 1 /\ now \in Nat
  BY DEF TypeOK, Last, Reached, Grown
<1>3. at \in [0 .. Last -> Reached(now')] /\ \A i \in 0 .. Last : at[i] \in Reached(now)
  BY <1>2
<1>4. \A v \in 0 .. now : hist'[v] = hist[v]
  BY DEF Grown
<1>5. \A e \in Event, v \in Reached(now), w \in Reached(now) :
        Carries(hist, now, v, e, w) => Carries(hist', now', v, e, w)
  BY <1>2, <1>4, CarriesOn
<1>6. shown \in Reached(now) /\ \A i \in 1 .. Len(chan) : chan[i] \in Event
  BY DEF TableIsSnapshot, Reached, TypeOK
<1>7. Lands(at[0])'
  <2>1. at[0] \in Reached(now) /\ Lands(at[0]) /\ UNCHANGED <<pump, msg, shown>>
    BY <1>1, <1>2, <1>3 DEF Chained, Grown, ui
  <2>2. CASE pump = "delivering" /\ msg # Closed
    <3>1. msg \in Event /\ Carries(hist, now, shown, msg, at[0])
      BY <2>1, <2>2 DEF Lands, TypeOK
    <3>2. Carries(hist', now', shown, msg, at[0])
      BY <1>5, <1>6, <2>1, <3>1
    <3> QED BY <2>1, <2>2, <3>2 DEF Lands
  <2>3. CASE ~(pump = "delivering" /\ msg # Closed)
    BY <2>1, <2>3 DEF Lands
  <2> QED BY <2>2, <2>3
<1>8. \A i \in 1 .. Len(chan') : Carries(hist', now', at[i - 1], chan'[i], at[i])
  <2> SUFFICES ASSUME NEW i \in 1 .. Len(chan) PROVE Carries(hist', now', at[i - 1], chan[i], at[i])
    BY DEF Grown
  <2>1. i - 1 \in 0 .. Last /\ i \in 0 .. Last
    BY <1>2
  <2> QED BY <1>1, <1>3, <1>5, <1>6, <2>1 DEF Chained
<1>9. Carries(hist', now', at[Len(chan')], ev', at[Last])
  <2>1. ev \in Event /\ ev' = ev /\ chan' = chan
    BY DEF TypeOK, Grown
  <2>2. Len(chan) \in 0 .. Last /\ Last \in 0 .. Last
    BY <1>2
  <2> QED BY <1>1, <1>3, <1>5, <2>1, <2>2 DEF Chained
<1>10. Resumable(at[Last])'
  <2>1. at[Last] \in Reached(now) /\ Resumable(at[Last])
    BY <1>1, <1>2, <1>3 DEF Chained
  <2>2. ResumeFromLast' = ResumeFromLast /\ ResumeFromLast \in 0 .. now
    BY DEF Grown, ResumeFromLast, LoopInv, TypeOK
  <2>3. at[Last] # NoRV => hist'[at[Last]] = hist[at[Last]]
    BY <1>4, <2>1 DEF Reached
  <2> QED BY <1>2, <1>4, <2>1, <2>2, <2>3 DEF Resumable, Grown
<1>11. Chained(at)'
  BY <1>2, <1>7, <1>8, <1>9, <1>10 DEF Chained
<1> QED BY <1>2, <1>3, <1>11

LEMMA QuietStep ==
  ASSUME TypeOK, Chain, UNCHANGED <<now, hist, chan, ev, cancelled, pump, msg, shown>>,
         \A z \in Reached(now) : Resumable(z) => Resumable(z)'
  PROVE  Chain'
BY LastLink

(* The steps of the goroutine that neither list, read nor send.             *)
LEMMA QuietChain ==
  ASSUME TypeOK, LoopInv, Chain,
         \/ Top \/ Poll \/ Backoff \/ ListError \/ OpenOk \/ OpenUnsupported \/ OpenError
         \/ ReadBookmark \/ StreamDrop \/ StreamExpired \/ Compact \/ UNCHANGED vars
  PROVE  Chain'
<1>1. UNCHANGED <<now, hist, chan, ev, cancelled, pump, msg, shown>>
  BY DEF Top, Poll, Backoff, ListError, OpenOk, OpenUnsupported, OpenError, ReadBookmark,
         StreamDrop, StreamExpired, Compact, server, ui, vars, LoopInv
<1> SUFFICES ASSUME NEW z \in Reached(now), Resumable(z) PROVE Resumable(z)'
  BY <1>1, QuietStep
<1>2. CASE Top \/ Poll \/ Backoff \/ Compact \/ UNCHANGED vars
  <2>1. ResumeFromLast' = ResumeFromLast
    BY <1>2 DEF Top, Poll, Backoff, Compact, conn, vars, ResumeFromLast
  <2>2. needList' \/ (needList' = needList /\ (pc' = pc \/ pc' # "sendReset"))
    BY <1>2 DEF Top, Poll, Backoff, Compact, vars
  <2>3. pc' = "sendReset" => pc = "sendReset"
    BY <1>2 DEF Top, Poll, Backoff, Compact, vars
  <2> QED BY <1>1, <2>1, <2>2, <2>3 DEF Resumable
<1>3. CASE ListError \/ OpenError \/ OpenOk \/ OpenUnsupported
  <2>1. lastRV = NoRV /\ pc' # "sendReset" /\ rv' = rv /\ lastRV' = NoRV /\ needList' = needList
    <3>1. CASE ListError
      BY <3>1 DEF ListError, LoopInv, conn
    <3>2. CASE OpenError
      BY <3>2 DEF OpenError, LoopInv, conn
    <3>3. CASE OpenOk
      BY <3>3 DEF OpenOk, LoopInv
    <3>4. CASE OpenUnsupported
      BY <3>4 DEF OpenUnsupported, LoopInv, conn
    <3> QED BY <1>3, <3>1, <3>2, <3>3, <3>4
  <2>2. ResumeFromLast' = ResumeFromLast
    BY <2>1 DEF ResumeFromLast
  <2> QED BY <1>1, <2>1, <2>2 DEF Resumable
<1>4. CASE ReadBookmark
  <2>1. PICK v \in pos .. now : hist[v] = hist[pos] /\ lastRV' = v
    BY <1>4 DEF ReadBookmark, TypeOK
  <2>2. pos = ResumeFromLast /\ ~needList /\ pos \in Version
    BY <1>4 DEF ReadBookmark, LoopInv, TypeOK
  <2>3. ResumeFromLast' = v
    BY <2>1, <2>2 DEF ResumeFromLast, TypeOK
  <2>4. z # NoRV /\ z <= ResumeFromLast /\ hist[z] = hist[ResumeFromLast] /\ z \in 0 .. now
    BY <2>2 DEF Resumable, Reached
  <2>5. z <= v /\ hist[z] = hist[v]
    BY <2>1, <2>2, <2>4 DEF TypeOK
  <2> QED BY <1>1, <2>3, <2>4, <2>5 DEF Resumable
<1>5. CASE StreamDrop \/ StreamExpired
  <2>1. rv' = ResumeFromLast /\ lastRV' = NoRV /\ pc' = "backoff" /\ (needList' \/ needList' = needList)
    BY <1>5 DEF StreamDrop, StreamExpired, EndStream, RelistOnExpired, TypeOK
  <2>2. ResumeFromLast' = ResumeFromLast
    BY <2>1 DEF ResumeFromLast
  <2> QED BY <1>1, <2>1, <2>2 DEF Resumable
<1> QED BY <1>2, <1>3, <1>4, <1>5

(* A List carries any pane to the latest version.                           *)
LEMMA ListChain ==
  ASSUME TypeOK, LoopInv, Chain, ListOk
  PROVE  Chain'
<1>1. /\ UNCHANGED <<now, hist, chan, cancelled, pump, msg, shown>>
      /\ rv' = now /\ lastRV' = NoRV /\ ev' = Reset(now, hist[now])
  BY DEF ListOk, ListsLatest, LoopInv, server, conn, ui
<1>2. now \in Reached(now) /\ \A y \in Reached(now) : Carries(hist, now, y, ev', now)
  BY <1>1 DEF Reset, Carries, Reached, TypeOK
<1>3. Resumable(now)'
  BY <1>1 DEF Resumable, ResumeFromLast, TypeOK
<1>4. \A y \in Reached(now), z \in Reached(now) :
        Carries(hist, now, y, ev, z) /\ Resumable(z) /\ ~cancelled =>
          \E w \in Reached(now) : Carries(hist, now, y, ev', w) /\ Resumable(w)'
  <2>1. \A w : w = now => (Resumable(w)' <=> Resumable(now)')
    BY <1>1 DEF Resumable
  <2> QED BY <1>2, <1>3, <2>1
<1> QED BY <1>1, <1>4, LastLink

(* A delta read carries the pane from where the connection stood to the     *)
(* version of the one write it reports.                                     *)
LEMMA ReadChain ==
  ASSUME TypeOK, OneWrite, LoopInv, Chain, ReadDelta
  PROVE  Chain'
<1>1. PICK v \in Version, u \in Uid :
        NextChange(v) /\ hist[v][u] # hist[pos][u] /\ ev' = Delta(v, u, hist[v][u]) /\ lastRV' = v
  BY DEF ReadDelta
<1>2. /\ UNCHANGED <<now, hist, chan, cancelled, pump, msg, shown, needList>>
      /\ ev = Error /\ ~needList /\ pos = ResumeFromLast /\ pos \in Version
  BY DEF ReadDelta, LoopInv, server, ui, TypeOK
<1>3. v \in 1 .. now /\ pos < v /\ hist[v - 1] = hist[pos]
  BY <1>1, <1>2 DEF NextChange, TypeOK
<1>4. v - 1 \in 0 .. (now - 1) /\ (v - 1) + 1 = v
  BY <1>3 DEF TypeOK
<1>5. \A x \in Uid : hist[v][x] # hist[pos][x] => x = u
  BY <1>1, <1>3, <1>4 DEF OneWrite
<1>6. hist[v] \in Snapshot /\ hist[pos] \in Snapshot
  BY <1>2 DEF TypeOK
<1>7. hist[v] = [hist[pos] EXCEPT ![u] = hist[v][u]]
  BY <1>5, <1>6 DEF Snapshot
<1>8. ResumeFromLast' = v
  BY <1>1 DEF ResumeFromLast
<1> SUFFICES ASSUME NEW y \in Reached(now), NEW z \in Reached(now),
                    Carries(hist, now, y, ev, z), Resumable(z)
             PROVE  \E w \in Reached(now) : Carries(hist, now, y, ev', w) /\ Resumable(w)'
  BY <1>2, LastLink
<1>9. y = z /\ y # NoRV /\ y <= pos /\ hist[y] = hist[pos]
  BY <1>2, ErrorStays DEF Resumable
<1>10. v \in Reached(now) /\ v \in 0 .. now /\ y <= v
  BY <1>2, <1>3, <1>9 DEF Reached, TypeOK
<1>11. Carries(hist, now, y, ev', v)
  <2>1. ev'.type = "DELTA" /\ ev'.rv = v /\ ev'.uid = u /\ ev'.row = hist[v][u]
    BY <1>1 DEF Delta
  <2> QED BY <1>7, <1>9, <1>10, <2>1 DEF Carries
<1>12. Resumable(v)'
  BY <1>2, <1>8, <1>10 DEF Resumable
<1> QED BY <1>10, <1>11, <1>12

(* Sending makes the last link the newest event of the channel.             *)
LEMMA SendChain ==
  ASSUME TypeOK, LoopInv, Chain, Send
  PROVE  Chain'
<1> SUFFICES ASSUME ~cancelled PROVE (\E at \in [0 .. Last -> Reached(now)] : Chained(at))'
  BY SendStep DEF Chain
<1>1. PICK at \in [0 .. Last -> Reached(now)] : Chained(at)
  BY DEF Chain
<1>2. /\ Len(chan) \in Nat /\ Last = Len(chan) + 1 /\ Len(chan') = Len(chan) + 1
      /\ Last' = Last + 1 /\ Reached(now)' = Reached(now)
      /\ chan'[Last] = ev /\ \A i \in 1 .. Len(chan) : chan'[i] = chan[i]
  <2>1. chan \in Seq(Event) /\ ev \in Event /\ chan' = Append(chan, ev)
    BY SendStep DEF TypeOK
  <2>2. /\ Len(chan) \in Nat /\ Len(chan') = Len(chan) + 1 /\ chan'[Len(chan) + 1] = ev
        /\ \A i \in 1 .. Len(chan) : chan'[i] = chan[i]
    BY <2>1
  <2>3. Reached(now)' = Reached(now)
    BY SendStep DEF Reached
  <2> QED BY <2>2, <2>3 DEF Last
<1>3. PICK bt \in [0 .. (Last + 1) -> Reached(now)] :
        bt[Last + 1] = at[Last] /\ \A i \in 0 .. Last : bt[i] = at[i]
  <2> DEFINE ct == [i \in 0 .. (Last + 1) |-> IF i <= Last THEN at[i] ELSE at[Last]]
  <2>1. ct \in [0 .. (Last + 1) -> Reached(now)]
    BY <1>2
  <2>2. ct[Last + 1] = at[Last] /\ \A i \in 0 .. Last : ct[i] = at[i]
    BY <1>2
  <2> HIDE DEF ct
  <2> QED BY <2>1, <2>2
<1>4. Lands(bt[0])'
  <2>1. bt[0] = at[0] /\ Lands(at[0])
    BY <1>1, <1>2, <1>3 DEF Chained
  <2> QED BY <2>1, SendStep DEF Lands
<1>5. \A i \in 1 .. Len(chan') : Carries(hist', now', bt[i - 1], chan'[i], bt[i])
  <2> SUFFICES ASSUME NEW i \in 1 .. (Len(chan) + 1)
               PROVE  Carries(hist, now, bt[i - 1], chan'[i], bt[i])
    BY <1>2, SendStep
  <2>1. bt[i - 1] = at[i - 1] /\ bt[i] = at[i]
    BY <1>2, <1>3
  <2>2. CASE i = Len(chan) + 1
    BY <1>1, <1>2, <2>1, <2>2 DEF Chained
  <2>3. CASE i # Len(chan) + 1
    <3>1. i \in 1 .. Len(chan)
      BY <1>2, <2>3
    <3> QED BY <1>1, <1>2, <2>1, <3>1 DEF Chained
  <2> QED BY <2>2, <2>3
<1>6. Carries(hist', now', bt[Len(chan')], ev', bt[Last'])
  BY <1>2, <1>3, SendStep, ErrorStays
<1>7. Resumable(bt[Last])'
  <2>1. bt[Last'] = at[Last] /\ Resumable(at[Last])
    BY <1>1, <1>2, <1>3 DEF Chained
  <2>2. ResumeFromLast' = ResumeFromLast /\ hist' = hist /\ pc' # "sendReset"
    BY SendStep DEF ResumeFromLast
  <2> QED BY <2>1, <2>2, SendStep DEF Resumable
<1>8. Chained(bt)'
  BY <1>4, <1>5, <1>6, <1>7 DEF Chained
<1> QED BY <1>2, <1>3, <1>8

(* Receiving makes the first link the message at hand.                      *)
LEMMA ReceiveChain ==
  ASSUME TypeOK, LoopInv, Chain, Receive
  PROVE  Chain'
<1>1. /\ pump = "receiving" /\ pump' = "delivering"
      /\ UNCHANGED <<now, hist, pc, rv, needList, lastRV, ev, cancelled, shown>>
  BY DEF Receive, server, conn
<1> SUFFICES ASSUME ~cancelled PROVE (\E at \in [0 .. Last -> Reached(now)] : Chained(at))'
  BY <1>1 DEF Chain
<1>2. chan # <<>> /\ msg' = Head(chan) /\ chan' = Tail(chan)
  BY DEF Receive, LoopInv
<1>3. PICK at \in [0 .. Last -> Reached(now)] : Chained(at)
  BY DEF Chain
<1>4. /\ Len(chan) \in Nat \ {0} /\ Last = Len(chan) + 1 /\ Len(chan') = Len(chan) - 1
      /\ Last' = Len(chan) /\ Reached(now)' = Reached(now)
      /\ msg' = chan[1] /\ msg' \in Event /\ \A i \in 1 .. (Len(chan) - 1) : chan'[i] = chan[i + 1]
  BY <1>1, <1>2 DEF TypeOK, Last, Reached
<1>5. PICK bt \in [0 .. Len(chan) -> Reached(now)] : \A i \in 0 .. Len(chan) : bt[i] = at[i + 1]
  <2>1. [i \in 0 .. Len(chan) |-> at[i + 1]] \in [0 .. Len(chan) -> Reached(now)]
    BY <1>4
  <2> QED BY <2>1
<1>6. Lands(bt[0])'
  <2>1. at[0] = shown /\ bt[0] = at[1]
    BY <1>1, <1>3, <1>4, <1>5 DEF Chained, Lands
  <2>2. Carries(hist, now, shown, msg', bt[0])
    BY <1>3, <1>4, <2>1 DEF Chained
  <2>3. msg' # Closed
    BY <1>4, EventShape
  <2> QED BY <1>1, <2>2, <2>3 DEF Lands
<1>7. \A i \in 1 .. Len(chan') : Carries(hist', now', bt[i - 1], chan'[i], bt[i])
  <2> SUFFICES ASSUME NEW i \in 1 .. (Len(chan) - 1)
               PROVE  Carries(hist, now, bt[i - 1], chan'[i], bt[i])
    BY <1>1, <1>4
  <2>1. /\ i - 1 \in 0 .. Len(chan) /\ i \in 0 .. Len(chan) /\ i + 1 \in 1 .. Len(chan)
        /\ (i - 1) + 1 = i /\ (i + 1) - 1 = i
    BY <1>4
  <2>2. bt[i - 1] = at[i] /\ bt[i] = at[i + 1]
    BY <1>5, <2>1
  <2>3. Carries(hist, now, at[(i + 1) - 1], chan[i + 1], at[i + 1])
    BY <1>3, <2>1 DEF Chained
  <2> QED BY <1>4, <2>1, <2>2, <2>3
<1>8. Carries(hist', now', bt[Len(chan')], ev', bt[Last'])
  <2>1. /\ Len(chan') \in 0 .. Len(chan) /\ Len(chan) \in 0 .. Len(chan)
        /\ Len(chan') + 1 = Len(chan) /\ Len(chan) + 1 = Last
    BY <1>4
  <2>2. bt[Len(chan')] = at[Len(chan)] /\ bt[Last'] = at[Last]
    BY <1>4, <1>5, <2>1
  <2> QED BY <1>1, <1>3, <2>2 DEF Chained
<1>9. Resumable(bt[Last])'
  <2>1. bt[Last'] = at[Last] /\ Resumable(at[Last])
    BY <1>3, <1>4, <1>5 DEF Chained
  <2>2. ResumeFromLast' = ResumeFromLast
    BY <1>1 DEF ResumeFromLast
  <2> QED BY <1>1, <2>1, <2>2 DEF Resumable
<1>10. Chained(bt)'
  BY <1>6, <1>7, <1>8, <1>9 DEF Chained
<1> QED BY <1>4, <1>5, <1>10

(* What handling the message at hand does to the pane, while its watch is   *)
(* the pane's own: it goes where the first link carries it.                 *)
Moves(w) ==
  /\ w \in Reached(now) /\ shown <= w
  /\ shown' = w
  /\ (w = shown /\ rows' = rows) \/ (w # NoRV /\ rows' = hist[w])

LEMMA HandleMoves ==
  ASSUME TypeOK, TableIsSnapshot, HandleWatchMsg, ~cancelled,
         NEW w \in Reached(now), Lands(w)
  PROVE  Moves(w)
<1>1. pump = "delivering" /\ shown \in Reached(now)
  BY DEF HandleWatchMsg, TableIsSnapshot, TypeOK, Reached
<1>2. CASE msg = Closed
  BY <1>1, <1>2 DEF HandleWatchMsg, Lands, Moves, TypeOK, Reached
<1>3. CASE msg # Closed
  <2>1. msg \in Event /\ Carries(hist, now, shown, msg, w)
    BY <1>1, <1>3 DEF Lands, TypeOK
  <2>2. ApplyEvent(msg) \/ (msg = Error /\ UNCHANGED <<rows, shown>>)
    BY <1>3, Zenon DEF HandleWatchMsg
  <2>3. CASE msg.type = "RESET"
    <3>1. w = msg.rv /\ w \in 0 .. now /\ shown <= w /\ msg.rows = hist[w]
      BY <2>1, <2>3 DEF Carries
    <3>2. rows' = msg.rows /\ shown' = msg.rv
      BY <2>2, <2>3 DEF ApplyEvent, Error
    <3> QED BY <3>1, <3>2 DEF Moves
  <2>4. CASE msg.type = "DELTA"
    <3>1. /\ w = msg.rv /\ shown # NoRV /\ w \in 0 .. now /\ shown <= w
          /\ hist[w] = [hist[shown] EXCEPT ![msg.uid] = msg.row]
      BY <2>1, <2>4 DEF Carries
    <3>2. rows' = [rows EXCEPT ![msg.uid] = msg.row] /\ shown' = msg.rv
      BY <2>2, <2>4 DEF ApplyEvent, Error
    <3>3. rows = hist[shown]
      BY <3>1 DEF TableIsSnapshot
    <3>4. rows' = hist[w] /\ w # NoRV /\ w \in Reached(now)
      BY <3>1, <3>2, <3>3 DEF TypeOK
    <3> QED BY <3>1, <3>2, <3>4 DEF Moves
  <2>5. CASE msg.type = "ERROR"
    <3>1. w = shown
      BY <2>1, <2>5 DEF Carries
    <3>2. UNCHANGED <<rows, shown>>
      BY <2>2, <2>5 DEF ApplyEvent
    <3> QED BY <1>1, <3>1, <3>2 DEF Moves, TypeOK, Reached
  <2> QED BY <2>1, <2>3, <2>4, <2>5, EventShape
<1> QED BY <1>2, <1>3

LEMMA HandleChain ==
  ASSUME TypeOK, TableIsSnapshot, Chain, HandleWatchMsg
  PROVE  Chain'
<1>1. UNCHANGED <<now, hist, pc, rv, needList, lastRV, ev, chan, cancelled>> /\ msg' = Closed
  BY DEF HandleWatchMsg, server, conn
<1> SUFFICES ASSUME ~cancelled PROVE (\E at \in [0 .. Last -> Reached(now)] : Chained(at))'
  BY <1>1 DEF Chain
<1>2. PICK at \in [0 .. Last -> Reached(now)] : Chained(at)
  BY DEF Chain
<1>3. Len(chan) \in Nat /\ Last = Len(chan) + 1 /\ Last' = Last /\ Reached(now)' = Reached(now)
  BY <1>1 DEF TypeOK, Last, Reached
<1>4. Lands(at[0])'
  <2>1. at[0] \in Reached(now) /\ Lands(at[0])
    BY <1>2, <1>3 DEF Chained
  <2>2. shown' = at[0]
    BY <2>1, HandleMoves DEF Moves
  <2> QED BY <1>1, <2>2 DEF Lands
<1>5. Resumable(at[Last])'
  <2>1. Resumable(at[Last]) /\ ResumeFromLast' = ResumeFromLast
    BY <1>1, <1>2 DEF Chained, ResumeFromLast
  <2> QED BY <1>1, <1>3, <2>1 DEF Resumable
<1>6. Chained(at)'
  BY <1>1, <1>2, <1>3, <1>4, <1>5 DEF Chained
<1> QED BY <1>2, <1>3, <1>6

LEMMA ChainStep == Inv /\ [Next]_vars => Chain'
<1> SUFFICES ASSUME Inv, [Next]_vars PROVE Chain'
  OBVIOUS
<1>1. CASE Write \/ WriteElsewhere
  BY <1>1, ServerGrows, ServerChain DEF Inv
<1>2. CASE Abandon \/ Cancel
  BY <1>2 DEF Abandon, Cancel, Chain
<1> QED
  BY <1>1, <1>2, QuietChain, ListChain, ReadChain, SendChain, ReceiveChain, HandleChain
     DEF Inv, Next, Server, Loop, List, Open, Stream, Shell, Finished

(* What a step does to the server and the pane: the server commits a        *)
(* version, or the pane moves as the message at hand carries it, or neither *)
(* changes.                                                                 *)
LEMMA PaneStep ==
  ASSUME Inv, [Next]_vars
  PROVE  \/ Grown /\ UNCHANGED <<shown, rows>>
         \/ UNCHANGED <<now, hist>> /\ \E w \in Reached(now) : Moves(w)
<1>1. CASE Write \/ WriteElsewhere
  BY <1>1, ServerGrows DEF Inv, Grown, ui
<1>2. CASE UNCHANGED <<now, hist, shown, rows>>
  <2>1. shown \in Reached(now) /\ shown \in Int
    BY DEF Inv, Reached, TypeOK, TableIsSnapshot
  <2>2. PICK w \in Reached(now) : w = shown
    BY <2>1
  <2>3. shown <= w /\ shown' = w /\ rows' = rows
    BY <1>2, <2>1, <2>2
  <2>4. Moves(w)
    BY <2>2, <2>3 DEF Moves
  <2> QED BY <1>2, <2>4
<1>3. CASE HandleWatchMsg /\ ~cancelled
  <2>1. PICK at \in [0 .. Last -> Reached(now)] : Chained(at)
    BY <1>3 DEF Inv, Chain
  <2>2. at[0] \in Reached(now) /\ Lands(at[0])
    BY <2>1 DEF Inv, TypeOK, Last, Chained
  <2>3. Moves(at[0])
    BY <1>3, <2>2, HandleMoves DEF Inv
  <2> QED BY <1>3, <2>2, <2>3 DEF HandleWatchMsg, server
<1>4. CASE HandleWatchMsg /\ cancelled
  <2>1. UNCHANGED <<now, hist, shown, rows>>
    BY <1>4, Zenon DEF HandleWatchMsg, server
  <2> QED BY <1>2, <2>1
<1>5. CASE ~Write /\ ~WriteElsewhere /\ ~HandleWatchMsg
  <2>1. UNCHANGED <<now, hist, shown, rows>>
    BY <1>5 DEF Next, Server, Loop, List, Open, Stream, Shell, Finished, Compact, Top, ListOk,
       ListError, Send, Abandon, Poll, Backoff, OpenOk, OpenUnsupported, OpenError, ReadDelta,
       ReadBookmark, StreamDrop, StreamExpired, Receive, Cancel, vars, server, ui
  <2> QED BY <1>2, <2>1
<1> QED BY <1>1, <1>3, <1>4, <1>5

LEMMA TableStep == Inv /\ [Next]_vars => TableIsSnapshot'
<1> SUFFICES ASSUME Inv, [Next]_vars PROVE TableIsSnapshot'
  OBVIOUS
<1>1. CASE Grown /\ UNCHANGED <<shown, rows>>
  BY <1>1 DEF Inv, TypeOK, Grown, TableIsSnapshot
<1>2. ASSUME UNCHANGED <<now, hist>>, NEW w \in Reached(now), Moves(w) PROVE TableIsSnapshot'
  BY <1>2 DEF Inv, TypeOK, Moves, Reached, TableIsSnapshot
<1> QED BY <1>1, <1>2, PaneStep

-----------------------------------------------------------------------------
LEMMA InitInv == Init => Inv
<1> SUFFICES ASSUME Init PROVE Inv
  OBVIOUS
<1>1. TypeOK
  BY InitTypes
<1>2. TableIsSnapshot /\ LoopInv
  BY DEF Init, TableIsSnapshot, LoopInv
<1>3. OneWrite
  BY DEF Init, OneWrite
<1>4. Chain
  <2>1. Last = 1 /\ Len(chan) = 0 /\ NoRV \in Reached(now)
    BY DEF Init, Last, Reached
  <2> DEFINE bt == [i \in 0 .. 1 |-> NoRV]
  <2>2. bt \in [0 .. Last -> Reached(now)] /\ bt[0] = NoRV /\ bt[1] = NoRV
    BY <2>1
  <2> HIDE DEF bt
  <2>3. Lands(bt[0]) /\ Resumable(bt[Last])
    BY <2>1, <2>2 DEF Init, Lands, Resumable
  <2>4. Carries(hist, now, bt[Len(chan)], ev, bt[Last])
    BY <2>1, <2>2, ErrorStays DEF Init
  <2>5. Chained(bt)
    BY <2>1, <2>3, <2>4 DEF Chained
  <2> QED BY <2>2, <2>5 DEF Chain
<1> QED BY <1>1, <1>2, <1>3, <1>4 DEF Inv

LEMMA InvStep == Inv /\ [Next]_vars => Inv'
BY Types, OneWriteStep, LoopStep, ChainStep, TableStep DEF Inv

(* watch.go, msg.go, handleWatchMsg: every variable keeps its type.         *)
THEOREM TypeCorrect == Spec => []TypeOK
BY InitTypes, Types, PTL DEF Spec

(* watch.go, ApplyEvent: through drops, resumes, bookmarks, expiries and    *)
(* re-lists, the pane's rows are exactly the collection at one version.     *)
THEOREM TableCorrect == Spec => []TableIsSnapshot
<1>1. Inv => TableIsSnapshot
  BY DEF Inv
<1> QED BY <1>1, InitInv, InvStep, PTL DEF Spec

(* The pane keeps LiveTable's promise: a step of the server commits one     *)
(* version, a message handled moves the pane to a version the server has,   *)
(* never back, and no other step shows.                                     *)
THEOREM RefinesLiveTable == Spec => PromiseSpec
<1>1. Init => Promise!Init
  BY DEF Init, Promise!Init, Promise!Version, Promise!Snapshot, Snapshot, Promise!NoRV,
         Promise!Blank, Blank
<1>2. ASSUME Inv, Inv', [Next]_vars PROVE [Promise!Next]_(Promise!vars)
  <2>1. CASE Grown /\ UNCHANGED <<shown, rows>>
    <3>1. hist'[now + 1] \in Snapshot
      BY <1>2, <2>1 DEF Inv, TypeOK, Grown
    <3>2. hist'[now + 1] \in Promise!Snapshot
      BY <3>1 DEF Snapshot, Promise!Snapshot
    <3> QED BY <2>1, <3>2 DEF Grown, Promise!Next, Promise!Commit
  <2>2. ASSUME UNCHANGED <<now, hist>>, NEW w \in Reached(now), Moves(w)
        PROVE  [Promise!Next]_(Promise!vars)
    <3>1. CASE UNCHANGED <<shown, rows>>
      BY <2>2, <3>1 DEF Promise!vars
    <3>2. CASE ~UNCHANGED <<shown, rows>>
      <4>1. w \in 0 .. now /\ w >= shown /\ shown' = w /\ rows' = hist[w]
        BY <1>2, <2>2, <3>2 DEF Moves, Reached, Inv, TypeOK
      <4> QED BY <2>2, <4>1 DEF Promise!Next, Promise!Refresh
    <3> QED BY <3>1, <3>2
  <2> QED BY <1>2, <2>1, <2>2, PaneStep
<1> QED BY <1>1, <1>2, InitInv, InvStep, PTL DEF Spec, PromiseSpec, Promise!Spec
=============================================================================
