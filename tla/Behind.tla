------------------------------- MODULE Behind -------------------------------
(***************************************************************************)
(* What goes on behind the surfaces: the sweep, the list it may fill, a    *)
(* log stream, port-forwards and a credential login.  They share no state, *)
(* so a behaviour is one part's (`part`) while the others' variables rest  *)
(* at 0: each is checked, and proved about, as if it ran by itself.        *)
(***************************************************************************)
EXTENDS Naturals, Sequences, FiniteSets

CONSTANTS
  Kind, Answer, Limit, Slots, Buf,                   \* Fanout
  MaxKinds, ListLimit, MaxListKeys,                  \* Unhealthy
  MaxLines, TailLines, LogBuf, MaxFaults, Torn,      \* LogStream
  MaxForwards,                                       \* Forwards
  MaxClusters, MaxSelections, MaxKeys                \* Reauth

VARIABLES
  part,
  pc, rows, sent, scattered, capped, stopped, left, out, ended, got, listed,
  view, scanGen, stream, sweep, pump, scanned, listKeys, launched, switched,
  log, finished, follow, next, last, window, resuming, item, lines, gone, faults, midSecond, read,
  handle, forwards, ready, waits, told, panel, ends, dismissed,
  cluster, gen, pane, latch, diags, armed, offer, modal, covered, inbox, login, stderr, keys,
  runs, diagnosed, overlaid

Sweep   == INSTANCE Fanout
Broken  == INSTANCE Unhealthy WITH
             Limit <- ListLimit, MaxKeys <- MaxListKeys, inbox <- scanned, keys <- listKeys
Stream  == INSTANCE LogStream WITH Buf <- LogBuf, pc <- follow, out <- lines, left <- gone
Forward == INSTANCE Forwards WITH inbox <- told, told <- ends
Login   == INSTANCE Reauth

ASSUME BehindAssumption ==
  /\ Sweep!FanoutAssumption /\ Broken!UnhealthyAssumption /\ Stream!LogStreamAssumption
  /\ Forward!ForwardsAssumption /\ Login!ReauthAssumption

sweepVars   == <<pc, rows, sent, scattered, capped, stopped, left, out, ended, got, listed>>
brokenVars  == <<view, scanGen, stream, sweep, pump, scanned, listKeys, launched, switched>>
streamVars  == <<log, finished, follow, next, last, window, resuming, item, lines, gone, faults,
                 midSecond, read>>
forwardVars == <<handle, forwards, ready, waits, told, panel, ends, dismissed>>
loginVars   == <<cluster, gen, pane, latch, diags, armed, offer, modal, covered, inbox, login, stderr,
                 keys, runs, diagnosed, overlaid>>
v == <<part, sweepVars, brokenVars, streamVars, forwardVars, loginVars>>

SweepRests ==
  /\ pc = 0 /\ rows = 0 /\ sent = 0 /\ scattered = 0 /\ capped = 0 /\ stopped = 0 /\ left = 0
  /\ out = 0 /\ ended = 0 /\ got = 0 /\ listed = 0
BrokenRests ==
  /\ view = 0 /\ scanGen = 0 /\ stream = 0 /\ sweep = 0 /\ pump = 0 /\ scanned = 0
  /\ listKeys = 0 /\ launched = 0 /\ switched = 0
StreamRests ==
  /\ log = 0 /\ finished = 0 /\ follow = 0 /\ next = 0 /\ last = 0 /\ window = 0 /\ resuming = 0
  /\ item = 0 /\ lines = 0 /\ gone = 0 /\ faults = 0 /\ midSecond = 0 /\ read = 0
ForwardRests ==
  /\ handle = 0 /\ forwards = 0 /\ ready = 0 /\ waits = 0 /\ told = 0 /\ panel = 0
  /\ ends = 0 /\ dismissed = 0
LoginRests ==
  /\ cluster = 0 /\ gen = 0 /\ pane = 0 /\ latch = 0 /\ diags = 0 /\ armed = 0 /\ offer = 0
  /\ modal = 0 /\ covered = 0 /\ inbox = 0 /\ login = 0 /\ stderr = 0 /\ keys = 0 /\ runs = 0
  /\ diagnosed = 0 /\ overlaid = 0

Init ==
  \/ part = "sweep"   /\ Sweep!Init  /\ BrokenRests  /\ StreamRests  /\ ForwardRests  /\ LoginRests
  \/ part = "broken"  /\ SweepRests  /\ Broken!Init  /\ StreamRests  /\ ForwardRests  /\ LoginRests
  \/ part = "stream"  /\ SweepRests  /\ BrokenRests  /\ Stream!Init  /\ ForwardRests  /\ LoginRests
  \/ part = "forward" /\ SweepRests  /\ BrokenRests  /\ StreamRests  /\ Forward!Init  /\ LoginRests
  \/ part = "login"   /\ SweepRests  /\ BrokenRests  /\ StreamRests  /\ ForwardRests  /\ Login!Init

Next ==
  \/ part = "sweep"   /\ Sweep!Next
     /\ UNCHANGED <<part, brokenVars, streamVars, forwardVars, loginVars>>
  \/ part = "broken"  /\ Broken!Next
     /\ UNCHANGED <<part, sweepVars, streamVars, forwardVars, loginVars>>
  \/ part = "stream"  /\ Stream!Next
     /\ UNCHANGED <<part, sweepVars, brokenVars, forwardVars, loginVars>>
  \/ part = "forward" /\ Forward!Next
     /\ UNCHANGED <<part, sweepVars, brokenVars, streamVars, loginVars>>
  \/ part = "login"   /\ Login!Next
     /\ UNCHANGED <<part, sweepVars, brokenVars, streamVars, forwardVars>>

(* Each part's own fairness; the others rest anyway.                        *)
Fairness ==
  /\ \A k \in Kind : WF_sweepVars(part = "sweep" /\ Sweep!Sweep(k))
  /\ WF_sweepVars(part = "sweep" /\ Sweep!Wait)
  /\ WF_sweepVars(part = "sweep" /\ Sweep!End)
  /\ WF_sweepVars(part = "sweep" /\ Sweep!Receive)
  /\ \A g \in 1 .. MaxListKeys : WF_brokenVars(part = "broken" /\ Broken!Receive(g))
  /\ WF_brokenVars(part = "broken" /\ Broken!HandleScans)
  /\ WF_streamVars(part = "stream" /\ Stream!Follow)
  /\ WF_streamVars(part = "stream" /\ Stream!Receive)
  /\ \A i \in 1 .. MaxForwards : WF_forwardVars(part = "forward" /\ Forward!Steps(i))
  /\ WF_forwardVars(part = "forward" /\ Forward!Command)
  /\ WF_forwardVars(part = "forward" /\ Forward!HandleMessage)
Spec == Init /\ [][Next]_v /\ Fairness
----------------------------- (* properties *) -----------------------------
(* The end a view is shown is a true one (searchRows): see Fanout; and what *)
(* the view says of it then is one sweep's (handleScanMsg): see Unhealthy.  *)
(* The view relies on the channel's promise (Search, Scan), which every     *)
(* step of the sweep keeps: see ScanChannel.                                *)
EndIsTrue ==
  /\ [](part = "sweep" => Sweep!TypeOK /\ Sweep!EndIsTrue)
  /\ [](part = "broken" =>
          Broken!TypeOK /\ Broken!DoneIsOneSweep /\ Broken!ScanningMeansScanningHere)
  /\ (part = "sweep" => Sweep!Channel!Init) /\ [][part = "sweep" => Sweep!Promised]_v

(* No reconnect repeats or skips a line (logResumer): see LogStream.        *)
TailedStreamIsTheLog == part = "stream" => Stream!TypeOK /\ Stream!TailedStreamIsTheLog

(* No forward is lost track of, and the panel's cursor is on one            *)
(* (waitForward, handleForwardDone): see Forwards.                          *)
ForwardsAreAccountedFor ==
  part = "forward" =>
    Forward!TypeOK /\ Forward!ForwardsAreAccountedFor /\ Forward!CursorStaysOnTheList

(* The pane explains its own failure, and an approved login is of the       *)
(* cluster it runs on and runs once (handleAuthDiagMsg, acceptReauth): see  *)
(* Reauth.                                                                  *)
LoginsStayHome ==
  part = "login" =>
    /\ Login!TypeOK /\ Login!LoginsStayHome
    /\ Login!PaneExplainsItself /\ Login!AskingMeansAskedIfAnswered

(* Whatever is started ends: a sweep always, and with every exact match     *)
(* unless it says otherwise, a list's scanning, a log stream with its log   *)
(* or its reader, a forward that was told to stop (sendEvent, sendLog,      *)
(* newPortForward's second goroutine).                                      *)
EverythingEnds ==
  /\ <>(part = "sweep" => Sweep!Swept) /\ [](part = "sweep" => Sweep!NothingMissed)
  /\ (part = "broken" /\ Broken!Scanning) ~> (part = "broken" => ~Broken!Scanning)
  /\ (part = "stream" /\ Stream!Ending) ~> (part = "stream" => Stream!Closed)
  /\ \A i \in 1 .. MaxForwards :
       (part = "forward" /\ Forward!ToldToStop(i)) ~> (part = "forward" => Forward!Gone(i))
=============================================================================
