------------------------------- MODULE Reauth -------------------------------
(***************************************************************************)
(* A credential plugin that fails, from the pane's notice to the login the *)
(* reader approves (tui/authdiag.go, tui/reauth.go, tui/handover.go and    *)
(* kube/authexec.go): the failed watch has its plugin run again, what it   *)
(* printed may name a remedy, the remedy is offered in a dialog, and an    *)
(* accepted one takes the terminal, with the event loop and stderr, until  *)
(* it ends and the failed resource is watched again.  Meanwhile watches    *)
(* fail and recover, clusters are switched and other surfaces open.        *)
(***************************************************************************)
EXTENDS Naturals, FiniteSets

CONSTANTS
  MaxClusters,    \* bound: clusters connected to, one after another
  MaxSelections,  \* bound: browse watches started
  MaxKeys         \* bound: keys pressed
ReauthAssumption == MaxClusters \in Nat \ {0} /\ {MaxSelections, MaxKeys} \subseteq Nat

VARIABLES
  cluster,   \* the cluster the shell is on
  gen,       \* watchGen
  pane,      \* the table: is it watched, does it hold rows, and its notice
  latch,     \* authDiagGen
  diags,     \* plugins being run again: the selection and cluster that failed
  armed,     \* reauthCmd, reauthRes
  offer,     \* reauthOffer: the notice the open dialog owns
  modal,     \* "none", the offer's or another one
  covered,   \* some other overlay is up
  inbox,     \* messages on the way to the shell
  login,     \* the login: waiting for the terminal, holding it, or none
  stderr,    \* where fd 2 points
  keys, runs, diagnosed, overlaid

vars == <<cluster, gen, pane, latch, diags, armed, offer, modal, covered, inbox, login, stderr,
          keys, runs, diagnosed, overlaid>>

None    == [type |-> "none"]
Cluster == 1 .. MaxClusters
Gen     == 0 .. MaxSelections
(* A failed watch: the selection stands for its resource, and belongs to a  *)
(* cluster.                                                                 *)
Failure == [type : {"failure"}, gen : Gen, cluster : Cluster]
(* browseFailure and authFailure: the generic sentence, the diagnosis with  *)
(* no remedy or one to run oneself, the diagnosis with the offer.           *)
Notice  == [type : {"generic", "told", "asking"}, gen : Gen, cluster : Cluster]
(* DiagnoseExecPlugin: an error or no plugin, a failure without a remedy,   *)
(* or one with.                                                             *)
Report  == {"nothing", "plain", "remedy"}
Message == [type : {"diag"}, of : Failure, report : Report]
           \cup [type : {"confirmed", "cancelled"}, kind : {"reauth", "other"}, key : 1 .. MaxKeys]
           \cup [type : {"done"}, of : Failure, ok : BOOLEAN]

NoLogin == [at |-> "none", of |-> None]

TypeOK ==
  /\ cluster \in Cluster /\ gen \in Gen /\ latch \in Gen
  /\ pane \in [live : BOOLEAN, rows : BOOLEAN, notice : Notice \cup {None}]
  /\ diags \subseteq Failure /\ armed \in Failure \cup {None} /\ offer \in Notice \cup {None}
  /\ modal \in {"none", "reauth", "other"} /\ covered \in BOOLEAN /\ inbox \subseteq Message
  /\ login \in [at : {"queued", "running"}, of : Failure] \cup {NoLogin}
  /\ stderr \in {"log", "terminal"} /\ keys \in 0 .. MaxKeys /\ diagnosed \in [Gen -> Nat]
  /\ runs \subseteq [of : Failure, on : Cluster, again : BOOLEAN] /\ overlaid \in BOOLEAN

Blank == [live |-> FALSE, rows |-> FALSE, notice |-> None]
Init ==
  /\ cluster = 1 /\ gen = 0 /\ latch = 0 /\ pane = Blank /\ diags = {}
  /\ armed = None /\ offer = None /\ modal = "none" /\ covered = FALSE /\ inbox = {}
  /\ login = NoLogin /\ stderr = "log"
  /\ keys = 0 /\ runs = {} /\ diagnosed = [g \in Gen |-> 0] /\ overlaid = FALSE

(* bubbletea runs no handler while a command has the terminal.              *)
Loop == login.at # "running" /\ UNCHANGED stderr
Key  == Loop /\ keys < MaxKeys /\ keys' = keys + 1

------------------------ (* the watch and its notice *) --------------------
(* watchResource: by the reader, or by a login that worked.                 *)
WatchResource ==
  /\ gen < MaxSelections /\ gen' = gen + 1 /\ pane' = [Blank EXCEPT !.live = TRUE]
Select ==
  /\ Key /\ modal = "none" /\ ~covered /\ WatchResource
  /\ UNCHANGED <<cluster, latch, diags, armed, offer, modal, covered, inbox, login, runs, diagnosed, overlaid>>

(* handleWatchMsg, an error of the plugin's: one diagnosis for a selection. *)
WatchFails ==
  /\ Loop /\ pane.live
  /\ pane' = [pane EXCEPT !.notice = [type |-> "generic", gen |-> gen, cluster |-> cluster]]
  /\ IF latch = gen THEN UNCHANGED <<latch, diags, diagnosed>>
     ELSE /\ latch' = gen /\ diagnosed' = [diagnosed EXCEPT ![gen] = @ + 1]
          /\ diags' = diags \cup {[type |-> "failure", gen |-> gen, cluster |-> cluster]}
  /\ UNCHANGED <<cluster, gen, armed, offer, modal, covered, inbox, login, keys, runs, overlaid>>
WatchRecovers ==
  /\ Loop /\ pane.live
  /\ \E some \in BOOLEAN : pane' = [pane EXCEPT !.rows = some, !.notice = None]
  /\ UNCHANGED <<cluster, gen, latch, diags, armed, offer, modal, covered, inbox, login, keys, runs,
                 diagnosed, overlaid>>

----------------------------- (* the diagnosis *) --------------------------
(* A cancelled one may have ended before.                                   *)
Diagnose(d) ==
  /\ diags' = diags \ {d}
  /\ \E r \in Report : inbox' = inbox \cup {[type |-> "diag", of |-> d, report |-> r]}
  /\ UNCHANGED <<cluster, gen, pane, latch, armed, offer, modal, covered, login, stderr, keys, runs,
                 diagnosed, overlaid>>

Take(m) == inbox' = inbox \ {m}
(* As if only the notice were forgotten: not the code.                      *)
DisarmNotice == offer' = None /\ UNCHANGED armed
Disarm == armed' = None /\ offer' = None
Explains(m) == m.of.gen = gen /\ m.report # "nothing" /\ ~pane.rows /\ pane.notice # None
(* offerReauth, armReauth: only over the plain browse view.                 *)
OverlayActive == covered \/ modal # "none"
Told(m)   == [type |-> "told", gen |-> m.of.gen, cluster |-> m.of.cluster]
Asking(m) == [Told(m) EXCEPT !.type = "asking"]
HandleAuthDiag(m) ==
  /\ m.type = "diag" /\ Take(m)
  /\ IF ~Explains(m) THEN UNCHANGED <<pane, armed, offer, modal>>
     ELSE IF OverlayActive THEN pane' = [pane EXCEPT !.notice = Told(m)] /\ UNCHANGED <<armed, offer, modal>>
     ELSE IF m.report = "plain" THEN pane' = [pane EXCEPT !.notice = Told(m)] /\ Disarm /\ UNCHANGED modal
     ELSE pane' = [pane EXCEPT !.notice = Asking(m)] /\ armed' = m.of /\ offer' = Asking(m) /\ modal' = "reauth"
  /\ UNCHANGED <<cluster, gen, latch, diags, covered, login, keys, runs, diagnosed, overlaid>>

------------------------- (* the dialog and the login *) -------------------
Restored == IF offer # None /\ pane.notice = offer
            THEN [pane EXCEPT !.notice = [offer EXCEPT !.type = "told"]] ELSE pane

AnswerModal ==
  /\ Key /\ modal # "none"
  /\ \E a \in {"confirmed", "cancelled"} : inbox' = inbox \cup {[type |-> a, kind |-> modal, key |-> keys']}
  /\ UNCHANGED <<cluster, gen, pane, latch, diags, armed, offer, modal, covered, login, runs, diagnosed, overlaid>>
(* handleModalAction: app.quit hides the dialog and does nothing more.      *)
Quit ==
  /\ Key /\ modal # "none" /\ modal' = "none" /\ overlaid' = (overlaid \/ modal = "reauth")
  /\ UNCHANGED <<cluster, gen, pane, latch, diags, armed, offer, covered, inbox, login, runs, diagnosed>>

(* acceptReauth, runReauth: one approval, one run.                          *)
Accept(m) ==
  /\ m.type = "confirmed" /\ m.kind = "reauth" /\ Take(m)
  /\ IF armed = None \/ login # NoLogin THEN UNCHANGED login ELSE login' = [at |-> "queued", of |-> armed]
  /\ armed = None \/ login = NoLogin   \* bound: one login at a time waits for the terminal
  /\ runs' = IF armed = None THEN runs ELSE runs \cup {[of |-> armed, on |-> cluster, again |-> \E r \in runs : r.of = armed]}
  /\ modal' = "none" /\ pane' = Restored /\ Disarm
  /\ UNCHANGED <<cluster, gen, latch, diags, covered, keys, diagnosed, overlaid>>
Decline(m) ==
  /\ m.type = "cancelled" /\ m.kind = "reauth" /\ Take(m)
  /\ modal' = "none" /\ pane' = Restored /\ Disarm
  /\ UNCHANGED <<cluster, gen, latch, diags, covered, login, keys, runs, diagnosed, overlaid>>
OtherAnswered(m) ==
  /\ m.type \in {"confirmed", "cancelled"} /\ m.kind = "other" /\ Take(m) /\ modal' = "none"
  /\ overlaid' = (overlaid \/ modal = "reauth")
  /\ UNCHANGED <<cluster, gen, pane, latch, diags, armed, offer, covered, login, keys, runs, diagnosed>>

(* handover: stderr is the terminal's exactly while the login has it.       *)
TakeTerminal ==
  /\ login.at = "queued" /\ login' = [login EXCEPT !.at = "running"] /\ stderr' = "terminal"
  /\ UNCHANGED <<cluster, gen, pane, latch, diags, armed, offer, modal, covered, inbox, keys, runs,
                 diagnosed, overlaid>>
LoginEnds ==
  /\ login.at = "running" /\ login' = NoLogin /\ stderr' = "log"
  /\ \E ok \in BOOLEAN : inbox' = inbox \cup {[type |-> "done", of |-> login.of, ok |-> ok]}
  /\ UNCHANGED <<cluster, gen, pane, latch, diags, armed, offer, modal, covered, keys, runs, diagnosed, overlaid>>
(* A login that worked restarts the watch that failed, whatever is browsed  *)
(* by now.                                                                  *)
HandleReauthDone(m) ==
  /\ m.type = "done" /\ Take(m)
  /\ IF m.ok THEN WatchResource ELSE UNCHANGED <<gen, pane>>
  /\ UNCHANGED <<cluster, latch, diags, armed, offer, modal, covered, login, keys, runs, diagnosed, overlaid>>

---------------------- (* what goes on around them *) ----------------------
(* stopClusterAsync and resetCluster.                                       *)
SwitchCluster ==
  /\ Loop /\ cluster < MaxClusters /\ cluster' = cluster + 1
  /\ gen' = gen + 1 /\ gen < MaxSelections /\ latch' = 0 /\ pane' = Blank
  /\ Disarm /\ modal' = "none" /\ covered' = FALSE
  /\ UNCHANGED <<diags, inbox, login, keys, runs, diagnosed, overlaid>>
(* Another surface opens or closes, or a row action's dialog opens, late.   *)
Cover ==
  /\ Key /\ modal = "none" /\ covered' = ~covered
  /\ UNCHANGED <<cluster, gen, pane, latch, diags, armed, offer, modal, inbox, login, runs, diagnosed, overlaid>>
OtherDialog ==
  /\ Key /\ modal' = "other" /\ overlaid' = (overlaid \/ modal = "reauth")
  /\ UNCHANGED <<cluster, gen, pane, latch, diags, armed, offer, covered, inbox, login, runs, diagnosed>>

Handle == Loop /\ \E m \in inbox : \/ HandleAuthDiag(m) \/ Accept(m) \/ Decline(m) \/ OtherAnswered(m) \/ HandleReauthDone(m)
Next == \/ Select \/ WatchFails \/ WatchRecovers \/ AnswerModal \/ Quit \/ TakeTerminal \/ LoginEnds
        \/ SwitchCluster \/ Cover \/ OtherDialog \/ Handle \/ \E d \in diags : Diagnose(d)
Spec == Init /\ [][Next]_vars
----------------------------- (* properties *) -----------------------------
(* What the pane says is about the watch it shows (handleAuthDiagMsg,       *)
(* restoreReauthNotice): no diagnosis is written on another selection, and  *)
(* one is run once per selection, however often the watch fails.            *)
PaneExplainsItself ==
  /\ pane.notice # None => pane.notice.gen = gen /\ pane.notice.cluster = cluster
  /\ \A g \in Gen : diagnosed[g] <= 1

(* A login runs at most once per offer, and only on the cluster whose       *)
(* credentials it renews (armReauth, clearReauth): the approval is single-  *)
(* use and none outlives a switch.                                          *)
LoginsStayHome == \A r \in runs : r.of.cluster = r.on /\ ~r.again

(* While the pane says kubecom is asking, the question is on screen         *)
(* (restoreReauthNotice), unless another dialog replaced it or app.quit     *)
(* hid it.                                                                  *)
AskingMeansAsked == pane.notice.type = "asking" => modal = "reauth"
AskingMeansAskedIfAnswered == ~overlaid => AskingMeansAsked

(* What is watched again after a login is the request that failed           *)
(* (handleReauthDone): of the cluster the shell is on.                      *)
RetryStaysHome == [][\A m \in inbox : m.type = "done" /\ m.ok /\ Take(m) /\ gen' = gen + 1
                                        => m.of.cluster = cluster]_vars

(* Why: a failure that is diagnosed is in one place at a time - its plugin  *)
(* is running, its report is on the way, its remedy is armed, or a login    *)
(* for it has run - and moves on only while its selection is the shell's;   *)
(* the remedy is forgotten with the cluster.                                *)
Known(f) == \/ f \in diags
            \/ \E m \in inbox : m.type = "diag" /\ m.of = f
            \/ f = armed /\ armed # None
            \/ \E r \in runs : r.of = f
Dated ==
  \A f \in Failure : Known(f) => f.gen <= gen /\ (f.gen = gen => latch = gen /\ f.cluster = cluster)
Apart ==
  /\ \A m \in inbox : m.type = "diag" => /\ m.of \notin diags
                                         /\ armed # None => m.of # armed
                                         /\ \A r \in runs : r.of # m.of
                                         /\ \A n \in inbox : n.type = "diag" /\ n.of = m.of => n = m
  /\ armed # None => armed \notin diags
  /\ \A r \in runs : r.of \notin diags /\ (armed # None => r.of # armed)
Armed == armed # None => armed.cluster = cluster
Traced == Dated /\ Apart /\ Armed /\ LoginsStayHome
(* A notice that asks is the offer's, and a selection's diagnosis latches.  *)
Noticed ==
  /\ pane.notice # None => pane.notice.gen = gen /\ pane.notice.cluster = cluster
  /\ pane.notice.type = "asking" => pane.notice = offer
  /\ ~overlaid => AskingMeansAsked
Latched ==
  \A g \in Gen : diagnosed[g] <= 1 /\ (diagnosed[g] # 0 => g < gen \/ (g = gen /\ latch = gen))
Inv == TypeOK /\ Traced /\ Noticed /\ Latched
=============================================================================
