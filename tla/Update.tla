------------------------------- MODULE Update -------------------------------
(***************************************************************************)
(* Self-update (internal/update/update.go): a build is picked from the     *)
(* channel, fetched, written beside the running binary, flushed and        *)
(* renamed over it.  Several kubecoms may update at once, any of them may  *)
(* be killed, and the machine may lose power; what was not flushed is then *)
(* in doubt.  A build is named by its place in the channel's order.  (The  *)
(* launcher's own directory is installed into by a library.)               *)
(***************************************************************************)
EXTENDS Naturals

CONSTANTS
  Updaters,   \* kubecoms running `update`
  MaxBuild    \* bound: builds published

VARIABLES
  live,      \* the channel's live builds
  newest,    \* the last build published
  exe,       \* the file under the binary's name
  kept,      \* the files a power loss may leave under it
  up         \* each updater

vars == <<live, newest, exe, kept, up>>

None == 0
Build == Nat \ {None}
File == [build : Build \cup {None}, whole : BOOLEAN, synced : BOOLEAN]
NoFile == [build |-> None, whole |-> FALSE, synced |-> FALSE]
Up == [pc : {"idle", "picked", "claimed", "fetched", "renamed"}, to : Build \cup {None}, tmp : File]
Idle == [pc |-> "idle", to |-> None, tmp |-> NoFile]

TypeOK ==
  /\ newest \in Build /\ live \subseteq 1 .. newest
  /\ exe \in File /\ kept \subseteq File
  /\ up \in [Updaters -> Up]

Init ==
  /\ live = {1} /\ newest = 1
  /\ exe = [build |-> 1, whole |-> TRUE, synced |-> TRUE] /\ kept = {exe}
  /\ up = [u \in Updaters |-> Idle]

Channel == UNCHANGED <<live, newest>>
Disk == UNCHANGED <<exe, kept>>
To(u, rec) == up' = [up EXCEPT ![u] = rec]

Publish == newest < MaxBuild /\ newest' = newest + 1 /\ live' = live \cup {newest'} /\ Disk /\ UNCHANGED up
Withdraw == (\E b \in live : live' = live \ {b}) /\ UNCHANGED newest /\ Disk /\ UNCHANGED up

(* pick and resolve: the newest build, or the one named, older ones         *)
(* included.  Both must be live; the one already running is left alone.     *)
Picks(self) == live \ {self}
Pick(u) ==
  /\ up[u].pc = "idle" /\ exe.whole
  /\ \E b \in Picks(exe.build) : To(u, [pc |-> "picked", to |-> b, tmp |-> NoFile])
  /\ Channel /\ Disk
Claim(u) == up[u].pc = "picked" /\ To(u, [up[u] EXCEPT !.pc = "claimed"]) /\ Channel /\ Disk
(* Download checks size and digest: what it returns is the signed build.    *)
Download(u) ==
  /\ up[u].pc = "claimed" /\ up[u].to \in live
  /\ To(u, [up[u] EXCEPT !.pc = "fetched"]) /\ Channel /\ Disk

(* install, one call at a time; each may fail, which removes the temporary. *)
Write(u) ==
  /\ up[u].pc = "fetched" /\ up[u].tmp = NoFile
  /\ To(u, [up[u] EXCEPT !.tmp = [build |-> up[u].to, whole |-> TRUE, synced |-> FALSE]])
  /\ Channel /\ Disk
Sync(u) ==
  /\ up[u].pc = "fetched" /\ up[u].tmp.whole /\ ~up[u].tmp.synced
  /\ To(u, [up[u] EXCEPT !.tmp.synced = TRUE]) /\ Channel /\ Disk
ReadyUnsynced(f) == f.whole   \* not the code
Ready(f) == f.whole /\ f.synced
Rename(u) ==
  /\ up[u].pc = "fetched" /\ Ready(up[u].tmp)
  /\ exe' = up[u].tmp /\ kept' = kept \cup {exe'}
  /\ To(u, [up[u] EXCEPT !.pc = "renamed", !.tmp = NoFile]) /\ Channel
(* The directory's flush; that it failed goes unnoticed.                    *)
SyncDir(u) ==
  /\ up[u].pc = "renamed" /\ To(u, Idle) /\ UNCHANGED exe
  /\ kept' \in {{exe}, kept}
  /\ Channel
Fail(u) == up[u].pc \in {"picked", "claimed", "fetched"} /\ To(u, Idle) /\ Channel /\ Disk
Kill(u) == up[u].pc # "idle" /\ To(u, Idle) /\ Channel /\ Disk

(* What was written but not flushed may be lost in part.                    *)
PowerLoss ==
  /\ \E f \in kept :
       /\ exe' \in {f, [f EXCEPT !.whole = f.synced]}
       /\ exe' # exe \/ \E u \in Updaters : up[u] # Idle
  /\ kept' = {exe'} /\ up' = [u \in Updaters |-> Idle] /\ Channel

Updater(u) == \/ Pick(u) \/ Claim(u) \/ Download(u) \/ Write(u) \/ Sync(u) \/ Rename(u) \/ SyncDir(u)
              \/ Fail(u) \/ Kill(u)
Next == Publish \/ Withdraw \/ PowerLoss \/ \E u \in Updaters : Updater(u)
Spec == Init /\ [][Next]_vars
----------------------------- (* properties *) -----------------------------
(* "The file is the old build or the new one and never half of either"      *)
(* (update.go's package comment), killed or unplugged at any step and with  *)
(* two updates at once.                                                     *)
BinaryIsWhole == exe.whole /\ exe.build \in 1 .. newest

(* Why: every file a loss of power may leave under the name is one that no  *)
(* loss of power can hurt, of a build that was published, and a temporary   *)
(* file that is whole holds the build its updater fetched.                  *)
Safe(f) == f \in File /\ f.whole /\ f.synced /\ f.build \in 1 .. newest
Inv ==
  /\ TypeOK
  /\ exe \in kept /\ \A f \in kept : Safe(f)
  /\ \A u \in Updaters :
       /\ up[u].to \in 0 .. newest
       /\ up[u].pc = "fetched" => up[u].to # None
       /\ up[u].tmp.whole => up[u].tmp.build = up[u].to /\ up[u].pc = "fetched"
=============================================================================
