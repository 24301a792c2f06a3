------------------------------ MODULE Updater -------------------------------
(***************************************************************************)
(* The self-update: CheckForUpdate and ApplyUpdate of cmd/desktop/main.go  *)
(* over app/update/update.go.  Each ApplyUpdate is a goroutine of its own, *)
(* the swap of the executable is a series of renames, and the process may  *)
(* die between any two of them.  Windows refuses to remove or replace the  *)
(* file that is running.                                                   *)
(***************************************************************************)
EXTENDS Naturals, Sequences

CONSTANTS
  Version,   \* builds, as sequences of numbers
  First,     \* the build installed at first
  Updater,   \* ApplyUpdates that can be under way
  None

VARIABLES
  os,        \* "unix" or "windows"
  exe,       \* the build at the executable's path, None: no file there
  old,       \* the one at <path>.old
  running,   \* the build the process runs, and its place: exe, old or gone
  pc,        \* of each update: idle, ask, fetch, load, aside, move or back
  target,    \* what its manifest promises: [version, signed]
  down,      \* the file it downloaded
  killed,    \* history: the process died inside a swap
  vouched    \* history: builds whose manifest was signed

vars == <<os, exe, old, running, pc, target, down, killed, vouched>>

Process(v, place) == [version |-> v, place |-> place]

Init ==
  /\ os \in {"unix", "windows"}
  /\ exe = First /\ old = None /\ running = Process(First, "exe")
  /\ pc = [u \in Updater |-> "idle"]
  /\ target = [u \in Updater |-> None] /\ down = [u \in Updater |-> None]
  /\ killed = FALSE /\ vouched = {First}

Goes(u, label) == pc' = [pc EXCEPT ![u] = label]
Returns(u) ==
  /\ Goes(u, "idle")
  /\ target' = [target EXCEPT ![u] = None] /\ down' = [down EXCEPT ![u] = None]
Alive == running.place # "gone"

-----------------------------------------------------------------------------
(* Is there something newer?                                               *)

Part(v, i) == IF i <= Len(v) THEN v[i] ELSE 0

\* compareSemver: the first part that differs decides, a missing one is 0.
IsNewer(a, b) ==
  \E i \in 1 .. Len(a) :
    Part(a, i) > Part(b, i) /\ \A j \in 1 .. i - 1 : Part(a, j) = Part(b, j)

\* CheckForUpdate: the manifest's target for this platform is signed, and its version
\* is newer than the one that runs.
CheckForUpdate(u, m) ==
  /\ Alive /\ pc[u] = "idle"
  /\ m.signed /\ IsNewer(m.version, running.version)
  /\ Goes(u, "ask")
  /\ UNCHANGED <<os, exe, old, running, target, down, killed, vouched>>

\* The user agrees: ApplyUpdate fetches the manifest again, whatever it says by then.
FetchManifest(u, m) ==
  /\ Alive /\ pc[u] = "ask"
  /\ target' = [target EXCEPT ![u] = m]
  /\ Goes(u, "fetch")
  /\ UNCHANGED <<os, exe, old, running, down, killed, vouched>>

\* Any step may fail, and the user may decline, before the swap.
GiveUp(u) ==
  /\ Alive /\ pc[u] \in {"ask", "fetch", "load"}
  /\ Returns(u)
  /\ UNCHANGED <<os, exe, old, running, killed, vouched>>

\* ApplyUpdate checks the signature of the manifest it has now.
VerifySignature(u) ==
  /\ Alive /\ pc[u] = "fetch" /\ target[u].signed
  /\ vouched' = vouched \cup {target[u].version}
  /\ Goes(u, "load")
  /\ UNCHANGED <<os, exe, old, running, target, down, killed>>

\* What comes has the digest of the manifest, or Download fails.
Download(u) ==
  /\ Alive /\ pc[u] = "load"
  /\ down' = [down EXCEPT ![u] = target[u].version]
  /\ Goes(u, IF os = "unix" THEN "move" ELSE "aside")
  /\ UNCHANGED <<os, exe, old, running, target, killed, vouched>>

-----------------------------------------------------------------------------
(* SwapInPlace                                                             *)

\* Unix: one rename, or a copy that ends in one; a failure of both changes nothing.
UnixSwap(u) ==
  /\ Alive /\ os = "unix" /\ pc[u] = "move"
  /\ \/ exe' = down[u]
     \/ UNCHANGED exe
  /\ Returns(u)
  /\ UNCHANGED <<os, old, running, killed, vouched>>

\* Where the running file is after exe became old, and after old became exe.
Moved(place) == IF running.place = place THEN IF place = "exe" THEN "old" ELSE "exe"
                                         ELSE running.place

\* windowsSwap removes a prior .old, unless it is the running file, and moves the
\* executable there; the rename fails without an executable or over the running file.
WindowsAside(u) ==
  LET left == IF running.place = "old" THEN old ELSE None
  IN  /\ Alive /\ os = "windows" /\ pc[u] = "aside"
      /\ \/ /\ exe # None /\ left = None
            /\ old' = exe /\ exe' = None
            /\ running' = [running EXCEPT !.place = Moved("exe")]
            /\ Goes(u, "move") /\ UNCHANGED <<target, down>>
         \/ /\ old' = left
            /\ UNCHANGED <<exe, running>>
            /\ Returns(u)
      /\ UNCHANGED <<os, killed, vouched>>

\* The download takes its place, by a rename or by a copy; both fail, or the rename
\* would replace the running file.
WindowsMove(u) ==
  /\ Alive /\ os = "windows" /\ pc[u] = "move"
  /\ \/ exe' = down[u] /\ running.place # "exe" /\ Returns(u)
     \/ Goes(u, "back") /\ UNCHANGED <<exe, target, down>>
  /\ UNCHANGED <<os, old, running, killed, vouched>>

\* Mutant: a failed swap is not rolled back.
WindowsBackSkipped(u) ==
  /\ Alive /\ pc[u] = "back"
  /\ Returns(u)
  /\ UNCHANGED <<os, exe, old, running, killed, vouched>>

\* The deferred rollback.
WindowsBack(u) ==
  /\ Alive /\ pc[u] = "back"
  /\ IF old # None /\ running.place # "exe"
     THEN exe' = old /\ old' = None /\ running' = [running EXCEPT !.place = Moved("old")]
     ELSE UNCHANGED <<exe, old, running>>
  /\ Returns(u)
  /\ UNCHANGED <<os, killed, vouched>>

-----------------------------------------------------------------------------

\* External: the process ends, or is killed with its updates.
Exit ==
  /\ Alive
  /\ killed' = (killed \/ \E u \in Updater : os = "windows" /\ pc[u] \in {"move", "back"})
  /\ running' = Process(None, "gone")
  /\ pc' = [u \in Updater |-> "idle"]
  /\ target' = [u \in Updater |-> None] /\ down' = target'
  /\ UNCHANGED <<os, exe, old, vouched>>

\* The program is started, if there is one, and removes what a swap left behind.
CleanupOld ==
  /\ ~Alive /\ exe # None
  /\ running' = Process(exe, "exe")
  /\ old' = None
  /\ UNCHANGED <<os, exe, pc, target, down, killed, vouched>>

Manifests == [version : Version, signed : BOOLEAN]

Next ==
  \/ \E u \in Updater :
       \/ \E m \in Manifests : CheckForUpdate(u, m) \/ FetchManifest(u, m)
       \/ GiveUp(u) \/ VerifySignature(u) \/ Download(u)
       \/ UnixSwap(u) \/ WindowsAside(u) \/ WindowsMove(u) \/ WindowsBack(u)
  \/ Exit \/ CleanupOld

Spec == Init /\ [][Next]_vars

-----------------------------------------------------------------------------
(* Properties                                                              *)

\* windowsSwap: "so the live binary is never left missing".  Whatever fails, and with
\* two updates at a time, a whole build that was installed or vouched for is in
\* place; only while a swap is between its renames, or after the process was killed
\* there, is it beside it, as .old.
ExecutableKept ==
  /\ {exe, old} \subseteq vouched \cup {None}
  /\ exe = None => old # None
  /\ exe = None => killed \/ \E u \in Updater : pc[u] \in {"move", "back"}
=============================================================================
