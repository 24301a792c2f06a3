----------------------------- MODULE Persister -----------------------------
(***************************************************************************)
(* How changes to the tree reach the disk: App.markDirty and flushNow of   *)
(* internal/app/app.go, the loop of internal/app/persister.go, Shutdown,   *)
(* and ExportSnapshot and RestoreSnapshot of internal/app/commands.go.     *)
(*                                                                         *)
(* The tree's content is [epoch, ver]: ver grows with every change, epoch  *)
(* with every archive Store.Restore puts in place of the store.  Commands, *)
(* the persister goroutine, Shutdown, an export and a restore run          *)
(* concurrently.  A flush runs under persistMu, so there is one at a time; *)
(* its snapshot holds a pointer to the live tree, which Store.Save encodes *)
(* without treeMu while commands go on changing it.  That race is the      *)
(* choice among every content of the window, or the runtime's fatal error  *)
(* on a map that is read and written at once.                              *)
(***************************************************************************)
EXTENDS Naturals

CONSTANTS
  Cmd,       \* goroutines that run the commands of commands.go
  MaxVer,    \* bound: changes to the tree in one epoch
  MaxEpoch,  \* bound: archives restored
  MaxFail    \* bound: saves that fail

ASSUME PersisterAssumption ==
  MaxVer \in Nat /\ MaxEpoch \in Nat /\ MaxFail \in Nat

VARIABLES
  mem,       \* App.tree
  disk,      \* inventory.json
  dirty,     \* App.dirty
  sig,       \* signals in persistSig, a channel of capacity one
  sigClosed, \* persistSig is closed
  started,   \* App.started
  stopped,   \* App.stopped
  rootDone,  \* rootCtx is cancelled
  cmdPc,     \* each command: idle, mark or signal
  loopPc,    \* persisterLoop: off, wait, debounce, lock, flush or exited
  shutPc,    \* Shutdown: idle, cancel, join, lock, flush or returned
  expPc,     \* ExportSnapshot: idle, lock, flush, or backup
  restPc,    \* RestoreSnapshot: idle, lock, flush, restore, load, swap or clear
  holder,    \* who holds persistMu
  flushPc,   \* flushNowLocked: none, encode or clear
  enc,       \* the tree when the encoding began
  expFrom,   \* history: the tree when the running ExportSnapshot was called
  saved,     \* history: what the last completed flush or restore left on disk
  late,      \* history: markDirty ran since the running encoding or swap began
  atRisk,    \* history: a change may be in memory only although dirty is clear
  epochs,    \* archives restored so far
  fails,     \* saves that have failed
  fatal      \* the process died of a concurrent map access or a closed channel

vars == <<mem, disk, dirty, sig, sigClosed, started, stopped, rootDone, cmdPc, loopPc,
          shutPc, expPc, restPc, holder, flushPc, enc, expFrom, saved, late, atRisk,
          epochs, fails, fatal>>

flushVars == <<flushPc, enc>>
actorPcs == <<cmdPc, loopPc, shutPc, expPc, restPc>>
history == <<expFrom, saved, epochs, fails>>
control == <<sig, sigClosed, started, stopped, rootDone>>

Content == [epoch : Nat, ver : Nat]
Older(a, b) == a.epoch < b.epoch \/ (a.epoch = b.epoch /\ a.ver < b.ver)

\* A content nothing reads: the locals of a call that is not running.
Zero == [epoch |-> 0, ver |-> 0]

Actor == {"loop", "shutdown", "export", "restore"}

\* New: the tree is what Load found.
Init ==
  /\ mem = Zero
  /\ disk = mem /\ enc = mem /\ expFrom = mem /\ saved = mem
  /\ dirty = FALSE /\ sig = 0 /\ sigClosed = FALSE
  /\ started = FALSE /\ stopped = FALSE /\ rootDone = FALSE
  /\ cmdPc = [c \in Cmd |-> "idle"]
  /\ loopPc = "off" /\ shutPc = "idle" /\ expPc = "idle" /\ restPc = "idle"
  /\ holder = "none" /\ flushPc = "none"
  /\ late = FALSE /\ atRisk = FALSE /\ epochs = 0 /\ fails = 0 /\ fatal = FALSE

-----------------------------------------------------------------------------
(* Commands                                                                *)

\* The part of a mutating command under treeMu.  An encoding under way does not
\* hold treeMu.
Mutate(c) ==
  /\ ~fatal
  /\ cmdPc[c] = "idle"
  /\ mem.ver < MaxVer
  /\ mem' = [mem EXCEPT !.ver = @ + 1]
  /\ cmdPc' = [cmdPc EXCEPT ![c] = "mark"]
  /\ fatal' \in (IF flushPc = "encode" THEN BOOLEAN ELSE {FALSE})
  /\ UNCHANGED <<disk, dirty, loopPc, shutPc, expPc, restPc, holder, late, atRisk>>
  /\ UNCHANGED flushVars /\ UNCHANGED history /\ UNCHANGED control

\* markDirty, dirty.Store(true): after treeMu is released.
MarkDirty(c) ==
  /\ ~fatal
  /\ cmdPc[c] = "mark"
  /\ dirty' = TRUE
  /\ late' = (flushPc # "none" \/ restPc = "clear")
  /\ cmdPc' = [cmdPc EXCEPT ![c] = "signal"]
  /\ UNCHANGED <<mem, disk, loopPc, shutPc, expPc, restPc, holder, atRisk, fatal>>
  /\ UNCHANGED flushVars /\ UNCHANGED history /\ UNCHANGED control

\* markDirty, the send: nothing before Start, dropped when a signal is pending,
\* a panic once Shutdown has closed the channel.
Signal(c) ==
  /\ ~fatal
  /\ cmdPc[c] = "signal"
  /\ sig' = IF started /\ ~sigClosed THEN 1 ELSE sig
  /\ fatal' = (started /\ sigClosed)
  /\ cmdPc' = [cmdPc EXCEPT ![c] = "idle"]
  /\ UNCHANGED <<mem, disk, dirty, loopPc, shutPc, expPc, restPc, holder, late, atRisk,
                 sigClosed, started, stopped, rootDone>>
  /\ UNCHANGED flushVars /\ UNCHANGED history

-----------------------------------------------------------------------------
(* flushNow and flushNowLocked, for whichever actor runs it                *)

Goto(a, pc) ==
  /\ loopPc' = IF a = "loop" THEN pc ELSE loopPc
  /\ shutPc' = IF a = "shutdown" THEN pc ELSE shutPc
  /\ expPc' = IF a = "export" THEN pc ELSE expPc
  /\ restPc' = IF a = "restore" THEN pc ELSE restPc
  /\ UNCHANGED cmdPc

At(a, pc) ==
  \/ a = "loop" /\ loopPc = pc
  \/ a = "shutdown" /\ shutPc = pc
  \/ a = "export" /\ expPc = pc
  \/ a = "restore" /\ restPc = pc

\* Where each actor goes when its flush has succeeded, and when it has failed:
\* the loop and Shutdown log the error and go on, the others return it.
AfterFlush(a) == CASE a = "loop" -> "wait"
                   [] a = "shutdown" -> "returned"
                   [] a = "export" -> "backup"
                   [] a = "restore" -> "restore"
AfterFailure(a) == CASE a = "loop" -> "wait"
                     [] a = "shutdown" -> "returned"
                     [] a \in {"export", "restore"} -> "idle"

\* persistMu.Lock, the snapshot under treeMu, and Save starts to encode.
FlushBegin(a) ==
  /\ ~fatal
  /\ At(a, "lock")
  /\ holder = "none"
  /\ holder' = a
  /\ flushPc' = "encode"
  /\ enc' = mem
  /\ late' = FALSE
  /\ Goto(a, "flush")
  /\ UNCHANGED <<mem, disk, dirty, atRisk, fatal>>
  /\ UNCHANGED history /\ UNCHANGED control

\* What Save may write: any content the tree has had since the encoding began.
Encodings == {[enc EXCEPT !.ver = v] :
                v \in enc.ver .. (IF mem.epoch = enc.epoch THEN mem.ver ELSE enc.ver)}

\* Save has encoded the tree and written the files.  A change after the encoding
\* and one after the write come to the same: it is not on disk.
FlushSaved(a) ==
  /\ ~fatal
  /\ holder = a /\ flushPc = "encode"
  /\ disk' \in Encodings
  /\ flushPc' = "clear"
  /\ enc' = Zero
  /\ UNCHANGED <<mem, dirty, holder, late, atRisk, fatal>>
  /\ UNCHANGED actorPcs /\ UNCHANGED history /\ UNCHANGED control

\* Mutant: the flag is cleared whatever Save returned.
FlushFailedClears(a) ==
  /\ ~fatal
  /\ holder = a /\ flushPc = "encode"
  /\ fails < MaxFail
  /\ fails' = fails + 1
  /\ dirty' = FALSE
  /\ flushPc' = "none" /\ enc' = Zero
  /\ holder' = "none"
  /\ Goto(a, AfterFailure(a))
  /\ late' = FALSE
  /\ UNCHANGED <<mem, disk, expFrom, saved, atRisk, epochs, fatal>>
  /\ UNCHANGED control

\* Save failed, before or after inventory.json was replaced; dirty stays set.
FlushFailed(a) ==
  /\ ~fatal
  /\ holder = a /\ flushPc = "encode"
  /\ fails < MaxFail
  /\ fails' = fails + 1
  /\ disk' \in {disk} \cup Encodings
  /\ flushPc' = "none" /\ enc' = Zero
  /\ holder' = "none"
  /\ expFrom' = IF a = "export" THEN Zero ELSE expFrom
  /\ Goto(a, AfterFailure(a))
  /\ late' = FALSE
  /\ UNCHANGED <<mem, dirty, saved, atRisk, epochs, fatal>>
  /\ UNCHANGED control

\* Mutant: the flush leaves the flag as it is.
FlushClearForgotten(a) ==
  /\ ~fatal
  /\ holder = a /\ flushPc = "clear"
  /\ flushPc' = "none"
  /\ saved' = disk
  /\ atRisk' = late
  /\ holder' = IF a = "restore" THEN a ELSE "none"
  /\ Goto(a, AfterFlush(a))
  /\ late' = FALSE
  /\ UNCHANGED <<mem, disk, dirty, enc, expFrom, epochs, fails, fatal>>
  /\ UNCHANGED control

\* Mutant: RestoreSnapshot calls flushNow, which releases persistMu.
FlushClearReleases(a) ==
  /\ ~fatal
  /\ holder = a /\ flushPc = "clear"
  /\ dirty' = FALSE
  /\ flushPc' = "none"
  /\ saved' = disk
  /\ atRisk' = late
  /\ holder' = "none"
  /\ Goto(a, AfterFlush(a))
  /\ late' = FALSE
  /\ UNCHANGED <<mem, disk, enc, expFrom, epochs, fails, fatal>>
  /\ UNCHANGED control

\* dirty.Store(false).  Everyone but a restore releases persistMu.
FlushClear(a) ==
  /\ ~fatal
  /\ holder = a /\ flushPc = "clear"
  /\ dirty' = FALSE
  /\ flushPc' = "none"
  /\ saved' = disk
  /\ atRisk' = late
  /\ holder' = IF a = "restore" THEN a ELSE "none"
  /\ Goto(a, AfterFlush(a))
  /\ late' = FALSE
  /\ UNCHANGED <<mem, disk, enc, expFrom, epochs, fails, fatal>>
  /\ UNCHANGED control

-----------------------------------------------------------------------------
(* The persister goroutine                                                 *)

\* What the steps of the goroutines that only move along leave alone.
data == <<mem, disk, dirty, holder, late, atRisk, fatal>>

\* Start.
Start ==
  /\ ~fatal
  /\ ~started
  /\ started' = TRUE
  /\ loopPc' = "wait"
  /\ UNCHANGED <<cmdPc, shutPc, expPc, restPc, sig, sigClosed, stopped, rootDone>>
  /\ UNCHANGED data /\ UNCHANGED flushVars /\ UNCHANGED history

\* The select of persisterLoop: a signal starts the debounce, a tick does not.
LoopSignal ==
  /\ ~fatal
  /\ loopPc = "wait" /\ sig > 0
  /\ sig' = sig - 1
  /\ Goto("loop", "debounce")
  /\ UNCHANGED <<sigClosed, started, stopped, rootDone>>
  /\ UNCHANGED data /\ UNCHANGED flushVars /\ UNCHANGED history

\* tryFlush, after a tick or the debounce interval.
LoopCheck == Goto("loop", IF dirty THEN "lock" ELSE "wait")

LoopTick ==
  /\ ~fatal
  /\ loopPc = "wait"
  /\ LoopCheck
  /\ UNCHANGED data /\ UNCHANGED flushVars /\ UNCHANGED history /\ UNCHANGED control

LoopDebounced ==
  /\ ~fatal
  /\ loopPc = "debounce"
  /\ LoopCheck
  /\ UNCHANGED data /\ UNCHANGED flushVars /\ UNCHANGED history /\ UNCHANGED control

\* Mutant: the debounce does not watch rootCtx, and the loop not the closed channel.
LoopExitOnlyIdle ==
  /\ ~fatal
  /\ loopPc = "wait" /\ rootDone /\ ~sigClosed
  /\ Goto("loop", "exited")
  /\ UNCHANGED data /\ UNCHANGED flushVars /\ UNCHANGED history /\ UNCHANGED control

\* rootCtx is cancelled, or persistSig closed and drained.
LoopExit ==
  /\ ~fatal
  /\ \/ loopPc \in {"wait", "debounce"} /\ rootDone
     \/ loopPc = "wait" /\ sigClosed /\ sig = 0
  /\ Goto("loop", "exited")
  /\ UNCHANGED data /\ UNCHANGED flushVars /\ UNCHANGED history /\ UNCHANGED control

-----------------------------------------------------------------------------
(* Shutdown                                                                *)

\* The stopped flag makes a second call return at once.  closeAll, which comes
\* next, is in module Sessions.
ShutdownBegin ==
  /\ ~fatal
  /\ ~stopped
  /\ stopped' = TRUE
  /\ Goto("shutdown", "cancel")
  /\ UNCHANGED <<sig, sigClosed, started, rootDone>>
  /\ UNCHANGED data /\ UNCHANGED flushVars /\ UNCHANGED history

\* rootCancel and, when the app was started, close(persistSig).
ShutdownStop ==
  /\ ~fatal
  /\ shutPc = "cancel"
  /\ rootDone' = TRUE
  /\ sigClosed' = started
  /\ Goto("shutdown", IF started THEN "join" ELSE "lock")
  /\ UNCHANGED <<sig, started, stopped>>
  /\ UNCHANGED data /\ UNCHANGED flushVars /\ UNCHANGED history

\* <-persistDone, then flushNow.
ShutdownJoin ==
  /\ ~fatal
  /\ shutPc = "join" /\ loopPc = "exited"
  /\ Goto("shutdown", "lock")
  /\ UNCHANGED data /\ UNCHANGED flushVars /\ UNCHANGED history /\ UNCHANGED control

-----------------------------------------------------------------------------
(* ExportSnapshot                                                          *)

\* Mutant: ExportSnapshot goes straight to the backup.
ExportBeginUnflushed ==
  /\ ~fatal
  /\ expPc = "idle"
  /\ expFrom' = mem
  /\ Goto("export", "backup")
  /\ UNCHANGED <<saved, epochs, fails>>
  /\ UNCHANGED data /\ UNCHANGED flushVars /\ UNCHANGED control

\* ExportSnapshot calls flushNow.
ExportBegin ==
  /\ ~fatal
  /\ expPc = "idle"
  /\ expFrom' = mem
  /\ Goto("export", "lock")
  /\ UNCHANGED <<saved, epochs, fails>>
  /\ UNCHANGED data /\ UNCHANGED flushVars /\ UNCHANGED control

\* Store.Backup, without persistMu; it reads the files under the store's lock,
\* which Save and Restore hold for as long as they run.
ExportBackup ==
  /\ ~fatal
  /\ expPc = "backup"
  /\ expFrom' = Zero
  /\ Goto("export", "idle")
  /\ UNCHANGED <<saved, epochs, fails>>
  /\ UNCHANGED data /\ UNCHANGED flushVars /\ UNCHANGED control

-----------------------------------------------------------------------------
(* RestoreSnapshot                                                         *)

RestoreBegin ==
  /\ ~fatal
  /\ restPc = "idle" /\ epochs < MaxEpoch
  /\ Goto("restore", "lock")
  /\ UNCHANGED data /\ UNCHANGED flushVars /\ UNCHANGED history /\ UNCHANGED control

\* The deferred persistMu.Unlock.
ReleaseRestore == holder' = IF holder = "restore" THEN "none" ELSE holder

\* Store.Restore puts the archive's files in place, or fails and leaves the old
\* ones.
RestoreStore ==
  /\ ~fatal
  /\ restPc = "restore"
  /\ \/ /\ epochs' = epochs + 1
        /\ disk' = [epoch |-> epochs', ver |-> 0]
        /\ Goto("restore", "load")
        /\ UNCHANGED holder
     \/ /\ Goto("restore", "idle")
        /\ ReleaseRestore
        /\ epochs' = epochs + 1
        /\ UNCHANGED disk
  /\ UNCHANGED <<mem, dirty, late, atRisk, fatal, expFrom, saved, fails>>
  /\ UNCHANGED flushVars /\ UNCHANGED control

\* Store.Load reads the new files, or fails: the store is the restored one, the
\* memory is not, and nothing is dirty.  A Store.Restore that fails after it has
\* swapped the directories (the backups could not be moved over) ends the same way.
RestoreLoad ==
  /\ ~fatal
  /\ restPc = "load"
  /\ \/ /\ Goto("restore", "swap")
        /\ UNCHANGED <<holder, atRisk>>
     \/ /\ Goto("restore", "idle")
        /\ ReleaseRestore
        /\ atRisk' = TRUE
  /\ UNCHANGED <<mem, disk, dirty, late, fatal>>
  /\ UNCHANGED flushVars /\ UNCHANGED history /\ UNCHANGED control

\* The loaded tree replaces App.tree under treeMu.
RestoreSwap ==
  /\ ~fatal
  /\ restPc = "swap"
  /\ mem' = disk
  /\ saved' = disk
  /\ late' = FALSE
  /\ Goto("restore", "clear")
  /\ UNCHANGED <<disk, dirty, holder, atRisk, fatal, expFrom, epochs, fails>>
  /\ UNCHANGED flushVars /\ UNCHANGED control

\* dirty.Store(false) and the return.
RestoreClear ==
  /\ ~fatal
  /\ restPc = "clear"
  /\ dirty' = FALSE
  /\ atRisk' = late
  /\ ReleaseRestore
  /\ Goto("restore", "idle")
  /\ late' = FALSE
  /\ UNCHANGED <<mem, disk, fatal>>
  /\ UNCHANGED flushVars /\ UNCHANGED history /\ UNCHANGED control

Flush(a) == FlushBegin(a) \/ FlushSaved(a) \/ FlushFailed(a) \/ FlushClear(a)

Next ==
  \/ \E c \in Cmd : Mutate(c) \/ MarkDirty(c) \/ Signal(c)
  \/ \E a \in Actor : Flush(a)
  \/ Start \/ LoopSignal \/ LoopTick \/ LoopDebounced \/ LoopExit
  \/ ShutdownBegin \/ ShutdownStop \/ ShutdownJoin
  \/ ExportBegin \/ ExportBackup
  \/ RestoreBegin \/ RestoreStore \/ RestoreLoad \/ RestoreSwap \/ RestoreClear

\* Goroutines that have begun something go on; the ticker ticks; persistMu is
\* handed to a waiting goroutine (Go's mutex does not starve one).  Nobody has
\* to issue commands, start or stop the app, export or restore.
Fairness ==
  /\ \A c \in Cmd : WF_vars(MarkDirty(c) \/ Signal(c))
  /\ \A a \in Actor :
       /\ SF_vars(FlushBegin(a))
       /\ WF_vars(FlushSaved(a) \/ FlushFailed(a) \/ FlushClear(a))
  /\ WF_vars(LoopTick \/ LoopDebounced)
  /\ WF_vars(LoopExit)
  /\ WF_vars(ShutdownStop \/ ShutdownJoin)
  /\ WF_vars(ExportBackup)
  /\ WF_vars(RestoreStore \/ RestoreLoad \/ RestoreSwap \/ RestoreClear)

Spec == Init /\ [][Next]_vars
FairSpec == Spec /\ Fairness

-----------------------------------------------------------------------------
(* Properties                                                              *)

\* Type invariant.
TypeOK ==
  /\ mem \in Content /\ disk \in Content /\ enc \in Content
  /\ expFrom \in Content /\ saved \in Content
  /\ dirty \in BOOLEAN /\ late \in BOOLEAN /\ atRisk \in BOOLEAN /\ fatal \in BOOLEAN
  /\ sigClosed \in BOOLEAN /\ started \in BOOLEAN /\ stopped \in BOOLEAN
  /\ rootDone \in BOOLEAN
  /\ sig \in 0 .. 1
  /\ cmdPc \in [Cmd -> {"idle", "mark", "signal"}]
  /\ loopPc \in {"off", "wait", "debounce", "lock", "flush", "exited"}
  /\ shutPc \in {"idle", "cancel", "join", "lock", "flush", "returned"}
  /\ expPc \in {"idle", "lock", "flush", "backup"}
  /\ restPc \in {"idle", "lock", "flush", "restore", "load", "swap", "clear"}
  /\ holder \in Actor \cup {"none"}
  /\ flushPc \in {"none", "encode", "clear"}
  /\ epochs \in Nat /\ fails \in Nat

\* What a completed flush or a completed restore has put on disk is never
\* replaced by something older: no flush carries a snapshot over a restore, and
\* none is overtaken by another.
SavedStaysSaved == ~Older(disk, saved)

\* When the flag is clear and nobody is about to set it, the disk has the tree,
\* but for the two cases atRisk records: a flag set while a flush or a restore
\* was about to clear it, and a restore whose Load failed.
CleanMeansSaved ==
  ~dirty /\ ~atRisk /\ flushPc = "none" /\ restPc \notin {"load", "swap", "clear"}
    /\ (\A c \in Cmd : cmdPc[c] # "mark")
  => disk = mem

\* ExportSnapshot flushes first, so what it is about to archive has every change
\* made before the call, or is the content of a restore that came in between.
ExportHasEarlierChanges == expPc = "backup" => ~Older(disk, expFrom)

\* A set flag leads to a flush that clears it, failed saves notwithstanding,
\* unless the app is stopped or dies.
DirtyGetsFlushed == (dirty /\ started) ~> (~dirty \/ stopped \/ fatal)

\* Shutdown comes to its end whatever the persister goroutine, an export, a
\* restore and failing saves are at when it is called.
ShutdownReturns == stopped ~> (shutPc = "returned" \/ fatal)

\* app.go: "App is safe for concurrent use. All mutating commands take the
\* internal write lock; reads use the read lock."  Save reads the live tree
\* without the lock, and markDirty sends on a channel Shutdown has closed.
SafeForConcurrentUse == ~fatal

\* app.go: "Tree mutations mark the app dirty and are flushed to disk by a
\* background goroutine on a debounce timer."
ChangesGetFlushed ==
  \A v \in 1 .. MaxVer :
    (started /\ mem.epoch = 0 /\ mem.ver >= v)
      ~> (disk.epoch > 0 \/ disk.ver >= v \/ stopped \/ fatal)
=============================================================================
