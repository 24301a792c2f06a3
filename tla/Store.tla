------------------------------- MODULE Store -------------------------------
(***************************************************************************)
(* The files of internal/persistence: Save's four files, the zip archives  *)
(* of Backup and their retention, Restore's swap of directories, and a     *)
(* process that may die between any two of their steps.                    *)
(*                                                                         *)
(* Save and Restore hold Store.mu for writing, Backup and Load for         *)
(* reading.  WriteAtomic replaces a file with one rename, so a file holds  *)
(* what some Save meant to write, or is missing: its content is the number *)
(* of that Save, 0 for none.  Load only reads; it takes whatever mixture   *)
(* of files there is (a missing meta.json is version 0 and migrates to 1   *)
(* unchanged), and a missing directory is a fresh, empty store.            *)
(*                                                                         *)
(* What a crash leaves behind and nothing ever reads is left out: temp     *)
(* files of WriteAtomic and the restore-new directories.                   *)
(***************************************************************************)
EXTENDS Naturals, FiniteSets, Sequences, FiniteSetsExt

CONSTANTS
  Backuper,   \* goroutines that call Backup
  Retention,  \* DefaultBackupRetention
  MaxVer,     \* bound: calls of Save
  MaxZips,    \* bound: archives created
  MaxTime     \* bound: seconds the clock of s.now shows

ASSUME StoreAssumption ==
  /\ Retention \in Nat \ {0}
  /\ MaxVer \in Nat /\ MaxZips \in Nat /\ MaxTime \in Nat \ {0}
  /\ "restore" \notin Backuper

VARIABLES
  store,     \* the directory s.dir
  old,       \* the restore-old directory of each second
  extracted, \* the files in the restore-new directory of the running Restore
  writer,    \* who holds mu for writing: none, save or restore
  time,      \* the second s.now falls in
  ver,       \* calls of Save so far
  savePc,    \* files the running Save has written; Idle when none runs
  zipPc,     \* backupLocked of each caller: idle, named, writing or prune
  zipName,   \* the archive it is writing
  zips,      \* archives created so far
  restPc,    \* Restore: idle, backup, open, extract, rename, swap, move or clean
  restTime,  \* the second in the names of its directories
  want,      \* the archive it is to restore
  before,    \* history: the store's files when it was called
  cut,       \* history: Saves that ended between two files
  base,      \* history: the files the last Restore renamed away, zips then, and
             \*   whether a later Restore of the same second removed restore-old
  harmed     \* history: a Restore returned an error and did not leave the store alone

lockVars == <<writer, time>>
saveVars == <<ver, savePc, cut>>
zipVars == <<zipPc, zipName, zips>>
restVars == <<old, extracted, restPc, restTime, want, before, base, harmed>>
vars == <<store, lockVars, saveVars, zipVars, restVars>>

\* The files in the order in which Save writes them.
Files == <<"inventory", "templates", "workspace", "meta">>
File == {"inventory", "templates", "workspace", "meta"}
NoFiles == [f \in File |-> 0]
Idle == 5

\* A directory is missing, or has its files and the archives under backups/.
NoDir == [there |-> FALSE, file |-> NoFiles, archives |-> {}]
EmptyDir == [there |-> TRUE, file |-> NoFiles, archives |-> {}]
Made(d) == IF d.there THEN d ELSE EmptyDir

NoName == <<0, 0>>
NoArchive == [name |-> NoName, no |-> 0, file |-> NoFiles, done |-> FALSE]
Names(d) == {a.name : a \in d.archives}

Zipper == Backuper \cup {"restore"}
Second == 1 .. MaxTime

Init ==
  /\ store = NoDir /\ old = [t \in Second |-> NoDir] /\ extracted = NoFiles
  /\ writer = "none" /\ time = 1
  /\ ver = 0 /\ savePc = Idle /\ cut = {}
  /\ zipPc = [b \in Zipper |-> "idle"] /\ zipName = [b \in Zipper |-> NoName] /\ zips = 0
  /\ restPc = "idle" /\ restTime = 1 /\ want = NoArchive
  /\ before = NoFiles /\ base = [file |-> NoFiles, zips |-> 0, swept |-> FALSE] /\ harmed = FALSE

NoReader == \A b \in Backuper : zipPc[b] = "idle"

-----------------------------------------------------------------------------
(* Save                                                                    *)

\* Lock, MkdirAll, and the snapshot is encoded.
SaveBegin ==
  /\ writer = "none" /\ NoReader
  /\ ver < MaxVer
  /\ writer' = "save"
  /\ ver' = ver + 1
  /\ savePc' = 0
  /\ store' = Made(store)
  /\ UNCHANGED <<time, cut, zipVars, restVars>>

\* WriteAtomic of the next file: its rename is the step others can see.
SaveFile ==
  /\ savePc \in 0 .. 3
  /\ store' = [store EXCEPT !.file[Files[savePc + 1]] = ver]
  /\ savePc' = savePc + 1
  /\ UNCHANGED <<lockVars, ver, cut, zipVars, restVars>>

\* Whatever ends a Save: some files are new when it got further than the first.
CutShort == cut' = IF savePc \in 1 .. 3 THEN cut \cup {ver} ELSE cut

\* A WriteAtomic fails, before its rename or after it.
SaveFailed ==
  /\ savePc \in 0 .. 4
  /\ CutShort
  /\ savePc' = Idle /\ writer' = "none"
  /\ UNCHANGED <<store, time, ver, zipVars, restVars>>

SaveReturn ==
  /\ savePc = 4
  /\ savePc' = Idle /\ writer' = "none"
  /\ UNCHANGED <<store, time, ver, cut, zipVars, restVars>>

-----------------------------------------------------------------------------
(* Backup and backupLocked                                                 *)

\* The first free name of this second.
FreeName(d) == <<time, CHOOSE i \in 0 .. Cardinality(d.archives) :
                          <<time, i>> \notin Names(d)
                            /\ \A j \in 0 .. i - 1 : <<time, j>> \in Names(d)>>

\* Mutant: Backup does not take the lock.
BackupBeginUnlocked(b) ==
  /\ zipPc[b] = "idle"
  /\ store' = Made(store)
  /\ zipPc' = [zipPc EXCEPT ![b] = "named"]
  /\ zipName' = [zipName EXCEPT ![b] = FreeName(store)]
  /\ UNCHANGED <<lockVars, saveVars, zips, restVars>>

\* RLock, MkdirAll of backups/, and Stat until a name is free.
BackupBegin(b) ==
  /\ zipPc[b] = "idle"
  /\ writer = "none"
  /\ store' = Made(store)
  /\ zipPc' = [zipPc EXCEPT ![b] = "named"]
  /\ zipName' = [zipName EXCEPT ![b] = FreeName(store)]
  /\ UNCHANGED <<lockVars, saveVars, zips, restVars>>

Without(d, name) == [d EXCEPT !.archives = {a \in @ : a.name # name}]

\* The archive is created or, when another Backup has created it since the Stat,
\* truncated.
ZipCreate(b) ==
  /\ zipPc[b] = "named" /\ zips < MaxZips
  /\ zips' = zips + 1
  /\ store' = [Without(store, zipName[b]) EXCEPT !.archives =
                 @ \cup {[name |-> zipName[b], no |-> zips', file |-> NoFiles, done |-> FALSE]}]
  /\ zipPc' = [zipPc EXCEPT ![b] = "writing"]
  /\ UNCHANGED <<lockVars, saveVars, zipName, restVars>>

Alone(b) == \A o \in Zipper \ {b} : zipPc[o] = "writing" => zipName[o] # zipName[b]

\* The archive is written to last: its modification time is now the newest.
Touched(archives, name) ==
  {[a EXCEPT !.no = IF a.name = name
                    THEN Max({o.no : o \in archives})
                    ELSE @ - Cardinality({o \in archives : o.name = name /\ o.no < @})]
     : a \in archives}

\* This caller is done with the archive, which is complete unless another has
\* truncated it and is still writing.
ZipWrite(b) ==
  /\ zipPc[b] = "writing"
  /\ store' = [store EXCEPT !.archives =
                 {IF a.name = zipName[b] THEN [a EXCEPT !.file = store.file, !.done = Alone(b)]
                                         ELSE a : a \in Touched(@, zipName[b])}]
  /\ zipPc' = [zipPc EXCEPT ![b] = "prune"]
  /\ UNCHANGED <<lockVars, saveVars, zipName, zips, restVars>>

\* pruneBackups keeps the youngest Retention archives.
Pruned(archives) ==
  {a \in archives : Cardinality({o \in archives : o.no > a.no}) < Retention}

ZipPrune(b) ==
  /\ zipPc[b] = "prune"
  /\ store' = [store EXCEPT !.archives = Pruned(@)]
  /\ zipPc' = [zipPc EXCEPT ![b] = "idle"]
  /\ zipName' = [zipName EXCEPT ![b] = NoName]
  /\ restPc' = IF b = "restore" THEN "open" ELSE restPc
  /\ UNCHANGED <<lockVars, saveVars, zips, old, extracted, restTime, want, before,
                 base, harmed>>

\* Restore returns, and its variables are gone.
RestoreOver ==
  /\ restPc' = "idle" /\ writer' = "none"
  /\ extracted' = NoFiles /\ want' = NoArchive /\ before' = NoFiles /\ restTime' = 1

\* Restore returns an error: what its comment promises is compared with d, the
\* store it leaves.
RestoreError(d) ==
  /\ RestoreOver
  /\ harmed' = (harmed \/ d.file # before \/ want.name \notin Names(d))

\* The archive cannot be written, and is removed; or the pruning failed, and the
\* archive stays.  Restore gives up, too.
ZipFailed(b) ==
  /\ \/ zipPc[b] \in {"named", "writing"} /\ store' = Without(store, zipName[b])
     \/ zipPc[b] = "prune" /\ UNCHANGED store
  /\ zipPc' = [zipPc EXCEPT ![b] = "idle"]
  /\ \/ b = "restore" /\ RestoreError(store')
     \/ b # "restore" /\ UNCHANGED <<restPc, writer, restTime, want, before, extracted, harmed>>
  /\ zipName' = [zipName EXCEPT ![b] = NoName]
  /\ UNCHANGED <<time, saveVars, zips, old, base>>

-----------------------------------------------------------------------------
(* Restore                                                                 *)

\* Mutant: no safety backup.
RestoreBeginUnsafe ==
  /\ writer = "none" /\ NoReader
  /\ \E a \in store.archives : want' = a
  /\ writer' = "restore"
  /\ restPc' = "open"
  /\ before' = store.file
  /\ UNCHANGED <<store, time, saveVars, zipVars, old, extracted, restTime, base, harmed>>

\* Lock, and the safety backup begins; the archive is one under backups/.
RestoreBegin ==
  /\ writer = "none" /\ NoReader
  /\ \E a \in store.archives : want' = a
  /\ writer' = "restore"
  /\ restPc' = "backup"
  /\ before' = store.file
  /\ zipPc' = [zipPc EXCEPT !["restore"] = "named"]
  /\ zipName' = [zipName EXCEPT !["restore"] = FreeName(store)]
  /\ UNCHANGED <<store, time, saveVars, zips, old, extracted, restTime, base, harmed>>

\* The archive is opened and looked through, and the debris of a restore that was
\* interrupted in this second removed.
RestoreOpen ==
  /\ restPc = "open"
  /\ want.done /\ want.name \in Names(store)
  /\ restPc' = "extract"
  /\ restTime' = time
  /\ old' = [old EXCEPT ![time] = NoDir]
  /\ base' = [base EXCEPT !.swept = @ \/ old[time].there]
  /\ UNCHANGED <<store, lockVars, saveVars, zipVars, extracted, want, before, harmed>>

\* Every entry is extracted into the new directory.
RestoreExtract ==
  /\ restPc = "extract"
  /\ extracted' = want.file
  /\ restPc' = "rename"
  /\ UNCHANGED <<store, lockVars, saveVars, zipVars, old, restTime, want, before, base, harmed>>

\* The archive is missing, unreadable or refused, an entry cannot be extracted, or
\* the store cannot be renamed.
RestoreRefused ==
  /\ restPc \in {"open", "extract", "rename"}
  /\ RestoreError(store)
  /\ UNCHANGED <<store, time, saveVars, zipVars, old, base>>

\* The store becomes restore-old.
RestoreRename ==
  /\ restPc = "rename"
  /\ old' = [old EXCEPT ![restTime] = store]
  /\ store' = NoDir
  /\ base' = [file |-> store.file, zips |-> zips, swept |-> FALSE]
  /\ restPc' = "swap"
  /\ UNCHANGED <<lockVars, saveVars, zipVars, extracted, restTime, want, before, harmed>>

\* The new directory becomes the store.
RestoreSwap ==
  /\ restPc = "swap"
  /\ store' = [EmptyDir EXCEPT !.file = extracted]
  /\ extracted' = NoFiles
  /\ restPc' = "move"
  /\ UNCHANGED <<lockVars, saveVars, zipVars, old, restTime, want, before, base, harmed>>

\* The second rename failed: restore-old is renamed back, or that fails as well,
\* and then nothing is promised.
RestoreRollback ==
  /\ restPc = "swap"
  /\ \/ /\ store' = old[restTime] /\ old' = [old EXCEPT ![restTime] = NoDir]
        /\ RestoreError(store')
     \/ RestoreOver /\ UNCHANGED <<store, old, harmed>>
  /\ UNCHANGED <<time, saveVars, zipVars, base>>

\* Mutant: the archives are left behind.
RestoreMoveForgotten ==
  /\ restPc = "move"
  /\ restPc' = "clean"
  /\ UNCHANGED <<store, lockVars, saveVars, zipVars, old, extracted, restTime, want, before,
                 base, harmed>>

\* The archives are moved over from restore-old.
RestoreMove ==
  /\ restPc = "move"
  /\ store' = [store EXCEPT !.archives = old[restTime].archives]
  /\ old' = [old EXCEPT ![restTime].archives = {}]
  /\ restPc' = "clean"
  /\ UNCHANGED <<lockVars, saveVars, zipVars, extracted, restTime, want, before, base, harmed>>

\* They cannot be moved: an error, and restore-old stays.
RestoreMoveFailed ==
  /\ restPc = "move"
  /\ RestoreError(store)
  /\ UNCHANGED <<store, time, saveVars, zipVars, old, base>>

\* RemoveAll of restore-old, if it can be, and nil.
RestoreReturn ==
  /\ restPc = "clean"
  /\ RestoreOver
  /\ old' \in {old, [old EXCEPT ![restTime] = NoDir]}
  /\ UNCHANGED <<store, time, saveVars, zipVars, base, harmed>>

-----------------------------------------------------------------------------

\* The clock moves on.
Tick ==
  /\ time < MaxTime
  /\ time' = time + 1
  /\ UNCHANGED <<store, writer, saveVars, zipVars, restVars>>

\* The process dies, and a new one has only the files.  It takes a second to start.
Crash ==
  /\ time < MaxTime
  /\ time' = time + 1
  /\ CutShort
  /\ RestoreOver /\ savePc' = Idle
  /\ zipPc' = [b \in Zipper |-> "idle"] /\ zipName' = [b \in Zipper |-> NoName]
  /\ UNCHANGED <<store, ver, zips, old, base, harmed>>

Save == SaveBegin \/ SaveFile \/ SaveFailed \/ SaveReturn
Zip(b) == ZipCreate(b) \/ ZipWrite(b) \/ ZipPrune(b) \/ ZipFailed(b)
Restore ==
  \/ RestoreBegin \/ RestoreOpen \/ RestoreExtract \/ RestoreRefused \/ RestoreRename
  \/ RestoreSwap \/ RestoreRollback \/ RestoreMove \/ RestoreMoveFailed \/ RestoreReturn

Next ==
  \/ Save
  \/ \E b \in Backuper : BackupBegin(b)
  \/ \E b \in Zipper : Zip(b)
  \/ Restore
  \/ Tick \/ Crash

Spec == Init /\ [][Next]_vars

-----------------------------------------------------------------------------
(* Properties                                                              *)

Content == [File -> 0 .. MaxVer]
Archive == [name : (0 .. MaxTime) \X Nat, no : 0 .. MaxZips, file : Content, done : BOOLEAN]
IsDir(d) ==
  /\ d \in [there : BOOLEAN, file : Content, archives : SUBSET Archive]
  /\ d.there \/ (d.file = NoFiles /\ d.archives = {})

\* Type invariant.
TypeOK ==
  /\ IsDir(store) /\ DOMAIN old = Second /\ \A t \in Second : IsDir(old[t])
  /\ extracted \in Content /\ before \in Content
  /\ writer \in {"none", "save", "restore"}
  /\ time \in Second /\ restTime \in Second
  /\ ver \in 0 .. MaxVer /\ zips \in 0 .. MaxZips
  /\ savePc \in 0 .. Idle
  /\ zipPc \in [Zipper -> {"idle", "named", "writing", "prune"}]
  /\ zipName \in [Zipper -> (0 .. MaxTime) \X Nat]
  /\ restPc \in {"idle", "backup", "open", "extract", "rename", "swap", "move", "clean"}
  /\ want \in Archive
  /\ cut \subseteq 1 .. MaxVer
  /\ base \in [file : Content, zips : 0 .. MaxZips, swept : BOOLEAN]
  /\ harmed \in BOOLEAN

\* Every file is of the Save that wrote the inventory, or older when that Save was
\* cut short.
OfOneSave(file) ==
  \/ \A f \in File : file[f] = file["inventory"]
  \/ /\ file["inventory"] \in cut
     /\ \A f \in File : file[f] <= file["inventory"]

\* Store: "readers never observe partial writes".  What Load and Backup find in the
\* store, and what Restore finds in a complete archive, is the work of one Save,
\* unless that Save failed or the process died in the middle of it; and then the
\* inventory is the newest file and meta.json the oldest.
ReadersSeeOneSave ==
  /\ writer # "save" => OfOneSave(store.file)
  /\ \A a \in store.archives : a.done => OfOneSave(a.file)

Found(content) ==
  \E d \in {store} \cup {old[t] : t \in Second} :
    \/ d.there /\ d.file = content
    \/ \E a \in d.archives : a.done /\ a.file = content

\* Restore: "so an operator can always roll back".  Wherever a Restore fails or the
\* process dies, the files it replaced are still in a directory or in the safety
\* backup, until Retention newer archives have been made.  The exception is a second
\* Restore in the second of one that failed: its directories have the same names,
\* and what it removes as debris may be the only copy.
RollbackPossible ==
  (base.zips > 0 /\ zips - base.zips < Retention /\ ~base.swept) => Found(base.file)

\* A Restore that returns nil has put exactly the archive's files in place, and the
\* store it replaced is among the archives of the new one.
RestoreIsComplete ==
  [][RestoreReturn =>
        /\ store'.file = want.file
        /\ \E a \in store'.archives : a.done /\ a.file = before]_vars

\* Restore: "On any error the original directory is left untouched; on a swap error
\* the pre-swap state is recovered from .restore-old."  The safety backup may prune
\* the archive that is to be restored, and the archives may fail to move after the
\* swap.
FailedRestoreLeavesStore == ~harmed
=============================================================================
