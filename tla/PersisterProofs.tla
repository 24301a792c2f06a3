-------------------------- MODULE PersisterProofs --------------------------
(***************************************************************************)
(* Proofs about how changes reach the disk, for any number of commands,     *)
(* changes, restores and failing saves.                                     *)
(***************************************************************************)
EXTENDS Persister, TLAPS

NotBefore(b, a) == ~Older(a, b)      \* a is b or newer than b

(* persistMu: who holds it is where the actor is, and a flush is under way  *)
(* exactly while an actor is inside flushNowLocked.  The loop starts with    *)
(* Start and Shutdown with its stopped flag.                                *)
LockInv ==
  /\ holder = "loop" <=> loopPc = "flush"
  /\ holder = "shutdown" <=> shutPc = "flush"
  /\ holder = "export" <=> expPc = "flush"
  /\ holder = "restore" <=> restPc \in {"flush", "restore", "load", "swap", "clear"}
  /\ flushPc # "none" <=> "flush" \in {loopPc, shutPc, expPc, restPc}
  /\ ~started => loopPc = "off"
  /\ ~stopped => shutPc = "idle"

(* Contents only grow: what was saved is no newer than what is encoded,     *)
(* written and in memory, and an archive that has been put in place is newer *)
(* than the memory until the swap.                                          *)
GrowInv ==
  /\ mem.epoch <= epochs /\ disk.epoch <= epochs
  /\ NotBefore(saved, mem)
  /\ SavedStaysSaved
  /\ flushPc = "encode" =>
       enc.epoch = mem.epoch /\ NotBefore(enc, mem) /\ NotBefore(saved, enc)
  /\ flushPc = "clear" => NotBefore(disk, mem)
  /\ restPc \in {"load", "swap"} => mem.epoch < disk.epoch

(* The tree an export started from is in the memory, and, once the export's  *)
(* own flush has begun, in every encoding and in every file.                 *)
ExportInv ==
  /\ NotBefore(expFrom, mem)
  /\ expPc \in {"flush", "backup"} /\ flushPc = "encode" => NotBefore(expFrom, enc)
  /\ expPc = "flush" /\ flushPc = "clear" => NotBefore(expFrom, disk)
  /\ ExportHasEarlierChanges

Unmarked == \A c \in Cmd : cmdPc[c] # "mark"

(* A change is on disk, or about to be, or somebody is about to mark it, or  *)
(* the flag says so, or it is one of the changes atRisk is about.            *)
CleanInv ==
  /\ late => dirty
  /\ ~dirty /\ ~atRisk /\ restPc \notin {"load", "swap", "clear"} /\ Unmarked => disk = mem
  /\ flushPc = "encode" /\ ~late /\ Unmarked => mem = enc
  /\ flushPc = "clear" /\ ~late /\ Unmarked => disk = mem
  /\ restPc = "clear" /\ ~late /\ Unmarked => disk = mem

PersistInv == TypeOK /\ LockInv /\ GrowInv /\ ExportInv /\ CleanInv

-----------------------------------------------------------------------------
(* Nothing is running, memory and disk are the same.                         *)
LEMMA InitPersistInv == Init => PersistInv
<1> SUFFICES ASSUME Init PROVE PersistInv
  OBVIOUS
<1>a. Zero \in Content
  BY DEF Zero, Content
<1>b. /\ dirty \in BOOLEAN /\ late \in BOOLEAN /\ atRisk \in BOOLEAN /\ fatal \in BOOLEAN
      /\ sigClosed \in BOOLEAN /\ started \in BOOLEAN /\ stopped \in BOOLEAN
      /\ rootDone \in BOOLEAN
  BY DEF Init
<1>1. TypeOK
  BY <1>a, <1>b DEF Init, TypeOK, Actor
<1>2. LockInv
  BY DEF Init, LockInv
<1>3. GrowInv /\ ExportInv
  BY DEF Init, GrowInv, ExportInv, SavedStaysSaved, ExportHasEarlierChanges, NotBefore,
         Older, Zero
<1>4. CleanInv
  BY DEF Init, CleanInv
<1> QED
  BY <1>1, <1>2, <1>3, <1>4 DEF PersistInv

(* What Save may write is of the encoded epoch, no older than the tree the   *)
(* encoding began with and no newer than the tree now; and it is that tree    *)
(* when nothing has changed meanwhile.                                       *)
LEMMA EncodingsBetween ==
  ASSUME TypeOK, NEW d \in Encodings, enc.epoch = mem.epoch, NotBefore(enc, mem)
  PROVE  /\ d \in Content
         /\ d.epoch = enc.epoch
         /\ NotBefore(enc, d) /\ NotBefore(d, mem)
         /\ mem = enc => d = mem
<1>1. mem \in Content /\ enc \in Content
  BY DEF TypeOK
<1>2. PICK v \in enc.ver .. mem.ver : d = [enc EXCEPT !.ver = v]
  BY DEF Encodings
<1>3. v \in Nat /\ enc.ver <= v /\ v <= mem.ver
  BY <1>1, <1>2 DEF Content
<1>4. d = [epoch |-> enc.epoch, ver |-> v]
  BY <1>1, <1>2 DEF Content
<1>5. d \in Content /\ NotBefore(enc, d) /\ NotBefore(d, mem) /\ d.epoch = enc.epoch
  BY <1>1, <1>3, <1>4 DEF Content, NotBefore, Older
<1>6. ASSUME mem = enc PROVE d = mem
  <2>1. v = enc.ver
    BY <1>1, <1>3, <1>6 DEF Content
  <2> QED
    BY <1>1, <1>4, <1>6, <2>1 DEF Content
<1> QED
  BY <1>5, <1>6

(* Every step keeps the types.                                              *)
LEMMA TypeStep == PersistInv /\ [Next]_vars => TypeOK'
<1> SUFFICES ASSUME PersistInv, [Next]_vars
             PROVE  TypeOK'
  OBVIOUS
<1>a. TypeOK /\ GrowInv
  BY DEF PersistInv
<1>b. Zero \in Content
  BY DEF Zero, Content
<1> USE DEF TypeOK, flushVars, actorPcs, history, control, data
<1>1. ASSUME NEW c \in Cmd, Mutate(c)
      PROVE  TypeOK'
  <2>1. mem' \in Content
    BY <1>1, <1>a DEF Mutate, Content
  <2>2. fatal' \in BOOLEAN
    BY <1>1 DEF Mutate
  <2> QED
    BY <1>1, <1>a, <2>1, <2>2 DEF Mutate
<1>2. ASSUME NEW c \in Cmd, MarkDirty(c)
      PROVE  TypeOK'
  BY <1>2, <1>a DEF MarkDirty
<1>3. ASSUME NEW c \in Cmd, Signal(c)
      PROVE  TypeOK'
  BY <1>3, <1>a DEF Signal
<1>4. ASSUME NEW a \in Actor, FlushBegin(a)
      PROVE  TypeOK'
  BY <1>4, <1>a, ZenonT(40) DEF FlushBegin, At, Goto, Actor
<1>5. ASSUME NEW a \in Actor, FlushSaved(a)
      PROVE  TypeOK'
  <2>1. ASSUME NEW d \in Encodings
        PROVE  d \in Content
    BY <1>5, <1>a, <2>1, EncodingsBetween DEF FlushSaved, GrowInv
  <2> QED
    BY <1>5, <1>a, <1>b, <2>1 DEF FlushSaved
<1>6. ASSUME NEW a \in Actor, FlushFailed(a)
      PROVE  TypeOK'
  <2>1. ASSUME NEW d \in Encodings
        PROVE  d \in Content
    BY <1>6, <1>a, <2>1, EncodingsBetween DEF FlushFailed, GrowInv
  <2>2. disk' \in Content /\ expFrom' \in Content
    BY <1>6, <1>a, <1>b, <2>1 DEF FlushFailed
  <2>3. loopPc' \in {loopPc, "wait"} /\ shutPc' \in {shutPc, "returned"}
        /\ expPc' \in {expPc, "idle"} /\ restPc' \in {restPc, "idle"} /\ cmdPc' = cmdPc
    BY <1>6 DEF FlushFailed, Goto, AfterFailure, Actor
  <2>4. fails' \in Nat /\ holder' = "none" /\ flushPc' = "none" /\ enc' = Zero
        /\ late' = FALSE
        /\ UNCHANGED <<mem, dirty, saved, atRisk, epochs, fatal>> /\ UNCHANGED control
    BY <1>6, <1>a DEF FlushFailed
  <2>5. /\ loopPc' \in {"off", "wait", "debounce", "lock", "flush", "exited"}
        /\ shutPc' \in {"idle", "cancel", "join", "lock", "flush", "returned"}
        /\ expPc' \in {"idle", "lock", "flush", "backup"}
        /\ restPc' \in {"idle", "lock", "flush", "restore", "load", "swap", "clear"}
    BY <1>a, <2>3
  <2> QED
    BY <1>a, <1>b, <2>2, <2>3, <2>4, <2>5
<1>7. ASSUME NEW a \in Actor, FlushClear(a)
      PROVE  TypeOK'
  BY <1>7, <1>a DEF FlushClear, Goto, AfterFlush, Actor
<1>8. CASE Start
  BY <1>8, <1>a DEF Start
<1>9. CASE LoopSignal
  BY <1>9, <1>a DEF LoopSignal, Goto
<1>10. CASE LoopTick
  BY <1>10, <1>a DEF LoopTick, Goto, LoopCheck
<1>11. CASE LoopDebounced
  BY <1>11, <1>a DEF LoopDebounced, Goto, LoopCheck
<1>12. CASE LoopExit
  BY <1>12, <1>a DEF LoopExit, Goto
<1>13. CASE ShutdownBegin
  BY <1>13, <1>a DEF ShutdownBegin, Goto
<1>14. CASE ShutdownStop
  BY <1>14, <1>a DEF ShutdownStop, Goto
<1>15. CASE ShutdownJoin
  BY <1>15, <1>a DEF ShutdownJoin, Goto
<1>16. CASE ExportBegin
  BY <1>16, <1>a DEF ExportBegin, Goto
<1>17. CASE ExportBackup
  BY <1>17, <1>a, <1>b DEF ExportBackup, Goto
<1>18. CASE RestoreBegin
  BY <1>18, <1>a DEF RestoreBegin, Goto
<1>19. CASE RestoreStore
  <2>1. disk' \in Content /\ epochs' \in Nat
    BY <1>19, <1>a DEF RestoreStore, Content
  <2> QED
    BY <1>19, <1>a, <2>1 DEF RestoreStore, Goto, ReleaseRestore
<1>20. CASE RestoreLoad
  <2>1. atRisk' \in BOOLEAN
    BY <1>20, <1>a DEF RestoreLoad
  <2> QED
    BY <1>20, <1>a, <2>1 DEF RestoreLoad, Goto, ReleaseRestore
<1>21. CASE RestoreSwap
  BY <1>21, <1>a DEF RestoreSwap, Goto
<1>22. CASE RestoreClear
  BY <1>22, <1>a DEF RestoreClear, Goto, ReleaseRestore
<1>23. CASE UNCHANGED vars
  BY <1>23, <1>a DEF vars
<1> QED
  BY <1>1, <1>2, <1>3, <1>4, <1>5, <1>6, <1>7, <1>8, <1>9, <1>10, <1>11, <1>12,
     <1>13, <1>14, <1>15, <1>16, <1>17, <1>18, <1>19, <1>20, <1>21, <1>22, <1>23 DEF
     Next, Flush

(* Every step keeps persistMu with one actor.                               *)
LEMMA LockStep == PersistInv /\ [Next]_vars => LockInv'
<1> SUFFICES ASSUME PersistInv, [Next]_vars
             PROVE  LockInv'
  OBVIOUS
<1>a. TypeOK /\ LockInv
  BY DEF PersistInv
<1> USE DEF TypeOK, LockInv, flushVars, actorPcs, history, control, data
<1>1. ASSUME NEW c \in Cmd, Mutate(c)
      PROVE  LockInv'
  BY <1>1, <1>a DEF Mutate
<1>2. ASSUME NEW c \in Cmd, MarkDirty(c)
      PROVE  LockInv'
  BY <1>2, <1>a DEF MarkDirty
<1>3. ASSUME NEW c \in Cmd, Signal(c)
      PROVE  LockInv'
  BY <1>3, <1>a DEF Signal
<1>4. ASSUME NEW a \in Actor, FlushBegin(a)
      PROVE  LockInv'
  BY <1>4, <1>a DEF FlushBegin, At, Goto, Actor
<1>5. ASSUME NEW a \in Actor, FlushSaved(a)
      PROVE  LockInv'
  BY <1>5, <1>a DEF FlushSaved, Actor
<1>6. ASSUME NEW a \in Actor, FlushFailed(a)
      PROVE  LockInv'
  BY <1>6, <1>a DEF FlushFailed, Goto, AfterFailure, Actor
<1>7. ASSUME NEW a \in Actor, FlushClear(a)
      PROVE  LockInv'
  BY <1>7, <1>a DEF FlushClear, Goto, AfterFlush, Actor
<1>8. CASE Start
  BY <1>8, <1>a DEF Start
<1>9. CASE LoopSignal
  BY <1>9, <1>a DEF LoopSignal, Goto
<1>10. CASE LoopTick
  BY <1>10, <1>a DEF LoopTick, Goto, LoopCheck
<1>11. CASE LoopDebounced
  BY <1>11, <1>a DEF LoopDebounced, Goto, LoopCheck
<1>12. CASE LoopExit
  BY <1>12, <1>a DEF LoopExit, Goto
<1>13. CASE ShutdownBegin
  BY <1>13, <1>a DEF ShutdownBegin, Goto
<1>14. CASE ShutdownStop
  BY <1>14, <1>a DEF ShutdownStop, Goto
<1>15. CASE ShutdownJoin
  BY <1>15, <1>a DEF ShutdownJoin, Goto
<1>16. CASE ExportBegin
  BY <1>16, <1>a DEF ExportBegin, Goto
<1>17. CASE ExportBackup
  BY <1>17, <1>a DEF ExportBackup, Goto
<1>18. CASE RestoreBegin
  BY <1>18, <1>a DEF RestoreBegin, Goto
<1>19. CASE RestoreStore
  BY <1>19, <1>a DEF RestoreStore, Goto, ReleaseRestore
<1>20. CASE RestoreLoad
  BY <1>20, <1>a DEF RestoreLoad, Goto, ReleaseRestore
<1>21. CASE RestoreSwap
  BY <1>21, <1>a DEF RestoreSwap, Goto
<1>22. CASE RestoreClear
  BY <1>22, <1>a DEF RestoreClear, Goto, ReleaseRestore
<1>23. CASE UNCHANGED vars
  BY <1>23, <1>a DEF vars
<1> QED
  BY <1>1, <1>2, <1>3, <1>4, <1>5, <1>6, <1>7, <1>8, <1>9, <1>10, <1>11, <1>12,
     <1>13, <1>14, <1>15, <1>16, <1>17, <1>18, <1>19, <1>20, <1>21, <1>22, <1>23 DEF
     Next, Flush

(* Every step keeps the contents growing.  A restore cannot run while a      *)
(* flush does, so the epoch stands still under an encoding; the archive's    *)
(* epoch is a new one, so it is newer than all there was.                    *)
LEMMA GrowStep == PersistInv /\ [Next]_vars => GrowInv'
<1> SUFFICES ASSUME PersistInv, [Next]_vars
             PROVE  GrowInv'
  OBVIOUS
<1>a. TypeOK /\ LockInv /\ GrowInv
  BY DEF PersistInv
<1> USE DEF TypeOK, Content, NotBefore, Older, SavedStaysSaved
<1> USE DEF GrowInv, flushVars, actorPcs, history, control, data
<1>1. ASSUME NEW c \in Cmd, Mutate(c)
      PROVE  GrowInv'
  BY <1>1, <1>a DEF Mutate
<1>2. ASSUME NEW c \in Cmd, MarkDirty(c)
      PROVE  GrowInv'
  BY <1>2, <1>a DEF MarkDirty
<1>3. ASSUME NEW c \in Cmd, Signal(c)
      PROVE  GrowInv'
  BY <1>3, <1>a DEF Signal
<1>4. ASSUME NEW a \in Actor, FlushBegin(a)
      PROVE  GrowInv'
  <2>1. restPc' \notin {"load", "swap"}
    BY <1>4, <1>a DEF FlushBegin, LockInv, Goto, At, Actor
  <2> QED
    BY <1>4, <1>a, <2>1 DEF FlushBegin
<1>5. ASSUME NEW a \in Actor, FlushSaved(a)
      PROVE  GrowInv'
  <2>1. /\ disk'.epoch = enc.epoch /\ disk' \in Content
        /\ NotBefore(enc, disk') /\ NotBefore(disk', mem)
    BY <1>5, <1>a, EncodingsBetween DEF FlushSaved
  <2>2. restPc' \notin {"load", "swap"}
    BY <1>5, <1>a DEF FlushSaved, LockInv
  <2> QED
    BY <1>5, <1>a, <2>1, <2>2 DEF FlushSaved
<1>6. ASSUME NEW a \in Actor, FlushFailed(a)
      PROVE  GrowInv'
  <2>1. ASSUME NEW d \in Encodings
        PROVE  d.epoch = enc.epoch /\ d \in Content /\ NotBefore(enc, d) /\ NotBefore(d, mem)
    BY <1>6, <1>a, <2>1, EncodingsBetween DEF FlushFailed
  <2>2. disk'.epoch <= epochs /\ ~Older(disk', saved)
    BY <1>6, <1>a, <2>1 DEF FlushFailed
  <2>3. restPc' \notin {"load", "swap"}
    BY <1>6, <1>a DEF FlushFailed, LockInv, Goto, AfterFailure, Actor
  <2> QED
    BY <1>6, <1>a, <2>2, <2>3 DEF FlushFailed
<1>7. ASSUME NEW a \in Actor, FlushClear(a)
      PROVE  GrowInv'
  <2>1. restPc' \notin {"load", "swap"}
    BY <1>7, <1>a DEF FlushClear, LockInv, Goto, AfterFlush, Actor
  <2> QED
    BY <1>7, <1>a, <2>1 DEF FlushClear
<1>8. CASE Start
  BY <1>8, <1>a DEF Start
<1>9. CASE LoopSignal
  BY <1>9, <1>a DEF LoopSignal, Goto
<1>10. CASE LoopTick
  BY <1>10, <1>a DEF LoopTick, Goto, LoopCheck
<1>11. CASE LoopDebounced
  BY <1>11, <1>a DEF LoopDebounced, Goto, LoopCheck
<1>12. CASE LoopExit
  BY <1>12, <1>a DEF LoopExit, Goto
<1>13. CASE ShutdownBegin
  BY <1>13, <1>a DEF ShutdownBegin, Goto
<1>14. CASE ShutdownStop
  BY <1>14, <1>a DEF ShutdownStop, Goto
<1>15. CASE ShutdownJoin
  BY <1>15, <1>a DEF ShutdownJoin, Goto
<1>16. CASE ExportBegin
  BY <1>16, <1>a DEF ExportBegin, Goto
<1>17. CASE ExportBackup
  BY <1>17, <1>a DEF ExportBackup, Goto
<1>18. CASE RestoreBegin
  BY <1>18, <1>a DEF RestoreBegin, Goto
<1>19. CASE RestoreStore
  <2>1. flushPc = "none"
    BY <1>19, <1>a DEF RestoreStore, LockInv
  <2> QED
    BY <1>19, <1>a, <2>1 DEF RestoreStore, Goto
<1>20. CASE RestoreLoad
  BY <1>20, <1>a DEF RestoreLoad, Goto, ReleaseRestore
<1>21. CASE RestoreSwap
  <2>1. flushPc = "none"
    BY <1>21, <1>a DEF RestoreSwap, LockInv
  <2> QED
    BY <1>21, <1>a, <2>1 DEF RestoreSwap, Goto
<1>22. CASE RestoreClear
  BY <1>22, <1>a DEF RestoreClear, Goto, ReleaseRestore
<1>23. CASE UNCHANGED vars
  BY <1>23, <1>a DEF vars
<1> QED
  BY <1>1, <1>2, <1>3, <1>4, <1>5, <1>6, <1>7, <1>8, <1>9, <1>10, <1>11, <1>12,
     <1>13, <1>14, <1>15, <1>16, <1>17, <1>18, <1>19, <1>20, <1>21, <1>22, <1>23 DEF
     Next, Flush

(* Every step keeps what an export started from.                             *)
LEMMA ExportStep == PersistInv /\ [Next]_vars => ExportInv'
<1> SUFFICES ASSUME PersistInv, [Next]_vars
             PROVE  ExportInv'
  OBVIOUS
<1>a. TypeOK /\ LockInv /\ GrowInv /\ ExportInv
  BY DEF PersistInv
<1>b. TypeOK'
  BY TypeStep
<1> USE DEF TypeOK, Content, NotBefore, Older, ExportHasEarlierChanges
<1> USE DEF ExportInv, flushVars, actorPcs, history, control, data
<1>1. ASSUME NEW c \in Cmd, Mutate(c)
      PROVE  ExportInv'
  BY <1>1, <1>a DEF Mutate
<1>2. ASSUME NEW c \in Cmd, MarkDirty(c)
      PROVE  ExportInv'
  BY <1>2, <1>a DEF MarkDirty
<1>3. ASSUME NEW c \in Cmd, Signal(c)
      PROVE  ExportInv'
  BY <1>3, <1>a DEF Signal
<1>4. ASSUME NEW a \in Actor, FlushBegin(a)
      PROVE  ExportInv'
  <2>1. expPc' \in {expPc, "flush"}
    BY <1>4 DEF FlushBegin, Goto, Actor
  <2> QED
    BY <1>4, <1>a, <2>1 DEF FlushBegin
<1>5. ASSUME NEW a \in Actor, FlushSaved(a)
      PROVE  ExportInv'
  <2>1. NotBefore(enc, disk')
    BY <1>5, <1>a, EncodingsBetween DEF FlushSaved, GrowInv
  <2> QED
    BY <1>5, <1>a, <1>b, <2>1 DEF FlushSaved, actorPcs
<1>6. ASSUME NEW a \in Actor, FlushFailed(a)
      PROVE  ExportInv'
  <2>1. ASSUME NEW d \in Encodings
        PROVE  d \in Content /\ NotBefore(enc, d)
    BY <1>6, <1>a, <2>1, EncodingsBetween DEF FlushFailed, GrowInv
  <2>2. expPc' # "flush" /\ (expPc' = "backup" => expPc = "backup" /\ expFrom' = expFrom)
    BY <1>6, <1>a DEF FlushFailed, LockInv, Goto, AfterFailure, Actor
  <2>3. expPc = "backup" => NotBefore(expFrom, disk')
    BY <1>6, <1>a, <2>1 DEF FlushFailed
  <2>4. NotBefore(expFrom', mem)
    BY <1>6, <1>a DEF FlushFailed, Zero
  <2> QED
    BY <1>6, <2>2, <2>3, <2>4 DEF FlushFailed
<1>7. ASSUME NEW a \in Actor, FlushClear(a)
      PROVE  ExportInv'
  <2>1. expPc' = IF a = "export" THEN "backup" ELSE expPc
    BY <1>7 DEF FlushClear, Goto, AfterFlush
  <2>2. a = "export" => expPc = "flush"
    BY <1>7, <1>a DEF FlushClear, LockInv
  <2> QED
    BY <1>7, <1>a, <2>1, <2>2 DEF FlushClear
<1>8. CASE Start
  BY <1>8, <1>a DEF Start
<1>9. CASE LoopSignal
  BY <1>9, <1>a DEF LoopSignal, Goto
<1>10. CASE LoopTick
  BY <1>10, <1>a DEF LoopTick, Goto, LoopCheck
<1>11. CASE LoopDebounced
  BY <1>11, <1>a DEF LoopDebounced, Goto, LoopCheck
<1>12. CASE LoopExit
  BY <1>12, <1>a DEF LoopExit, Goto
<1>13. CASE ShutdownBegin
  BY <1>13, <1>a DEF ShutdownBegin, Goto
<1>14. CASE ShutdownStop
  BY <1>14, <1>a DEF ShutdownStop, Goto
<1>15. CASE ShutdownJoin
  BY <1>15, <1>a DEF ShutdownJoin, Goto
<1>16. CASE ExportBegin
  BY <1>16, <1>a DEF ExportBegin, Goto
<1>17. CASE ExportBackup
  BY <1>17, <1>a DEF ExportBackup, Goto, Zero
<1>18. CASE RestoreBegin
  BY <1>18, <1>a DEF RestoreBegin, Goto
<1>19. CASE RestoreStore
  <2>1. flushPc = "none"
    BY <1>19, <1>a DEF RestoreStore, LockInv
  <2> QED
    BY <1>19, <1>a, <2>1 DEF RestoreStore, Goto, GrowInv
<1>20. CASE RestoreLoad
  BY <1>20, <1>a DEF RestoreLoad, Goto, ReleaseRestore
<1>21. CASE RestoreSwap
  <2>1. flushPc = "none"
    BY <1>21, <1>a DEF RestoreSwap, LockInv
  <2> QED
    BY <1>21, <1>a, <2>1 DEF RestoreSwap, Goto, GrowInv
<1>22. CASE RestoreClear
  BY <1>22, <1>a DEF RestoreClear, Goto, ReleaseRestore
<1>23. CASE UNCHANGED vars
  BY <1>23, <1>a DEF vars
<1> QED
  BY <1>1, <1>2, <1>3, <1>4, <1>5, <1>6, <1>7, <1>8, <1>9, <1>10, <1>11, <1>12,
     <1>13, <1>14, <1>15, <1>16, <1>17, <1>18, <1>19, <1>20, <1>21, <1>22, <1>23 DEF
     Next, Flush

(* Every step keeps account of the changes that are in memory only.          *)
LEMMA CleanStep == PersistInv /\ [Next]_vars => CleanInv'
<1> SUFFICES ASSUME PersistInv, [Next]_vars
             PROVE  CleanInv'
  OBVIOUS
<1>a. TypeOK /\ LockInv /\ GrowInv /\ CleanInv
  BY DEF PersistInv
<1> USE DEF TypeOK
<1> USE DEF CleanInv, Unmarked, flushVars, actorPcs, history, control, data
<1>1. ASSUME NEW c \in Cmd, Mutate(c)
      PROVE  CleanInv'
  BY <1>1, <1>a DEF Mutate
<1>2. ASSUME NEW c \in Cmd, MarkDirty(c)
      PROVE  CleanInv'
  BY <1>2, <1>a DEF MarkDirty
<1>3. ASSUME NEW c \in Cmd, Signal(c)
      PROVE  CleanInv'
  BY <1>3, <1>a DEF Signal
<1>4. ASSUME NEW a \in Actor, FlushBegin(a)
      PROVE  CleanInv'
  <2>1. restPc \notin {"load", "swap", "clear"} /\ restPc' \notin {"load", "swap", "clear"}
        /\ UNCHANGED cmdPc
    BY <1>4, <1>a DEF FlushBegin, LockInv, Goto, At, Actor
  <2> QED
    BY <1>4, <1>a, <2>1 DEF FlushBegin
<1>5. ASSUME NEW a \in Actor, FlushSaved(a)
      PROVE  CleanInv'
  <2>1. mem = enc => disk' = mem
    BY <1>5, <1>a, EncodingsBetween DEF FlushSaved, GrowInv
  <2>2. restPc \notin {"load", "swap", "clear"}
    BY <1>5, <1>a DEF FlushSaved, LockInv
  <2> QED
    BY <1>5, <1>a, <2>1, <2>2 DEF FlushSaved
<1>6. ASSUME NEW a \in Actor, FlushFailed(a)
      PROVE  CleanInv'
  <2>1. mem = enc => disk' \in {disk, mem}
    BY <1>6, <1>a, EncodingsBetween DEF FlushFailed, GrowInv
  <2>2. restPc \notin {"load", "swap", "clear"} /\ restPc' \notin {"load", "swap", "clear"}
        /\ UNCHANGED cmdPc
    BY <1>6, <1>a DEF FlushFailed, LockInv, Goto, AfterFailure, Actor
  <2> QED
    BY <1>6, <1>a, <2>1, <2>2 DEF FlushFailed
<1>7. ASSUME NEW a \in Actor, FlushClear(a)
      PROVE  CleanInv'
  <2>1. restPc \notin {"load", "swap", "clear"} /\ restPc' \notin {"load", "swap", "clear"}
        /\ UNCHANGED cmdPc
    BY <1>7, <1>a DEF FlushClear, LockInv, Goto, AfterFlush, Actor
  <2> QED
    BY <1>7, <1>a, <2>1 DEF FlushClear
<1>8. CASE Start
  BY <1>8, <1>a DEF Start
<1>9. CASE LoopSignal
  BY <1>9, <1>a DEF LoopSignal, Goto
<1>10. CASE LoopTick
  BY <1>10, <1>a DEF LoopTick, Goto, LoopCheck
<1>11. CASE LoopDebounced
  BY <1>11, <1>a DEF LoopDebounced, Goto, LoopCheck
<1>12. CASE LoopExit
  BY <1>12, <1>a DEF LoopExit, Goto
<1>13. CASE ShutdownBegin
  BY <1>13, <1>a DEF ShutdownBegin, Goto
<1>14. CASE ShutdownStop
  BY <1>14, <1>a DEF ShutdownStop, Goto
<1>15. CASE ShutdownJoin
  BY <1>15, <1>a DEF ShutdownJoin, Goto
<1>16. CASE ExportBegin
  BY <1>16, <1>a DEF ExportBegin, Goto
<1>17. CASE ExportBackup
  BY <1>17, <1>a DEF ExportBackup, Goto
<1>18. CASE RestoreBegin
  BY <1>18, <1>a DEF RestoreBegin, Goto
<1>19. CASE RestoreStore
  <2>1. flushPc = "none"
    BY <1>19, <1>a DEF RestoreStore, LockInv
  <2> QED
    BY <1>19, <1>a, <2>1 DEF RestoreStore, Goto
<1>20. CASE RestoreLoad
  BY <1>20, <1>a DEF RestoreLoad, Goto, ReleaseRestore
<1>21. CASE RestoreSwap
  <2>1. flushPc = "none"
    BY <1>21, <1>a DEF RestoreSwap, LockInv
  <2> QED
    BY <1>21, <1>a, <2>1 DEF RestoreSwap, Goto
<1>22. CASE RestoreClear
  <2>1. flushPc = "none"
    BY <1>22, <1>a DEF RestoreClear, LockInv
  <2> QED
    BY <1>22, <1>a, <2>1 DEF RestoreClear, Goto
<1>23. CASE UNCHANGED vars
  BY <1>23, <1>a DEF vars
<1> QED
  BY <1>1, <1>2, <1>3, <1>4, <1>5, <1>6, <1>7, <1>8, <1>9, <1>10, <1>11, <1>12,
     <1>13, <1>14, <1>15, <1>16, <1>17, <1>18, <1>19, <1>20, <1>21, <1>22, <1>23 DEF
     Next, Flush

(* The invariant holds in every state.                                       *)
THEOREM PersistInvariant == Spec => []PersistInv
<1>1. Init => PersistInv
  BY InitPersistInv
<1>2. PersistInv /\ [Next]_vars => PersistInv'
  BY TypeStep, LockStep, GrowStep, ExportStep, CleanStep DEF PersistInv
<1> QED
  BY <1>1, <1>2, PTL DEF Spec

(* The types hold: every goroutine is at one of its places and the tree, the  *)
(* file and the locals are contents.                                         *)
THEOREM PersisterTypes == Spec => []TypeOK
<1>1. PersistInv => TypeOK
  BY DEF PersistInv
<1> QED
  BY <1>1, PersistInvariant, PTL

(* Nothing older ever replaces what a completed flush or restore has put on   *)
(* disk, whatever runs beside it and whichever saves fail: flushNowLocked and *)
(* RestoreSnapshot take persistMu for as long as they hold a copy of the tree. *)
THEOREM SavedStays == Spec => []SavedStaysSaved
<1>1. PersistInv => SavedStaysSaved
  BY DEF PersistInv, GrowInv
<1> QED
  BY <1>1, PersistInvariant, PTL

(* A clear flag means that the disk has the tree, outside the two windows     *)
(* atRisk records.                                                           *)
THEOREM CleanIsSaved == Spec => []CleanMeansSaved
<1>1. PersistInv => CleanMeansSaved
  BY DEF PersistInv, CleanInv, CleanMeansSaved, Unmarked
<1> QED
  BY <1>1, PersistInvariant, PTL

(* What ExportSnapshot archives is no older than the tree it was called with. *)
THEOREM ExportIsCurrent == Spec => []ExportHasEarlierChanges
<1>1. PersistInv => ExportHasEarlierChanges
  BY DEF PersistInv, ExportInv
<1> QED
  BY <1>1, PersistInvariant, PTL
-----------------------------------------------------------------------------
(* The loop's life                                                          *)

(* The loop runs from Start to the cancellation of rootCtx, Shutdown goes on  *)
(* step by step, and once it has waited for the loop the loop is over.        *)
LoopInv ==
  /\ started <=> loopPc # "off"
  /\ stopped <=> shutPc # "idle"
  /\ rootDone <=> shutPc \notin {"idle", "cancel"}
  /\ sigClosed => started /\ rootDone
  /\ shutPc = "join" => sigClosed
  /\ sigClosed /\ shutPc # "join" => loopPc = "exited"
  /\ loopPc = "exited" => rootDone

(* Every step of the loop, of Shutdown and of a flush keeps it.               *)
LEMMA LoopStep == PersistInv /\ LoopInv /\ [Next]_vars => LoopInv'
<1> SUFFICES ASSUME PersistInv, LoopInv, [Next]_vars
             PROVE  LoopInv'
  OBVIOUS
<1>a. TypeOK /\ LockInv
  BY DEF PersistInv
<1> USE DEF LoopInv, flushVars, actorPcs, history, control, data
<1>s. ASSUME UNCHANGED <<loopPc, shutPc, started, stopped, rootDone, sigClosed>>
      PROVE  LoopInv'
  BY <1>s
<1>1. ASSUME NEW c \in Cmd, Mutate(c) \/ MarkDirty(c) \/ Signal(c)
      PROVE  LoopInv'
  BY <1>1, <1>s DEF Mutate, MarkDirty, Signal
<1>2. ASSUME NEW a \in Actor, FlushSaved(a)
      PROVE  LoopInv'
  BY <1>2, <1>s DEF FlushSaved
<1>3. ASSUME NEW a \in Actor, FlushBegin(a)
      PROVE  LoopInv'
  BY <1>3 DEF FlushBegin, Goto, At, Actor
<1>4. ASSUME NEW a \in Actor, FlushFailed(a) \/ FlushClear(a)
      PROVE  LoopInv'
  <2>1. /\ holder = a /\ UNCHANGED <<started, stopped, rootDone, sigClosed>>
        /\ loopPc' = loopPc \/ (a = "loop" /\ loopPc' = "wait")
        /\ shutPc' = shutPc \/ (a = "shutdown" /\ shutPc' = "returned")
    BY <1>4 DEF FlushFailed, FlushClear, Goto, AfterFlush, AfterFailure, Actor
  <2>2. (a = "loop" => loopPc = "flush") /\ (a = "shutdown" => shutPc = "flush")
    BY <1>a, <2>1 DEF LockInv
  <2> QED
    BY <2>1, <2>2
<1>5. CASE Start
  BY <1>5, <1>a DEF Start, LockInv
<1>6. CASE LoopSignal \/ LoopTick \/ LoopDebounced
  BY <1>6 DEF LoopSignal, LoopTick, LoopDebounced, LoopCheck, Goto
<1>7. CASE LoopExit
  BY <1>7 DEF LoopExit, Goto
<1>8. CASE ShutdownBegin
  BY <1>8 DEF ShutdownBegin, Goto
<1>9. CASE ShutdownStop
  BY <1>9 DEF ShutdownStop, Goto
<1>10. CASE ShutdownJoin
  BY <1>10 DEF ShutdownJoin, Goto
<1>11. CASE ExportBegin \/ ExportBackup
  BY <1>11, <1>s DEF ExportBegin, ExportBackup, Goto
<1>12. CASE RestoreBegin \/ RestoreStore \/ RestoreLoad \/ RestoreSwap \/ RestoreClear
  BY <1>12, <1>s DEF RestoreBegin, RestoreStore, RestoreLoad, RestoreSwap, RestoreClear, Goto
<1>13. CASE UNCHANGED vars
  BY <1>13, <1>s DEF vars
<1> QED
  BY <1>1, <1>2, <1>3, <1>4, <1>5, <1>6, <1>7, <1>8, <1>9, <1>10, <1>11, <1>12, <1>13
  DEF Next, Flush

(* persisterLoop lives as long as the app: it does not end before Shutdown is *)
(* called, Shutdown waits for it only when it was started and told to end,    *)
(* and a loop Shutdown has waited for never flushes beside or after           *)
(* Shutdown's own flush.                                                     *)
LoopServesUntilShutdown ==
  /\ started /\ ~stopped => loopPc \in {"wait", "debounce", "lock", "flush"}
  /\ shutPc = "join" => rootDone /\ loopPc # "off"
  /\ sigClosed /\ shutPc \in {"lock", "flush", "returned"} => loopPc = "exited"

(* Nobody waits for a persistMu that is its own: RestoreSnapshot calls        *)
(* flushNowLocked, not flushNow, and every other holder is inside a flush.    *)
NobodyLocksTwice ==
  /\ \A a \in Actor : holder = a => ~At(a, "lock")
  /\ holder \in {"loop", "shutdown", "export"} => flushPc # "none"

(* What safety has to say of DirtyGetsFlushed and ShutdownReturns.            *)
THEOREM LoopOutlivesApp == Spec => [](LoopServesUntilShutdown /\ NobodyLocksTwice)
<1>1. Init => LoopInv
  BY DEF Init, LoopInv
<1>2. PersistInv /\ LoopInv => LoopServesUntilShutdown
  BY DEF PersistInv, TypeOK, LoopInv, LoopServesUntilShutdown
<1>3. PersistInv => NobodyLocksTwice
  BY DEF PersistInv, LockInv, NobodyLocksTwice, At, Actor
<1> QED
  BY <1>1, <1>2, <1>3, LoopStep, PersistInvariant, PTL DEF Spec
=============================================================================
