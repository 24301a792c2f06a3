--------------------------- MODULE SessionsProofs ---------------------------
(***************************************************************************)
(* What the session manager guarantees however the goroutines of its       *)
(* sessions interleave: it never panics, CloseSession leaves nothing       *)
(* behind, and no credential outlives its session.  For any sessions,      *)
(* subscriptions, callers, capacity and number of chunks.                  *)
(***************************************************************************)
EXTENDS Sessions, TLAPS

(* A subscriber whose lock fanOut holds has an open channel: subscriber.close *)
(* waits for the lock.                                                       *)
LockInv ==
  /\ panicked = FALSE
  /\ \A s \in Session : \A u \in fanCur[s] : u \notin chClosed

(* How far the open and the run goroutine of a session are says where its     *)
(* entry, its material and its event are.                                    *)
Stage(s) ==
  /\ runPc[s] = "none" <=> openPc[s] \notin {"publish", "opened"}
  /\ openPc[s] \in {"new", "credential"} => material[s] = "none"
  /\ material[s] = "held" => openPc[s] = "open" \/ runPc[s] \in {"start", "remove"}
  /\ runPc[s] \in {"publish", "pipes", "done", "ended"} => s \notin sessions
  /\ runPc[s] \notin {"none", "start"} => s \in cancelled
  /\ runPc[s] \in {"pipes", "done", "ended"} => <<"closed", s>> \in published
  /\ s \in waited => runPc[s] = "ended"

StageInv == \A s \in Session : Stage(s)

SessionsInv == TypeOK /\ LockInv /\ StageInv

(* Nothing is open yet.                                                      *)
LEMMA SessionsInit == Init => SessionsInv
<1> SUFFICES ASSUME Init PROVE SessionsInv
  OBVIOUS
<1> USE SessionsAssumption DEF Init
<1>1. panicked \in BOOLEAN /\ panicked = FALSE
  OBVIOUS
<1>2. TypeOK
  BY <1>1 DEF TypeOK
<1>3. LockInv
  BY <1>1 DEF LockInv
<1>4. StageInv
  BY DEF StageInv, Stage
<1> QED
  BY <1>2, <1>3, <1>4 DEF SessionsInv

(* Every step keeps the types, and no channel overflows.                     *)
LEMMA TypeStep == TypeOK /\ Next => TypeOK'
<1> SUFFICES ASSUME TypeOK, Next
             PROVE  TypeOK'
  OBVIOUS
<1> USE SessionsAssumption
<1> USE DEF TypeOK, openVars, runVars, fanVars, subVars, chVars, closeVars, shutVars
<1>1. ASSUME NEW s \in Session, OpenResolve(s) PROVE TypeOK'
  BY <1>1 DEF OpenResolve
<1>2. ASSUME NEW s \in Session, OpenCredential(s) PROVE TypeOK'
  BY <1>2 DEF OpenCredential
<1>3. ASSUME NEW s \in Session, OpenFailed(s) PROVE TypeOK'
  BY <1>3 DEF OpenFailed, Zeroized
<1>4. ASSUME NEW s \in Session, OpenEntry(s) PROVE TypeOK'
  BY <1>4 DEF OpenEntry
<1>5. ASSUME NEW s \in Session, OpenPublish(s) PROVE TypeOK'
  BY <1>5 DEF OpenPublish
<1>6. ASSUME NEW s \in Session, StartWrites(s) PROVE TypeOK'
  BY <1>6 DEF StartWrites
<1>7. ASSUME NEW s \in Session, StartClosesOutput(s) PROVE TypeOK'
  BY <1>7 DEF StartClosesOutput
<1>8. ASSUME NEW s \in Session, RunReturn(s) PROVE TypeOK'
  BY <1>8 DEF RunReturn
<1>9. ASSUME NEW s \in Session, RunRemove(s) PROVE TypeOK'
  BY <1>9 DEF RunRemove, Zeroized
<1>10. ASSUME NEW s \in Session, RunPublish(s) PROVE TypeOK'
  BY <1>10 DEF RunPublish
<1>11. ASSUME NEW s \in Session, RunPipes(s) PROVE TypeOK'
  BY <1>11 DEF RunPipes
<1>12. ASSUME NEW s \in Session, RunDone(s) PROVE TypeOK'
  BY <1>12 DEF RunDone
<1>13. ASSUME NEW s \in Session, FanRead(s) PROVE TypeOK'
  BY <1>13 DEF FanRead
<1>14. ASSUME NEW s \in Session, FanSnapshot(s) PROVE TypeOK'
  BY <1>14 DEF FanSnapshot
<1>15. ASSUME NEW s \in Session, FanNext(s) PROVE TypeOK'
  BY <1>15 DEF FanNext
<1>16. ASSUME NEW s \in Session, FanEOF(s) PROVE TypeOK'
  BY <1>16 DEF FanEOF
<1>17. ASSUME NEW s \in Session, FanEnd(s) PROVE TypeOK'
  BY <1>17 DEF FanEnd
<1>18. ASSUME NEW s \in Session, NEW u \in Sub, FanLock(s, u) PROVE TypeOK'
  BY <1>18 DEF FanLock
<1>19. ASSUME NEW s \in Session, NEW u \in Sub, FanSkip(s, u) PROVE TypeOK'
  BY <1>19 DEF FanSkip
<1>20. ASSUME NEW s \in Session, NEW u \in Sub, FanSend(s, u) PROVE TypeOK'
  BY <1>20 DEF FanSend
<1>21. ASSUME NEW s \in Session, NEW u \in Sub, FanClose(s, u) PROVE TypeOK'
  BY <1>21 DEF FanClose, CloseSub
<1>22. ASSUME NEW u \in Sub, NEW s \in Session, SubGet(u, s) PROVE TypeOK'
  BY <1>22 DEF SubGet
<1>23. ASSUME NEW u \in Sub, NEW s \in Session, SubAppend(u, s) PROVE TypeOK'
  BY <1>23 DEF SubAppend
<1>24. ASSUME NEW u \in Sub, SubCancel(u) PROVE TypeOK'
  BY <1>24 DEF SubCancel
<1>25. ASSUME NEW u \in Sub, SubReceive(u) PROVE TypeOK'
  BY <1>25 DEF SubReceive
<1>26. ASSUME NEW u \in Sub, SubClose(u) PROVE TypeOK'
  BY <1>26 DEF SubClose, CloseSub
<1>27. ASSUME NEW u \in Sub, NEW s \in Session, SubWake(u, s) PROVE TypeOK'
  BY <1>27 DEF SubWake
<1>28. ASSUME NEW c \in Caller, NEW s \in Session, CloseGet(c, s) PROVE TypeOK'
  BY <1>28 DEF CloseGet
<1>29. ASSUME NEW c \in Caller, NEW s \in Session, CloseAlready(c, s) PROVE TypeOK'
  BY <1>29 DEF CloseAlready
<1>30. ASSUME NEW c \in Caller, NEW s \in Session, CloseBegin(c, s) PROVE TypeOK'
  BY <1>30 DEF CloseBegin
<1>31. ASSUME NEW c \in Caller, NEW s \in Session, CloseDone(c, s) PROVE TypeOK'
  BY <1>31 DEF CloseDone, Done
<1>32. ASSUME NEW c \in Caller, CloseGiveUp(c) PROVE TypeOK'
  BY <1>32 DEF CloseGiveUp
<1>33. CASE ShutdownSnapshot
  BY <1>33 DEF ShutdownSnapshot
<1>34. CASE ShutdownReturn
  BY <1>34 DEF ShutdownReturn
<1>35. ASSUME NEW s \in Session, ShutdownSkip(s) PROVE TypeOK'
  BY <1>35 DEF ShutdownSkip
<1> QED
  BY <1>1, <1>2, <1>3, <1>4, <1>5, <1>6, <1>7, <1>8, <1>9, <1>10, <1>11, <1>12,
     <1>13, <1>14, <1>15, <1>16, <1>17, <1>18, <1>19, <1>20, <1>21, <1>22, <1>23,
     <1>24, <1>25, <1>26, <1>27, <1>28, <1>29, <1>30, <1>31, <1>32, <1>33, <1>34,
     <1>35 DEF Next, Open, Start, Run, FanOut, Subscribe, Watch, CloseSession,
     CloseAll

(* Every step keeps the locked channels open.                                *)
LEMMA LockStep == TypeOK /\ LockInv /\ Next => LockInv'
<1> SUFFICES ASSUME TypeOK /\ LockInv, Next
             PROVE  LockInv'
  OBVIOUS
<1> USE SessionsAssumption
<1> USE DEF TypeOK, LockInv, openVars, runVars, fanVars, subVars, chVars, closeVars,
            shutVars
<1>1. ASSUME NEW s \in Session, OpenResolve(s) PROVE LockInv'
  BY <1>1 DEF OpenResolve
<1>2. ASSUME NEW s \in Session, OpenCredential(s) PROVE LockInv'
  BY <1>2 DEF OpenCredential
<1>3. ASSUME NEW s \in Session, OpenFailed(s) PROVE LockInv'
  BY <1>3 DEF OpenFailed, Zeroized
<1>4. ASSUME NEW s \in Session, OpenEntry(s) PROVE LockInv'
  BY <1>4 DEF OpenEntry
<1>5. ASSUME NEW s \in Session, OpenPublish(s) PROVE LockInv'
  BY <1>5 DEF OpenPublish
<1>6. ASSUME NEW s \in Session, StartWrites(s) PROVE LockInv'
  BY <1>6 DEF StartWrites
<1>7. ASSUME NEW s \in Session, StartClosesOutput(s) PROVE LockInv'
  BY <1>7 DEF StartClosesOutput
<1>8. ASSUME NEW s \in Session, RunReturn(s) PROVE LockInv'
  BY <1>8 DEF RunReturn
<1>9. ASSUME NEW s \in Session, RunRemove(s) PROVE LockInv'
  BY <1>9 DEF RunRemove, Zeroized
<1>10. ASSUME NEW s \in Session, RunPublish(s) PROVE LockInv'
  BY <1>10 DEF RunPublish
<1>11. ASSUME NEW s \in Session, RunPipes(s) PROVE LockInv'
  BY <1>11 DEF RunPipes
<1>12. ASSUME NEW s \in Session, RunDone(s) PROVE LockInv'
  BY <1>12 DEF RunDone
<1>13. ASSUME NEW s \in Session, FanRead(s) PROVE LockInv'
  BY <1>13 DEF FanRead
<1>14. ASSUME NEW s \in Session, FanSnapshot(s) PROVE LockInv'
  BY <1>14 DEF FanSnapshot
<1>15. ASSUME NEW s \in Session, FanNext(s) PROVE LockInv'
  BY <1>15 DEF FanNext
<1>16. ASSUME NEW s \in Session, FanEOF(s) PROVE LockInv'
  BY <1>16 DEF FanEOF
<1>17. ASSUME NEW s \in Session, FanEnd(s) PROVE LockInv'
  BY <1>17 DEF FanEnd
<1>18. ASSUME NEW s \in Session, NEW u \in Sub, FanLock(s, u) PROVE LockInv'
  BY <1>18 DEF FanLock
<1>19. ASSUME NEW s \in Session, NEW u \in Sub, FanSkip(s, u) PROVE LockInv'
  BY <1>19 DEF FanSkip
<1>20. ASSUME NEW s \in Session, NEW u \in Sub, FanSend(s, u) PROVE LockInv'
  BY <1>20 DEF FanSend
<1>21. ASSUME NEW s \in Session, NEW u \in Sub, FanClose(s, u) PROVE LockInv'
  BY <1>21 DEF FanClose, CloseSub
<1>22. ASSUME NEW u \in Sub, NEW s \in Session, SubGet(u, s) PROVE LockInv'
  BY <1>22 DEF SubGet
<1>23. ASSUME NEW u \in Sub, NEW s \in Session, SubAppend(u, s) PROVE LockInv'
  BY <1>23 DEF SubAppend
<1>24. ASSUME NEW u \in Sub, SubCancel(u) PROVE LockInv'
  BY <1>24 DEF SubCancel
<1>25. ASSUME NEW u \in Sub, SubReceive(u) PROVE LockInv'
  BY <1>25 DEF SubReceive
<1>26. ASSUME NEW u \in Sub, SubClose(u) PROVE LockInv'
  BY <1>26 DEF SubClose, CloseSub
<1>27. ASSUME NEW u \in Sub, NEW s \in Session, SubWake(u, s) PROVE LockInv'
  BY <1>27 DEF SubWake
<1>28. ASSUME NEW c \in Caller, NEW s \in Session, CloseGet(c, s) PROVE LockInv'
  BY <1>28 DEF CloseGet
<1>29. ASSUME NEW c \in Caller, NEW s \in Session, CloseAlready(c, s) PROVE LockInv'
  BY <1>29 DEF CloseAlready
<1>30. ASSUME NEW c \in Caller, NEW s \in Session, CloseBegin(c, s) PROVE LockInv'
  BY <1>30 DEF CloseBegin
<1>31. ASSUME NEW c \in Caller, NEW s \in Session, CloseDone(c, s) PROVE LockInv'
  BY <1>31 DEF CloseDone, Done
<1>32. ASSUME NEW c \in Caller, CloseGiveUp(c) PROVE LockInv'
  BY <1>32 DEF CloseGiveUp
<1>33. CASE ShutdownSnapshot
  BY <1>33 DEF ShutdownSnapshot
<1>34. CASE ShutdownReturn
  BY <1>34 DEF ShutdownReturn
<1>35. ASSUME NEW s \in Session, ShutdownSkip(s) PROVE LockInv'
  BY <1>35 DEF ShutdownSkip
<1> QED
  BY <1>1, <1>2, <1>3, <1>4, <1>5, <1>6, <1>7, <1>8, <1>9, <1>10, <1>11, <1>12,
     <1>13, <1>14, <1>15, <1>16, <1>17, <1>18, <1>19, <1>20, <1>21, <1>22, <1>23,
     <1>24, <1>25, <1>26, <1>27, <1>28, <1>29, <1>30, <1>31, <1>32, <1>33, <1>34,
     <1>35 DEF Next, Open, Start, Run, FanOut, Subscribe, Watch, CloseSession,
     CloseAll

(* Every step keeps entry, material and event in step with the goroutines.    *)
LEMMA StageStep == TypeOK /\ StageInv /\ Next => StageInv'
<1> SUFFICES ASSUME TypeOK /\ StageInv, Next
             PROVE  StageInv'
  OBVIOUS
<1> USE SessionsAssumption
<1> USE DEF TypeOK, StageInv, Stage, openVars, runVars, fanVars, subVars, chVars,
            closeVars, shutVars
<1>1. ASSUME NEW s \in Session, OpenResolve(s) PROVE StageInv'
  <2> SUFFICES ASSUME NEW t \in Session PROVE Stage(t)'
    BY DEF StageInv
  <2>a. Stage(t) /\ Stage(s)
    OBVIOUS
  <2> HIDE DEF StageInv
  <2>1. CASE t = s
    BY <1>1, <2>a, <2>1 DEF OpenResolve
  <2>2. CASE t # s
    BY <1>1, <2>a, <2>2 DEF OpenResolve
  <2> QED
    BY <2>1, <2>2
<1>2. ASSUME NEW s \in Session, OpenCredential(s) PROVE StageInv'
  <2> SUFFICES ASSUME NEW t \in Session PROVE Stage(t)'
    BY DEF StageInv
  <2>a. Stage(t) /\ Stage(s)
    OBVIOUS
  <2> HIDE DEF StageInv
  <2>1. CASE t = s
    BY <1>2, <2>a, <2>1 DEF OpenCredential
  <2>2. CASE t # s
    BY <1>2, <2>a, <2>2 DEF OpenCredential
  <2> QED
    BY <2>1, <2>2
<1>3. ASSUME NEW s \in Session, OpenFailed(s) PROVE StageInv'
  <2> SUFFICES ASSUME NEW t \in Session PROVE Stage(t)'
    BY DEF StageInv
  <2>a. Stage(t) /\ Stage(s)
    OBVIOUS
  <2> HIDE DEF StageInv
  <2>1. CASE t = s
    BY <1>3, <2>a, <2>1 DEF OpenFailed, Zeroized
  <2>2. CASE t # s
    BY <1>3, <2>a, <2>2 DEF OpenFailed, Zeroized
  <2> QED
    BY <2>1, <2>2
<1>4. ASSUME NEW s \in Session, OpenEntry(s) PROVE StageInv'
  <2> SUFFICES ASSUME NEW t \in Session PROVE Stage(t)'
    BY DEF StageInv
  <2>a. Stage(t) /\ Stage(s)
    OBVIOUS
  <2> HIDE DEF StageInv
  <2>1. CASE t = s
    BY <1>4, <2>a, <2>1 DEF OpenEntry
  <2>2. CASE t # s
    BY <1>4, <2>a, <2>2 DEF OpenEntry
  <2> QED
    BY <2>1, <2>2
<1>5. ASSUME NEW s \in Session, OpenPublish(s) PROVE StageInv'
  <2> SUFFICES ASSUME NEW t \in Session PROVE Stage(t)'
    BY DEF StageInv
  <2>a. Stage(t) /\ Stage(s)
    OBVIOUS
  <2> HIDE DEF StageInv
  <2>1. CASE t = s
    BY <1>5, <2>a, <2>1 DEF OpenPublish
  <2>2. CASE t # s
    BY <1>5, <2>a, <2>2 DEF OpenPublish
  <2> QED
    BY <2>1, <2>2
<1>6. ASSUME NEW s \in Session, StartWrites(s) PROVE StageInv'
  <2> SUFFICES ASSUME NEW t \in Session PROVE Stage(t)'
    BY DEF StageInv
  <2>a. Stage(t) /\ Stage(s)
    OBVIOUS
  <2> HIDE DEF StageInv
  <2>1. CASE t = s
    BY <1>6, <2>a, <2>1 DEF StartWrites
  <2>2. CASE t # s
    BY <1>6, <2>a, <2>2 DEF StartWrites
  <2> QED
    BY <2>1, <2>2
<1>7. ASSUME NEW s \in Session, StartClosesOutput(s) PROVE StageInv'
  <2> SUFFICES ASSUME NEW t \in Session PROVE Stage(t)'
    BY DEF StageInv
  <2>a. Stage(t) /\ Stage(s)
    OBVIOUS
  <2> HIDE DEF StageInv
  <2>1. CASE t = s
    BY <1>7, <2>a, <2>1 DEF StartClosesOutput
  <2>2. CASE t # s
    BY <1>7, <2>a, <2>2 DEF StartClosesOutput
  <2> QED
    BY <2>1, <2>2
<1>8. ASSUME NEW s \in Session, RunReturn(s) PROVE StageInv'
  <2> SUFFICES ASSUME NEW t \in Session PROVE Stage(t)'
    BY DEF StageInv
  <2>a. Stage(t) /\ Stage(s)
    OBVIOUS
  <2> HIDE DEF StageInv
  <2>1. CASE t = s
    BY <1>8, <2>a, <2>1 DEF RunReturn
  <2>2. CASE t # s
    BY <1>8, <2>a, <2>2 DEF RunReturn
  <2> QED
    BY <2>1, <2>2
<1>9. ASSUME NEW s \in Session, RunRemove(s) PROVE StageInv'
  <2> SUFFICES ASSUME NEW t \in Session PROVE Stage(t)'
    BY DEF StageInv
  <2>a. Stage(t) /\ Stage(s)
    OBVIOUS
  <2> HIDE DEF StageInv
  <2>1. CASE t = s
    BY <1>9, <2>a, <2>1 DEF RunRemove, Zeroized
  <2>2. CASE t # s
    BY <1>9, <2>a, <2>2 DEF RunRemove, Zeroized
  <2> QED
    BY <2>1, <2>2
<1>10. ASSUME NEW s \in Session, RunPublish(s) PROVE StageInv'
  <2> SUFFICES ASSUME NEW t \in Session PROVE Stage(t)'
    BY DEF StageInv
  <2>a. Stage(t) /\ Stage(s)
    OBVIOUS
  <2> HIDE DEF StageInv
  <2>1. CASE t = s
    BY <1>10, <2>a, <2>1 DEF RunPublish
  <2>2. CASE t # s
    BY <1>10, <2>a, <2>2 DEF RunPublish
  <2> QED
    BY <2>1, <2>2
<1>11. ASSUME NEW s \in Session, RunPipes(s) PROVE StageInv'
  <2> SUFFICES ASSUME NEW t \in Session PROVE Stage(t)'
    BY DEF StageInv
  <2>a. Stage(t) /\ Stage(s)
    OBVIOUS
  <2> HIDE DEF StageInv
  <2>1. CASE t = s
    BY <1>11, <2>a, <2>1 DEF RunPipes
  <2>2. CASE t # s
    BY <1>11, <2>a, <2>2 DEF RunPipes
  <2> QED
    BY <2>1, <2>2
<1>12. ASSUME NEW s \in Session, RunDone(s) PROVE StageInv'
  <2> SUFFICES ASSUME NEW t \in Session PROVE Stage(t)'
    BY DEF StageInv
  <2>a. Stage(t) /\ Stage(s)
    OBVIOUS
  <2> HIDE DEF StageInv
  <2>1. CASE t = s
    BY <1>12, <2>a, <2>1 DEF RunDone
  <2>2. CASE t # s
    BY <1>12, <2>a, <2>2 DEF RunDone
  <2> QED
    BY <2>1, <2>2
<1>13. ASSUME NEW s \in Session, FanRead(s) PROVE StageInv'
  BY <1>13 DEF FanRead
<1>14. ASSUME NEW s \in Session, FanSnapshot(s) PROVE StageInv'
  BY <1>14 DEF FanSnapshot
<1>15. ASSUME NEW s \in Session, FanNext(s) PROVE StageInv'
  BY <1>15 DEF FanNext
<1>16. ASSUME NEW s \in Session, FanEOF(s) PROVE StageInv'
  BY <1>16 DEF FanEOF
<1>17. ASSUME NEW s \in Session, FanEnd(s) PROVE StageInv'
  BY <1>17 DEF FanEnd
<1>18. ASSUME NEW s \in Session, NEW u \in Sub, FanLock(s, u) PROVE StageInv'
  BY <1>18 DEF FanLock
<1>19. ASSUME NEW s \in Session, NEW u \in Sub, FanSkip(s, u) PROVE StageInv'
  BY <1>19 DEF FanSkip
<1>20. ASSUME NEW s \in Session, NEW u \in Sub, FanSend(s, u) PROVE StageInv'
  BY <1>20 DEF FanSend
<1>21. ASSUME NEW s \in Session, NEW u \in Sub, FanClose(s, u) PROVE StageInv'
  BY <1>21 DEF FanClose, CloseSub
<1>22. ASSUME NEW u \in Sub, NEW s \in Session, SubGet(u, s) PROVE StageInv'
  BY <1>22 DEF SubGet
<1>23. ASSUME NEW u \in Sub, NEW s \in Session, SubAppend(u, s) PROVE StageInv'
  BY <1>23 DEF SubAppend
<1>24. ASSUME NEW u \in Sub, SubCancel(u) PROVE StageInv'
  BY <1>24 DEF SubCancel
<1>25. ASSUME NEW u \in Sub, SubReceive(u) PROVE StageInv'
  BY <1>25 DEF SubReceive
<1>26. ASSUME NEW u \in Sub, SubClose(u) PROVE StageInv'
  BY <1>26 DEF SubClose, CloseSub
<1>27. ASSUME NEW u \in Sub, NEW s \in Session, SubWake(u, s) PROVE StageInv'
  BY <1>27 DEF SubWake
<1>28. ASSUME NEW c \in Caller, NEW s \in Session, CloseGet(c, s) PROVE StageInv'
  BY <1>28 DEF CloseGet
<1>29. ASSUME NEW c \in Caller, NEW s \in Session, CloseAlready(c, s) PROVE StageInv'
  BY <1>29 DEF CloseAlready
<1>30. ASSUME NEW c \in Caller, NEW s \in Session, CloseBegin(c, s) PROVE StageInv'
  BY <1>30 DEF CloseBegin
<1>31. ASSUME NEW c \in Caller, NEW s \in Session, CloseDone(c, s) PROVE StageInv'
  BY <1>31 DEF CloseDone, Done
<1>32. ASSUME NEW c \in Caller, CloseGiveUp(c) PROVE StageInv'
  BY <1>32 DEF CloseGiveUp
<1>33. CASE ShutdownSnapshot
  BY <1>33 DEF ShutdownSnapshot
<1>34. CASE ShutdownReturn
  BY <1>34 DEF ShutdownReturn
<1>35. ASSUME NEW s \in Session, ShutdownSkip(s) PROVE StageInv'
  BY <1>35 DEF ShutdownSkip
<1> QED
  BY <1>1, <1>2, <1>3, <1>4, <1>5, <1>6, <1>7, <1>8, <1>9, <1>10, <1>11, <1>12,
     <1>13, <1>14, <1>15, <1>16, <1>17, <1>18, <1>19, <1>20, <1>21, <1>22, <1>23,
     <1>24, <1>25, <1>26, <1>27, <1>28, <1>29, <1>30, <1>31, <1>32, <1>33, <1>34,
     <1>35 DEF Next, Open, Start, Run, FanOut, Subscribe, Watch, CloseSession,
     CloseAll

(* Nothing happens.                                                          *)
LEMMA StutterStep == SessionsInv /\ UNCHANGED vars => SessionsInv'
<1> SUFFICES ASSUME SessionsInv, UNCHANGED vars PROVE SessionsInv'
  OBVIOUS
<1> USE DEF vars, openVars, runVars, fanVars, subVars, chVars, closeVars, shutVars
<1>1. TypeOK'
  BY DEF SessionsInv, TypeOK
<1>2. LockInv'
  BY DEF SessionsInv, LockInv
<1>3. StageInv'
  BY DEF SessionsInv, StageInv, Stage
<1> QED
  BY <1>1, <1>2, <1>3 DEF SessionsInv

(* The invariant of the session manager.                                     *)
THEOREM SessionsInvariant == Spec => []SessionsInv
<1>1. SessionsInv /\ [Next]_vars => SessionsInv'
  BY TypeStep, LockStep, StageStep, StutterStep DEF SessionsInv
<1> QED
  BY <1>1, SessionsInit, PTL DEF Spec

(* Types, and a channel never holds more than its capacity.                   *)
THEOREM SessionsTypes == Spec => []TypeOK
<1>1. SessionsInv => TypeOK
  BY DEF SessionsInv
<1> QED
  BY <1>1, SessionsInvariant, PTL

(* fanOut and the goroutines of the subscriptions never send on a closed       *)
(* channel, whichever of them closes it.                                     *)
THEOREM SessionsNeverPanic == Spec => []NoPanic
<1>1. SessionsInv => NoPanic
  BY DEF SessionsInv, LockInv, NoPanic
<1> QED
  BY <1>1, SessionsInvariant, PTL

(* A CloseSession that waited leaves no entry, no material and no plugin that  *)
(* was not told, and the event is out.                                       *)
THEOREM SessionsCloseWaits == Spec => []CloseWaits
<1>1. SessionsInv => CloseWaits
  BY DEF SessionsInv, TypeOK, StageInv, Stage, CloseWaits
<1> QED
  BY <1>1, SessionsInvariant, PTL

(* The application holds material only for a session that is being opened or   *)
(* that runs.                                                                *)
THEOREM SessionsSecretsWiped == Spec => []SecretsWiped
<1>1. SessionsInv => SecretsWiped
  BY DEF SessionsInv, StageInv, Stage, SecretsWiped
<1> QED
  BY <1>1, SessionsInvariant, PTL
-----------------------------------------------------------------------------
(* How a session winds up                                                    *)

(* Of a session: its output pipe holds a chunk only while Start runs, and     *)
(* fanOut has given up only a pipe that is closed; fanOut holds the lock of a *)
(* subscriber only for the send; a CloseSession that waits has set closed and *)
(* cancelled the session; and the list of subscribers holds those whose       *)
(* goroutine still watches.                                                  *)
Winding(s) ==
  /\ runPc[s] = "none" <=> fanPc[s] = "none"
  /\ runPc[s] = "none" => s \notin sessions /\ s \notin cancelled
  /\ s \in pipe => runPc[s] = "start" /\ s \notin outClosed
  /\ fanPc[s] \in {"close", "ended"} => s \in outClosed
  /\ runPc[s] \in {"done", "ended"} => s \in outClosed
  /\ s \in closed => s \in cancelled
  /\ fanCur[s] # {} => fanPc[s] = "send"
  /\ \A c \in Caller : s \in closing[c] =>
       /\ runPc[s] # "none" /\ closePc[c] # "idle"
       /\ closePc[c] = "wait" => s \in closed
  /\ \A u \in subs[s] : subPc[u] = "watch" /\ s \in target[u]

(* A subscription and a CloseSession are for one session, and a subscription  *)
(* whose goroutine is gone has a closed channel.                             *)
OneTarget ==
  /\ \A u \in Sub : \A s, t \in target[u] : s = t
  /\ \A c \in Caller : \A s, t \in closing[c] : s = t
  /\ \A u \in Sub : subPc[u] = "gone" => u \in chClosed

WindInv == OneTarget /\ \A s \in Session : Winding(s)

(* Nothing is open yet.                                                      *)
LEMMA WindInit == Init => WindInv
  BY DEF Init, WindInv, OneTarget, Winding

(* Every step of the sessions, the subscriptions and the callers keeps it.    *)
LEMMA WindStep == SessionsInv /\ WindInv /\ [Next]_vars => WindInv'
<1> SUFFICES ASSUME SessionsInv, WindInv, [Next]_vars
             PROVE  WindInv'
  OBVIOUS
<1>a. TypeOK /\ OneTarget /\ \A s \in Session : Stage(s) /\ Winding(s)
  BY DEF SessionsInv, StageInv, WindInv
<1>b. /\ runPc \in [Session -> {"none", "start", "remove", "publish", "pipes", "done", "ended"}]
      /\ fanPc \in [Session -> {"none", "read", "snapshot", "pick", "send", "close", "ended"}]
      /\ fanCur \in [Session -> SUBSET Sub] /\ subs \in [Session -> SUBSET Sub]
      /\ subPc \in [Sub -> {"idle", "got", "watch", "close", "gone"}]
      /\ target \in [Sub -> SUBSET Session]
      /\ closePc \in [Caller -> {"idle", "got", "wait"}] /\ closing \in [Caller -> SUBSET Session]
  BY <1>a DEF TypeOK
<1> USE DEF WindInv, OneTarget, openVars, runVars, fanVars, subVars, chVars, closeVars,
            shutVars
<1>s. ASSUME UNCHANGED <<sessions, runPc, cancelled, closed, pipe, outClosed, fanPc, fanCur, subs,
                         subPc, target, closePc, closing>>,
             chClosed \subseteq chClosed'
      PROVE  WindInv'
  BY <1>a, <1>s DEF Winding
<1>1. ASSUME NEW s \in Session, OpenResolve(s) \/ OpenCredential(s) \/ OpenFailed(s)
      PROVE  WindInv'
  <2> HIDE DEF WindInv, OneTarget
  <2> QED
    BY <1>s, <1>1 DEF OpenResolve, OpenCredential, OpenFailed
<1>2. ASSUME NEW s \in Session, OpenPublish(s) \/ ShutdownSkip(s)
      PROVE  WindInv'
  <2> HIDE DEF WindInv, OneTarget
  <2> QED
    BY <1>s, <1>2 DEF OpenPublish, ShutdownSkip
<1>3. ASSUME NEW s \in Session, NEW u \in Sub, FanSkip(s, u) \/ FanClose(s, u)
      PROVE  WindInv'
  <2> HIDE DEF WindInv, OneTarget
  <2> QED
    BY <1>s, <1>3 DEF FanSkip, FanClose, CloseSub
<1>4. ASSUME NEW u \in Sub, SubCancel(u) \/ SubReceive(u)
      PROVE  WindInv'
  <2> HIDE DEF WindInv, OneTarget
  <2> QED
    BY <1>s, <1>4 DEF SubCancel, SubReceive
<1>5. CASE ShutdownSnapshot \/ ShutdownReturn
  <2> HIDE DEF WindInv, OneTarget
  <2> QED
    BY <1>s, <1>5 DEF ShutdownSnapshot, ShutdownReturn
<1>6. ASSUME NEW s \in Session, OpenEntry(s)
      PROVE  WindInv'
  <2>1. OneTarget'
    BY <1>a, <1>b, <1>6 DEF OpenEntry
  <2>2. ASSUME NEW t \in Session PROVE Winding(t)'
    <3>a. Winding(t) /\ Stage(t) /\ Winding(s)
      BY <1>a
    <3>1. CASE t = s
      BY <1>a, <1>b, <1>6, <3>a, <3>1 DEF OpenEntry, Winding, Stage
    <3>2. CASE t # s
      BY <1>a, <1>b, <1>6, <3>a, <3>2 DEF OpenEntry, Winding, Stage
    <3> QED
      BY <3>1, <3>2
  <2> QED
    BY <2>1, <2>2
<1>7. ASSUME NEW s \in Session, StartWrites(s)
      PROVE  WindInv'
  <2>1. OneTarget'
    BY <1>a, <1>b, <1>7 DEF StartWrites
  <2>2. ASSUME NEW t \in Session PROVE Winding(t)'
    <3>a. Winding(t) /\ Stage(t) /\ Winding(s)
      BY <1>a
    <3>1. CASE t = s
      BY <1>a, <1>b, <1>7, <3>a, <3>1 DEF StartWrites, Winding, Stage
    <3>2. CASE t # s
      BY <1>a, <1>b, <1>7, <3>a, <3>2 DEF StartWrites, Winding, Stage
    <3> QED
      BY <3>1, <3>2
  <2> QED
    BY <2>1, <2>2
<1>8. ASSUME NEW s \in Session, StartClosesOutput(s)
      PROVE  WindInv'
  <2>1. OneTarget'
    BY <1>a, <1>b, <1>8 DEF StartClosesOutput
  <2>2. ASSUME NEW t \in Session PROVE Winding(t)'
    <3>a. Winding(t) /\ Stage(t) /\ Winding(s)
      BY <1>a
    <3>1. CASE t = s
      BY <1>a, <1>b, <1>8, <3>a, <3>1 DEF StartClosesOutput, Winding, Stage
    <3>2. CASE t # s
      BY <1>a, <1>b, <1>8, <3>a, <3>2 DEF StartClosesOutput, Winding, Stage
    <3> QED
      BY <3>1, <3>2
  <2> QED
    BY <2>1, <2>2
<1>9. ASSUME NEW s \in Session, RunReturn(s)
      PROVE  WindInv'
  <2>1. OneTarget'
    BY <1>a, <1>b, <1>9 DEF RunReturn
  <2>2. ASSUME NEW t \in Session PROVE Winding(t)'
    <3>a. Winding(t) /\ Stage(t) /\ Winding(s)
      BY <1>a
    <3>1. CASE t = s
      BY <1>a, <1>b, <1>9, <3>a, <3>1 DEF RunReturn, Winding, Stage
    <3>2. CASE t # s
      BY <1>a, <1>b, <1>9, <3>a, <3>2 DEF RunReturn, Winding, Stage
    <3> QED
      BY <3>1, <3>2
  <2> QED
    BY <2>1, <2>2
<1>10. ASSUME NEW s \in Session, RunRemove(s)
      PROVE  WindInv'
  <2>1. OneTarget'
    BY <1>a, <1>b, <1>10 DEF RunRemove
  <2>2. ASSUME NEW t \in Session PROVE Winding(t)'
    <3>a. Winding(t) /\ Stage(t) /\ Winding(s)
      BY <1>a
    <3>1. CASE t = s
      BY <1>a, <1>b, <1>10, <3>a, <3>1 DEF RunRemove, Winding, Stage
    <3>2. CASE t # s
      BY <1>a, <1>b, <1>10, <3>a, <3>2 DEF RunRemove, Winding, Stage
    <3> QED
      BY <3>1, <3>2
  <2> QED
    BY <2>1, <2>2
<1>11. ASSUME NEW s \in Session, RunPublish(s)
      PROVE  WindInv'
  <2>1. OneTarget'
    BY <1>a, <1>b, <1>11 DEF RunPublish
  <2>2. ASSUME NEW t \in Session PROVE Winding(t)'
    <3>a. Winding(t) /\ Stage(t) /\ Winding(s)
      BY <1>a
    <3>1. CASE t = s
      BY <1>a, <1>b, <1>11, <3>a, <3>1 DEF RunPublish, Winding, Stage
    <3>2. CASE t # s
      BY <1>a, <1>b, <1>11, <3>a, <3>2 DEF RunPublish, Winding, Stage
    <3> QED
      BY <3>1, <3>2
  <2> QED
    BY <2>1, <2>2
<1>12. ASSUME NEW s \in Session, RunPipes(s)
      PROVE  WindInv'
  <2>1. OneTarget'
    BY <1>a, <1>b, <1>12 DEF RunPipes
  <2>2. ASSUME NEW t \in Session PROVE Winding(t)'
    <3>a. Winding(t) /\ Stage(t) /\ Winding(s)
      BY <1>a
    <3>1. CASE t = s
      BY <1>a, <1>b, <1>12, <3>a, <3>1 DEF RunPipes, Winding, Stage
    <3>2. CASE t # s
      BY <1>a, <1>b, <1>12, <3>a, <3>2 DEF RunPipes, Winding, Stage
    <3> QED
      BY <3>1, <3>2
  <2> QED
    BY <2>1, <2>2
<1>13. ASSUME NEW s \in Session, RunDone(s)
      PROVE  WindInv'
  <2>1. OneTarget'
    BY <1>a, <1>b, <1>13 DEF RunDone
  <2>2. ASSUME NEW t \in Session PROVE Winding(t)'
    <3>a. Winding(t) /\ Stage(t) /\ Winding(s)
      BY <1>a
    <3>1. CASE t = s
      BY <1>a, <1>b, <1>13, <3>a, <3>1 DEF RunDone, Winding, Stage
    <3>2. CASE t # s
      BY <1>a, <1>b, <1>13, <3>a, <3>2 DEF RunDone, Winding, Stage
    <3> QED
      BY <3>1, <3>2
  <2> QED
    BY <2>1, <2>2
<1>14. ASSUME NEW s \in Session, FanRead(s)
      PROVE  WindInv'
  <2>1. OneTarget'
    BY <1>a, <1>b, <1>14 DEF FanRead
  <2>2. ASSUME NEW t \in Session PROVE Winding(t)'
    <3>a. Winding(t) /\ Stage(t) /\ Winding(s)
      BY <1>a
    <3>1. CASE t = s
      BY <1>a, <1>b, <1>14, <3>a, <3>1 DEF FanRead, Winding, Stage
    <3>2. CASE t # s
      BY <1>a, <1>b, <1>14, <3>a, <3>2 DEF FanRead, Winding, Stage
    <3> QED
      BY <3>1, <3>2
  <2> QED
    BY <2>1, <2>2
<1>15. ASSUME NEW s \in Session, FanSnapshot(s)
      PROVE  WindInv'
  <2>1. OneTarget'
    BY <1>a, <1>b, <1>15 DEF FanSnapshot
  <2>2. ASSUME NEW t \in Session PROVE Winding(t)'
    <3>a. Winding(t) /\ Stage(t) /\ Winding(s)
      BY <1>a
    <3>1. CASE t = s
      BY <1>a, <1>b, <1>15, <3>a, <3>1 DEF FanSnapshot, Winding, Stage
    <3>2. CASE t # s
      BY <1>a, <1>b, <1>15, <3>a, <3>2 DEF FanSnapshot, Winding, Stage
    <3> QED
      BY <3>1, <3>2
  <2> QED
    BY <2>1, <2>2
<1>16. ASSUME NEW s \in Session, FanNext(s)
      PROVE  WindInv'
  <2>1. OneTarget'
    BY <1>a, <1>b, <1>16 DEF FanNext
  <2>2. ASSUME NEW t \in Session PROVE Winding(t)'
    <3>a. Winding(t) /\ Stage(t) /\ Winding(s)
      BY <1>a
    <3>1. CASE t = s
      BY <1>a, <1>b, <1>16, <3>a, <3>1 DEF FanNext, Winding, Stage
    <3>2. CASE t # s
      BY <1>a, <1>b, <1>16, <3>a, <3>2 DEF FanNext, Winding, Stage
    <3> QED
      BY <3>1, <3>2
  <2> QED
    BY <2>1, <2>2
<1>17. ASSUME NEW s \in Session, FanEOF(s)
      PROVE  WindInv'
  <2>1. OneTarget'
    BY <1>a, <1>b, <1>17 DEF FanEOF
  <2>2. ASSUME NEW t \in Session PROVE Winding(t)'
    <3>a. Winding(t) /\ Stage(t) /\ Winding(s)
      BY <1>a
    <3>1. CASE t = s
      BY <1>a, <1>b, <1>17, <3>a, <3>1 DEF FanEOF, Winding, Stage
    <3>2. CASE t # s
      BY <1>a, <1>b, <1>17, <3>a, <3>2 DEF FanEOF, Winding, Stage
    <3> QED
      BY <3>1, <3>2
  <2> QED
    BY <2>1, <2>2
<1>18. ASSUME NEW s \in Session, FanEnd(s)
      PROVE  WindInv'
  <2>1. OneTarget'
    BY <1>a, <1>b, <1>18 DEF FanEnd
  <2>2. ASSUME NEW t \in Session PROVE Winding(t)'
    <3>a. Winding(t) /\ Stage(t) /\ Winding(s)
      BY <1>a
    <3>1. CASE t = s
      BY <1>a, <1>b, <1>18, <3>a, <3>1 DEF FanEnd, Winding, Stage
    <3>2. CASE t # s
      BY <1>a, <1>b, <1>18, <3>a, <3>2 DEF FanEnd, Winding, Stage
    <3> QED
      BY <3>1, <3>2
  <2> QED
    BY <2>1, <2>2
<1>19. ASSUME NEW s \in Session, NEW u \in Sub, FanLock(s, u)
      PROVE  WindInv'
  <2>1. OneTarget'
    BY <1>a, <1>b, <1>19 DEF FanLock
  <2>2. ASSUME NEW t \in Session PROVE Winding(t)'
    <3>a. Winding(t) /\ Stage(t) /\ Winding(s)
      BY <1>a
    <3>1. CASE t = s
      BY <1>a, <1>b, <1>19, <3>a, <3>1 DEF FanLock, Winding, Stage
    <3>2. CASE t # s
      BY <1>a, <1>b, <1>19, <3>a, <3>2 DEF FanLock, Winding, Stage
    <3> QED
      BY <3>1, <3>2
  <2> QED
    BY <2>1, <2>2
<1>20. ASSUME NEW s \in Session, NEW u \in Sub, FanSend(s, u)
      PROVE  WindInv'
  <2>1. OneTarget'
    BY <1>a, <1>b, <1>20 DEF FanSend
  <2>2. ASSUME NEW t \in Session PROVE Winding(t)'
    <3>a. Winding(t) /\ Stage(t) /\ Winding(s)
      BY <1>a
    <3>1. CASE t = s
      BY <1>a, <1>b, <1>20, <3>a, <3>1 DEF FanSend, Winding, Stage
    <3>2. CASE t # s
      BY <1>a, <1>b, <1>20, <3>a, <3>2 DEF FanSend, Winding, Stage
    <3> QED
      BY <3>1, <3>2
  <2> QED
    BY <2>1, <2>2
<1>21. ASSUME NEW u \in Sub, NEW s \in Session, SubGet(u, s)
      PROVE  WindInv'
  <2>1. OneTarget'
    BY <1>a, <1>b, <1>21 DEF SubGet
  <2>2. ASSUME NEW t \in Session PROVE Winding(t)'
    <3>a. Winding(t) /\ Stage(t) /\ Winding(s)
      BY <1>a
    <3>1. CASE t = s
      BY <1>a, <1>b, <1>21, <3>a, <3>1 DEF SubGet, Winding, Stage
    <3>2. CASE t # s
      BY <1>a, <1>b, <1>21, <3>a, <3>2 DEF SubGet, Winding, Stage
    <3> QED
      BY <3>1, <3>2
  <2> QED
    BY <2>1, <2>2
<1>22. ASSUME NEW u \in Sub, NEW s \in Session, SubAppend(u, s)
      PROVE  WindInv'
  <2>1. OneTarget'
    BY <1>a, <1>b, <1>22 DEF SubAppend
  <2>2. ASSUME NEW t \in Session PROVE Winding(t)'
    <3>a. Winding(t) /\ Stage(t) /\ Winding(s)
      BY <1>a
    <3>1. CASE t = s
      BY <1>a, <1>b, <1>22, <3>a, <3>1 DEF SubAppend, Winding, Stage
    <3>2. CASE t # s
      BY <1>a, <1>b, <1>22, <3>a, <3>2 DEF SubAppend, Winding, Stage
    <3> QED
      BY <3>1, <3>2
  <2> QED
    BY <2>1, <2>2
<1>23. ASSUME NEW u \in Sub, SubClose(u)
      PROVE  WindInv'
  <2>1. OneTarget'
    BY <1>a, <1>b, <1>23 DEF SubClose, CloseSub
  <2>2. ASSUME NEW t \in Session PROVE Winding(t)'
    <3>a. Winding(t) /\ Stage(t)
      BY <1>a
    <3> QED
      BY <1>a, <1>b, <1>23, <3>a DEF SubClose, CloseSub, Winding
  <2> QED
    BY <2>1, <2>2
<1>24. ASSUME NEW u \in Sub, NEW s \in Session, SubWake(u, s)
      PROVE  WindInv'
  <2>1. OneTarget'
    BY <1>a, <1>b, <1>24 DEF SubWake
  <2>2. ASSUME NEW t \in Session PROVE Winding(t)'
    <3>a. Winding(t) /\ Stage(t) /\ Winding(s)
      BY <1>a
    <3>1. CASE t = s
      BY <1>a, <1>b, <1>24, <3>a, <3>1 DEF SubWake, Winding, Stage
    <3>2. CASE t # s
      BY <1>a, <1>b, <1>24, <3>a, <3>2 DEF SubWake, Winding, Stage
    <3> QED
      BY <3>1, <3>2
  <2> QED
    BY <2>1, <2>2
<1>25. ASSUME NEW c \in Caller, NEW s \in Session, CloseGet(c, s)
      PROVE  WindInv'
  <2>1. OneTarget'
    BY <1>a, <1>b, <1>25 DEF CloseGet
  <2>2. ASSUME NEW t \in Session PROVE Winding(t)'
    <3>a. Winding(t) /\ Stage(t) /\ Winding(s)
      BY <1>a
    <3>1. CASE t = s
      BY <1>a, <1>b, <1>25, <3>a, <3>1 DEF CloseGet, Winding, Stage
    <3>2. CASE t # s
      BY <1>a, <1>b, <1>25, <3>a, <3>2 DEF CloseGet, Winding, Stage
    <3> QED
      BY <3>1, <3>2
  <2> QED
    BY <2>1, <2>2
<1>26. ASSUME NEW c \in Caller, NEW s \in Session, CloseAlready(c, s)
      PROVE  WindInv'
  <2>1. OneTarget'
    BY <1>a, <1>b, <1>26 DEF CloseAlready
  <2>2. ASSUME NEW t \in Session PROVE Winding(t)'
    <3>a. Winding(t) /\ Stage(t) /\ Winding(s)
      BY <1>a
    <3>1. CASE t = s
      BY <1>a, <1>b, <1>26, <3>a, <3>1 DEF CloseAlready, Winding, Stage
    <3>2. CASE t # s
      BY <1>a, <1>b, <1>26, <3>a, <3>2 DEF CloseAlready, Winding, Stage
    <3> QED
      BY <3>1, <3>2
  <2> QED
    BY <2>1, <2>2
<1>27. ASSUME NEW c \in Caller, NEW s \in Session, CloseBegin(c, s)
      PROVE  WindInv'
  <2>1. OneTarget'
    BY <1>a, <1>b, <1>27 DEF CloseBegin
  <2>2. ASSUME NEW t \in Session PROVE Winding(t)'
    <3>a. Winding(t) /\ Stage(t) /\ Winding(s)
      BY <1>a
    <3>1. CASE t = s
      BY <1>a, <1>b, <1>27, <3>a, <3>1 DEF CloseBegin, Winding, Stage
    <3>2. CASE t # s
      BY <1>a, <1>b, <1>27, <3>a, <3>2 DEF CloseBegin, Winding, Stage
    <3> QED
      BY <3>1, <3>2
  <2> QED
    BY <2>1, <2>2
<1>28. ASSUME NEW c \in Caller, NEW s \in Session, CloseDone(c, s)
      PROVE  WindInv'
  <2>1. OneTarget'
    BY <1>a, <1>b, <1>28 DEF CloseDone
  <2>2. ASSUME NEW t \in Session PROVE Winding(t)'
    <3>a. Winding(t) /\ Stage(t) /\ Winding(s)
      BY <1>a
    <3>1. CASE t = s
      BY <1>a, <1>b, <1>28, <3>a, <3>1 DEF CloseDone, Done, Winding, Stage
    <3>2. CASE t # s
      BY <1>a, <1>b, <1>28, <3>a, <3>2 DEF CloseDone, Done, Winding, Stage
    <3> QED
      BY <3>1, <3>2
  <2> QED
    BY <2>1, <2>2
<1>29. ASSUME NEW c \in Caller, CloseGiveUp(c)
      PROVE  WindInv'
  <2>1. OneTarget'
    BY <1>a, <1>b, <1>29 DEF CloseGiveUp
  <2>2. ASSUME NEW t \in Session PROVE Winding(t)'
    <3>a. Winding(t) /\ Stage(t)
      BY <1>a
    <3> QED
      BY <1>a, <1>b, <1>29, <3>a DEF CloseGiveUp, Winding
  <2> QED
    BY <2>1, <2>2
<1>30. CASE UNCHANGED vars
  BY <1>s, <1>30 DEF vars
<1> QED
  BY <1>1, <1>2, <1>3, <1>4, <1>5, <1>6, <1>7, <1>8, <1>9, <1>10, <1>11, <1>12, <1>13, <1>14, <1>15, <1>16, <1>17,
     <1>18, <1>19, <1>20, <1>21, <1>22, <1>23, <1>24, <1>25, <1>26, <1>27, <1>28, <1>29, <1>30
  DEF Next, Open, Start, Run, FanOut, Subscribe, Watch, CloseSession, CloseAll

(* The ways in which the goroutines of a session wait for each other never    *)
(* close a circle: a chunk in the pipe has fanOut to read it; fanOut holds a   *)
(* subscriber's lock only for a select that does not wait; a caller waits only *)
(* for a session that is cancelled; and when the run goroutine is done, the    *)
(* pipe is closed and empty, so that fanOut comes to its end.                 *)
NobodyStranded ==
  /\ \A s \in pipe : fanPc[s] \in {"read", "snapshot", "pick", "send"}
  /\ \A s \in Session : fanCur[s] # {} => fanPc[s] = "send"
  /\ \A c \in Caller : closePc[c] = "wait" => closing[c] \subseteq cancelled
  /\ \A s \in Session : Done(s) => s \in outClosed /\ s \notin pipe

(* No subscriber stays on a session's list once its goroutine has let go, and *)
(* a goroutine that is gone has closed its channel.                          *)
NobodyLeaked ==
  /\ \A s \in Session : \A u \in subs[s] : subPc[u] = "watch"
  /\ \A u \in Sub : subPc[u] = "gone" => u \in chClosed

(* What safety has to say of ClosedSessionsEnd and SubscriptionsEnd.           *)
THEOREM SessionsStrandNobody == Spec => [](NobodyStranded /\ NobodyLeaked)
<1>1. SessionsInv /\ WindInv => NobodyStranded /\ NobodyLeaked
  <2> SUFFICES ASSUME SessionsInv, WindInv PROVE NobodyStranded /\ NobodyLeaked
    OBVIOUS
  <2>1. TypeOK /\ OneTarget /\ \A s \in Session : Winding(s)
    BY DEF SessionsInv, WindInv
  <2>2. ASSUME NEW s \in pipe
        PROVE  fanPc[s] \in {"read", "snapshot", "pick", "send"}
    <3>1. s \in Session /\ fanPc[s] \in {"none", "read", "snapshot", "pick", "send", "close", "ended"}
      BY <2>1 DEF TypeOK
    <3> QED
      BY <2>1, <3>1 DEF Winding
  <2>3. ASSUME NEW c \in Caller, closePc[c] = "wait"
        PROVE  closing[c] \subseteq cancelled
    BY <2>1, <2>3 DEF TypeOK, Winding
  <2>4. NobodyStranded
    BY <2>1, <2>2, <2>3 DEF NobodyStranded, Winding, Done
  <2>5. NobodyLeaked
    BY <2>1 DEF NobodyLeaked, OneTarget, Winding
  <2> QED
    BY <2>4, <2>5
<1> QED
  BY <1>1, WindInit, WindStep, SessionsInvariant, PTL DEF Spec
=============================================================================
