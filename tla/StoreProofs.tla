---------------------------- MODULE StoreProofs ----------------------------
(***************************************************************************)
(* What the store guarantees however Saves, Backups, Restores and crashes  *)
(* follow one another: readers see the files of one Save, and what a       *)
(* Restore replaced can be had back.  For any number of goroutines that    *)
(* take backups, any retention, and any number of Saves, archives and      *)
(* seconds.                                                                *)
(***************************************************************************)
EXTENDS Store, FiniteSetTheorems, WellFoundedInduction, TLAPS

(* Who holds Store.mu, and what that keeps from running; a Save and a Backup   *)
(* have made the directory.                                                  *)
LockInv ==
  /\ writer = "save" <=> savePc # Idle
  /\ writer = "restore" <=> restPc # "idle"
  /\ \A b \in Backuper : zipPc[b] # "idle" => writer = "none"
  /\ zipPc["restore"] # "idle" <=> restPc = "backup"
  /\ savePc # Idle \/ (\E b \in Zipper : zipPc[b] # "idle") => store.there

(* A content is of Saves up to v.  A directory that no Save is writing and a   *)
(* complete archive hold the files of one Save; c are those cut short.         *)
UpTo(v, file) == \A f \in File : file[f] <= v
Whole(c, file) ==
  \/ \A f \in File : file[f] = file["inventory"]
  \/ file["inventory"] \in c /\ \A f \in File : file[f] <= file["inventory"]
SoundFile(v, c, file) == UpTo(v, file) /\ Whole(c, file)
SoundArchive(v, c, a) == UpTo(v, a.file) /\ (a.done => Whole(c, a.file))
SoundArchives(v, c, A) == \A a \in A : SoundArchive(v, c, a)

(* The running Save has written the first savePc of its files.               *)
SaveInv ==
  /\ UpTo(ver, store.file)
  /\ savePc \in {0, Idle} => Whole(cut, store.file)
  /\ savePc \in 1 .. 4 => \A i \in 1 .. savePc : store.file[Files[i]] = ver
  /\ savePc # Idle => ver > 0

ContentInv ==
  /\ SoundArchives(ver, cut, store.archives)
  /\ \A t \in Second : SoundFile(ver, cut, old[t].file) /\ SoundArchives(ver, cut, old[t].archives)
  /\ SoundFile(ver, cut, extracted)
  /\ SoundArchive(ver, cut, want)
  /\ restPc = "extract" => want.done

ReadInv == LockInv /\ SaveInv /\ ContentInv

(* Archives are finitely many, each with a name of its own, and numbered up   *)
(* to the last one made.                                                     *)
Numbered(z, A) ==
  /\ IsFiniteSet(A)
  /\ \A a, o \in A : a.name = o.name => a = o
  /\ \A a \in A : a.no <= z

Newer(A, s) == {o \in A : o.no > s.no}

(* The newest archive of A is complete and has this content.                 *)
Newest(A, content) == \E s \in A : s.done /\ s.file = content /\ Newer(A, s) = {}

(* No archive under way has the name of s, and those already created are      *)
(* newer than s.                                                             *)
Apart(A, pc, name, s) ==
  \A b \in Zipper :
    /\ pc[b] \in {"named", "writing"} => name[b] # s.name
    /\ pc[b] = "writing" => \A o \in A : o.name = name[b] => o.no > s.no

(* The safety backup is among the archives, and what is newer was made later. *)
Safe(A, pc, name, later, content, s) ==
  /\ s.done /\ s.file = content
  /\ Cardinality(Newer(A, s)) <= later
  /\ Apart(A, pc, name, s)

(* The steps of a Restore: the safety backup is the newest archive, the store *)
(* is renamed with it, and the archives come back.                           *)
RestoreInv ==
  /\ restPc \in {"backup", "open", "extract", "rename"} => before = store.file /\ store.there
  /\ restPc = "backup" /\ zipPc["restore"] = "writing" =>
       zips > 0 /\ \E a \in store.archives : a.name = zipName["restore"] /\ a.no = zips
  /\ restPc \in {"open", "extract", "rename"} \/ (restPc = "backup" /\ zipPc["restore"] = "prune") =>
       zips > 0 /\ Newest(store.archives, before)
  /\ restPc \in {"rename", "swap"} => extracted = want.file
  /\ restPc \in {"swap", "move", "clean"} => base.file = before /\ base.zips = zips /\ zips > 0
  /\ restPc \in {"swap", "move"} =>
       /\ old[restTime].there /\ old[restTime].file = before /\ Newest(old[restTime].archives, before)
  /\ restPc \in {"move", "clean"} => store.file = want.file /\ store.there
  /\ restPc = "clean" => Newest(store.archives, before)

(* The files the last Restore replaced.                                      *)
BaseInv ==
  /\ base.zips <= zips
  /\ base.zips > 0 /\ zips - base.zips < Retention /\ ~base.swept =>
       \/ \E t \in Second : old[t].there /\ old[t].file = base.file
       \/ \E s \in store.archives :
            Safe(store.archives, zipPc, zipName, zips - base.zips, base.file, s)

RollInv ==
  /\ Numbered(zips, store.archives) /\ \A t \in Second : Numbered(zips, old[t].archives)
  /\ RestoreInv /\ BaseInv

StoreInv == TypeOK /\ ReadInv /\ RollInv

-----------------------------------------------------------------------------
(* Sets, directories and archives                                           *)

(* A set of naturals with an upper bound has a greatest element.             *)
LEMMA MaxExists ==
  ASSUME NEW S, S \subseteq Nat, S # {}, NEW n \in Nat, \A x \in S : x <= n
  PROVE  \E m \in S : \A x \in S : x <= m
<1> DEFINE U == {m \in Nat : \A x \in S : x <= m}
<1>1. U \subseteq Nat /\ n \in U
  OBVIOUS
<1>2. PICK m \in U : \A y \in U : ~(<<y, m>> \in OpToRel(<, Nat))
  BY <1>1, NatLessThanWellFounded, WFMin
<1>3. \A y \in U : ~(y < m)
  BY <1>2 DEF OpToRel
<1>4. m \in S
  <2> SUFFICES ASSUME m \notin S PROVE FALSE
    OBVIOUS
  <2>1. \A x \in S : x < m
    OBVIOUS
  <2>2. m > 0
    <3>1. PICK x \in S : x \in Nat
      OBVIOUS
    <3> QED
      BY <2>1, <3>1
  <2>3. m - 1 \in U
    BY <2>1, <2>2
  <2> QED
    BY <1>3, <2>3
<1> QED
  BY <1>4

LEMMA MaxIsGreatest ==
  ASSUME NEW S, S \subseteq Nat, S # {}, NEW n \in Nat, \A x \in S : x <= n
  PROVE  Max(S) \in S /\ \A x \in S : x <= Max(S)
<1>1. \E m \in S : \A x \in S : m >= x
  BY MaxExists
<1> QED
  BY <1>1 DEF Max

(* A set of naturals has a least element.                                    *)
LEMMA MinExists ==
  ASSUME NEW S, S \subseteq Nat, S # {}
  PROVE  \E m \in S : \A x \in S : m <= x
<1>1. PICK m \in S : \A y \in S : ~(<<y, m>> \in OpToRel(<, Nat))
  BY NatLessThanWellFounded, WFMin
<1>2. \A y \in S : ~(y < m)
  BY <1>1 DEF OpToRel
<1> QED
  BY <1>2

(* backupLocked finds a name: of Cardinality(archives) + 1 candidates one is   *)
(* free.                                                                     *)
LEMMA FreeNameIsFree ==
  ASSUME NEW d, IsFiniteSet(d.archives), time \in Nat
  PROVE  FreeName(d) \notin Names(d) /\ FreeName(d) \in {time} \X Nat
<1> DEFINE n == Cardinality(d.archives)
           Free == {i \in 0 .. n : <<time, i>> \notin Names(d)}
<1>1. n \in Nat
  BY FS_CardinalityType
<1>2. IsFiniteSet(Names(d)) /\ Cardinality(Names(d)) <= n
  <2> DEFINE f == [a \in d.archives |-> a.name]
  <2>1. f \in Surjection(d.archives, Names(d))
    BY DEF Names, Surjection
  <2> QED
    BY <2>1, FS_Surjection
<1>3. Free # {}
  <2> SUFFICES ASSUME \A i \in 0 .. n : <<time, i>> \in Names(d) PROVE FALSE
    OBVIOUS
  <2> DEFINE g == [i \in 0 .. n |-> <<time, i>>]
  <2>1. g \in Injection(0 .. n, Names(d))
    BY DEF Injection, IsInjective
  <2>2. Cardinality(0 .. n) <= Cardinality(Names(d))
    BY <1>2, <2>1, FS_Injection
  <2>3. Cardinality(0 .. n) = n + 1
    <3>1. 0 \in Int /\ n \in Int /\ 0 <= n
      BY <1>1
    <3>2. Cardinality(0 .. n) = IF 0 > n THEN 0 ELSE n - 0 + 1
      BY <3>1, FS_Interval
    <3> QED
      BY <3>1, <3>2
  <2>4. Cardinality(Names(d)) \in Nat
    BY <1>2, FS_CardinalityType
  <2> HIDE DEF n
  <2> QED
    BY <1>1, <1>2, <2>2, <2>3, <2>4
<1>4. PICK i \in Free : \A j \in Free : i <= j
  <2>1. Free \subseteq Nat
    BY <1>1
  <2> HIDE DEF Free
  <2> QED
    BY <1>3, <2>1, MinExists
<1>5. \E k \in 0 .. n : <<time, k>> \notin Names(d) /\ \A j \in 0 .. k - 1 : <<time, j>> \in Names(d)
  BY <1>1, <1>4
<1> QED
  BY <1>1, <1>5 DEF FreeName

(* A directory of the three parts is one.                                     *)
LEMMA DirParts ==
  ASSUME NEW d, IsDir(d)
  PROVE  /\ d.there \in BOOLEAN /\ d.file \in Content /\ d.archives \subseteq Archive
         /\ d.there \/ (d.file = NoFiles /\ d.archives = {})
         /\ d = [there |-> d.there, file |-> d.file, archives |-> d.archives]
  BY DEF IsDir

LEMMA PartsDir ==
  ASSUME NEW there \in BOOLEAN, NEW file \in Content, NEW archives \in SUBSET Archive,
         there \/ (file = NoFiles /\ archives = {})
  PROVE  IsDir([there |-> there, file |-> file, archives |-> archives])
  BY DEF IsDir

(* No file is there in the beginning.                                         *)
LEMMA EmptyDirs == NoFiles \in Content /\ IsDir(NoDir) /\ IsDir(EmptyDir)
<1>1. NoFiles \in Content
  BY StoreAssumption DEF NoFiles, Content
<1> QED
  BY <1>1 DEF NoDir, EmptyDir, IsDir

LEMMA NoArchiveTyped == NoArchive \in Archive /\ NoName \in (0 .. MaxTime) \X Nat
<1>1. NoName \in (0 .. MaxTime) \X Nat
  BY StoreAssumption DEF NoName
<1> QED
  BY <1>1, EmptyDirs, StoreAssumption DEF NoArchive, Archive

(* MkdirAll.                                                                 *)
LEMMA MadeParts ==
  ASSUME NEW d, IsDir(d)
  PROVE  IsDir(Made(d)) /\ Made(d).there /\ Made(d).file = d.file /\ Made(d).archives = d.archives
  BY EmptyDirs DEF Made, EmptyDir, IsDir

(* An archive is removed, created or rewritten.                               *)
LEMMA ArchiveParts ==
  ASSUME NEW a \in Archive
  PROVE  /\ a.name \in (0 .. MaxTime) \X Nat /\ a.no \in 0 .. MaxZips /\ a.no \in Nat
         /\ a.file \in Content /\ a.done \in BOOLEAN
         /\ a = [name |-> a.name, no |-> a.no, file |-> a.file, done |-> a.done]
  BY StoreAssumption DEF Archive

LEMMA WithoutParts ==
  ASSUME NEW d, IsDir(d), NEW name
  PROVE  /\ IsDir(Without(d, name)) /\ Without(d, name).there = d.there
         /\ Without(d, name).file = d.file
         /\ Without(d, name).archives = {a \in d.archives : a.name # name}
  BY DEF Without, IsDir

(* What the number of an archive becomes when the archive called name is       *)
(* written to.                                                                *)
NewNo(A, name, a) ==
  IF a.name = name THEN Max({o.no : o \in A})
                   ELSE a.no - Cardinality({o \in A : o.name = name /\ o.no < a.no})

LEMMA NewNoIs ==
  ASSUME NEW d, IsDir(d), Numbered(zips, d.archives), NEW name, NEW a \in d.archives, zips \in Nat
  PROVE  /\ NewNo(d.archives, name, a) \in 0 .. zips
         /\ a.name # name => NewNo(d.archives, name, a) <= a.no
         /\ a.name = name => \A o \in d.archives : o.no <= NewNo(d.archives, name, a)
         /\ \A t \in d.archives : t.name = name /\ a.name # name =>
              NewNo(d.archives, name, a) = IF t.no < a.no THEN a.no - 1 ELSE a.no
         /\ (\A t \in d.archives : t.name # name) => NewNo(d.archives, name, a) = a.no
<1> DEFINE A == d.archives
           C == {o \in A : o.name = name /\ o.no < a.no}
<1>1. \A o \in A : o.no \in Nat /\ o.no <= zips
  BY DirParts, ArchiveParts DEF Numbered
<1>2. CASE a.name = name
  <2> DEFINE N == {o.no : o \in A}
  <2>1. N \subseteq Nat /\ N # {} /\ \A x \in N : x <= zips
    BY <1>1
  <2>2. Max(N) \in N /\ \A x \in N : x <= Max(N)
    <3> HIDE DEF N
    <3> QED
      BY <2>1, MaxIsGreatest
  <2>3. NewNo(A, name, a) = Max(N)
    BY <1>2 DEF NewNo
  <2>4. Max(N) \in 0 .. zips /\ \A o \in A : o.no <= Max(N)
    BY <1>1, <2>2
  <2> HIDE DEF N
  <2> QED
    BY <1>2, <2>3, <2>4
<1>3. CASE a.name # name
  <2>1. NewNo(A, name, a) = a.no - Cardinality(C)
    BY <1>3 DEF NewNo
  <2>2. CASE C = {}
    <3>1. NewNo(A, name, a) = a.no
      <4>1. Cardinality(C) = 0
        BY <2>2, FS_EmptySet
      <4> HIDE DEF C
      <4> QED
        BY <1>1, <2>1, <4>1
    <3>2. \A t \in A : t.name = name => ~(t.no < a.no)
      BY <2>2
    <3> QED
      BY <1>1, <1>3, <3>1, <3>2
  <2>3. CASE C # {}
    <3>1. PICK t \in C : TRUE
      BY <2>3
    <3>2. C = {t} /\ \A o \in A : o.name = name => o = t
      BY <3>1 DEF Numbered
    <3>3. Cardinality(C) = 1
      BY <3>2, FS_Singleton
    <3>4. t.no \in Nat /\ a.no \in Nat /\ t.no < a.no /\ a.no <= zips /\ t \in A /\ t.name = name
      BY <1>1, <3>1
    <3> HIDE DEF C
    <3>5. NewNo(A, name, a) = a.no - 1 /\ a.no - 1 \in 0 .. zips
      BY <2>1, <3>3, <3>4
    <3> QED
      BY <1>3, <3>2, <3>4, <3>5
  <2> QED
    BY <2>2, <2>3
<1> QED
  BY <1>2, <1>3

(* The archives after backupLocked has written its own.                       *)
Rewritten(b, a) ==
  [name |-> a.name, no |-> NewNo(store.archives, zipName[b], a),
   file |-> IF a.name = zipName[b] THEN store.file ELSE a.file,
   done |-> IF a.name = zipName[b] THEN Alone(b) ELSE a.done]

LEMMA WrittenArchives ==
  ASSUME TypeOK, NEW b \in Zipper, ZipWrite(b)
  PROVE  /\ store'.there = store.there /\ store'.file = store.file
         /\ store'.archives = {Rewritten(b, a) : a \in store.archives}
         /\ store' = [there |-> store.there, file |-> store.file, archives |-> store'.archives]
<1> DEFINE A == store.archives
           n == zipName[b]
           renum(a) == [a EXCEPT !.no = NewNo(A, n, a)]
           put(a) == IF a.name = n THEN [a EXCEPT !.file = store.file, !.done = Alone(b)] ELSE a
<1>1. IsDir(store) /\ A \subseteq Archive
  BY DirParts DEF TypeOK
<1>2. Touched(A, n) = {renum(a) : a \in A}
  BY DEF Touched, NewNo
<1>3. \A a \in A : put(renum(a)) = Rewritten(b, a)
  <2> SUFFICES ASSUME NEW a \in A PROVE put(renum(a)) = Rewritten(b, a)
    OBVIOUS
  <2>1. a = [name |-> a.name, no |-> a.no, file |-> a.file, done |-> a.done]
    BY <1>1, ArchiveParts
  <2>2. renum(a) = [name |-> a.name, no |-> NewNo(A, n, a), file |-> a.file, done |-> a.done]
    BY <2>1
  <2> QED
    BY <2>2 DEF Rewritten
<1>4. store' = [store EXCEPT !.archives = {put(a) : a \in Touched(A, n)}]
  BY DEF ZipWrite
<1> HIDE DEF put, renum
<1>5. {put(a) : a \in Touched(A, n)} = {Rewritten(b, a) : a \in A}
  BY <1>2, <1>3
<1> DEFINE W == {Rewritten(b, a) : a \in A}
<1>6. store' = [store EXCEPT !.archives = W]
  BY <1>4, <1>5
<1>7. store \in [there : BOOLEAN, file : Content, archives : SUBSET Archive]
  BY <1>1 DEF IsDir
<1>8. W = {Rewritten(b, a) : a \in store.archives}
  OBVIOUS
<1> HIDE DEF W
<1>9. /\ store'.there = store.there /\ store'.file = store.file /\ store'.archives = W
      /\ store' = [there |-> store.there, file |-> store.file, archives |-> W]
  BY <1>6, <1>7
<1> QED
  BY <1>8, <1>9

(* What each step of backupLocked does to the store.                          *)
LEMMA CreatedArchives ==
  ASSUME TypeOK, NEW b \in Zipper, ZipCreate(b)
  PROVE  /\ store'.there = store.there /\ store'.file = store.file
         /\ store'.archives =
              {a \in store.archives : a.name # zipName[b]} \cup
                {[name |-> zipName[b], no |-> zips + 1, file |-> NoFiles, done |-> FALSE]}
         /\ store' = [there |-> store.there, file |-> store.file, archives |-> store'.archives]
         /\ zips' = zips + 1 /\ zips < MaxZips
<1> DEFINE new == [name |-> zipName[b], no |-> zips + 1, file |-> NoFiles, done |-> FALSE]
           W == Without(store, zipName[b])
           X == {a \in store.archives : a.name # zipName[b]} \cup {new}
<1>1. IsDir(store) /\ zips' = zips + 1 /\ zips < MaxZips
  BY DEF TypeOK, ZipCreate
<1>2. store' = [W EXCEPT !.archives = @ \cup {new}]
  BY <1>1 DEF ZipCreate
<1>3. IsDir(W) /\ W.there = store.there /\ W.file = store.file
      /\ W.archives = {a \in store.archives : a.name # zipName[b]}
  BY <1>1, WithoutParts
<1>4. W = [there |-> W.there, file |-> W.file, archives |-> W.archives]
  BY <1>3, DirParts
<1> HIDE DEF W, new
<1>5. store' = [there |-> W.there, file |-> W.file, archives |-> X]
  BY <1>2, <1>3, <1>4
<1> HIDE DEF X
<1>6. store' = [there |-> store.there, file |-> store.file, archives |-> X]
  BY <1>3, <1>5
<1>7. store'.there = store.there /\ store'.file = store.file /\ store'.archives = X
  BY <1>6
<1> QED
  BY <1>1, <1>6, <1>7 DEF X, new

LEMMA PrunedArchives ==
  ASSUME TypeOK, NEW b \in Zipper, ZipPrune(b)
  PROVE  /\ store'.there = store.there /\ store'.file = store.file
         /\ store'.archives = Pruned(store.archives) /\ store'.archives \subseteq store.archives
         /\ store' = [there |-> store.there, file |-> store.file, archives |-> store'.archives]
<1>1. store \in [there : BOOLEAN, file : Content, archives : SUBSET Archive]
  BY DEF TypeOK, IsDir
<1>2. store' = [store EXCEPT !.archives = Pruned(store.archives)]
  BY DEF ZipPrune
<1>3. Pruned(store.archives) \subseteq store.archives
  BY DEF Pruned
<1> QED
  BY <1>1, <1>2, <1>3

(* A Save writes one of its files.                                            *)
LEMMA SavedFile ==
  ASSUME TypeOK, SaveFile
  PROVE  /\ savePc \in 0 .. 3 /\ Files[savePc + 1] \in File
         /\ store'.there = store.there /\ store'.archives = store.archives
         /\ store'.file = [store.file EXCEPT ![Files[savePc + 1]] = ver]
         /\ store' = [there |-> store.there, file |-> store'.file, archives |-> store.archives]
<1>1. store \in [there : BOOLEAN, file : Content, archives : SUBSET Archive]
  BY DEF TypeOK, IsDir
<1>2. savePc \in 0 .. 3 /\ store' = [store EXCEPT !.file[Files[savePc + 1]] = ver]
  BY DEF SaveFile
<1>3. Files[savePc + 1] \in File
  <2>1. savePc = 0 \/ savePc = 1 \/ savePc = 2 \/ savePc = 3
    BY <1>2
  <2> QED
    BY <2>1 DEF Files, File
<1>4. store' = [store EXCEPT !.file = [store.file EXCEPT ![Files[savePc + 1]] = ver]]
  BY <1>1, <1>2
<1> QED
  BY <1>1, <1>2, <1>3, <1>4

(* An archive after the step is one of before, renumbered.                    *)
LEMMA RewrittenTyped ==
  ASSUME TypeOK, Numbered(zips, store.archives), NEW b \in Zipper, NEW a \in store.archives
  PROVE  Rewritten(b, a) \in Archive
<1>1. /\ IsDir(store) /\ a \in Archive /\ zips \in Nat /\ zips <= MaxZips /\ store.file \in Content
  BY DirParts, StoreAssumption DEF TypeOK
<1>2. NewNo(store.archives, zipName[b], a) \in 0 .. MaxZips
  <2> DEFINE n == NewNo(store.archives, zipName[b], a)
  <2>1. n \in 0 .. zips
    BY <1>1, NewNoIs
  <2> HIDE DEF n
  <2>2. n \in 0 .. MaxZips
    BY <1>1, <2>1, StoreAssumption
  <2> QED
    BY <2>2 DEF n
<1>3. Alone(b) \in BOOLEAN
  BY DEF Alone
<1>4. a.name \in (0 .. MaxTime) \X Nat /\ a.file \in Content /\ a.done \in BOOLEAN
  BY <1>1, ArchiveParts
<1> DEFINE n == NewNo(store.archives, zipName[b], a)
           f == IF a.name = zipName[b] THEN store.file ELSE a.file
           c == IF a.name = zipName[b] THEN Alone(b) ELSE a.done
<1>5. f \in Content
  BY <1>1, <1>4
<1>6. c \in BOOLEAN
  BY <1>3, <1>4
<1>7. Rewritten(b, a) = [name |-> a.name, no |-> n, file |-> f, done |-> c]
  BY DEF Rewritten
<1> HIDE DEF n, f, c
<1>8. n \in 0 .. MaxZips
  BY <1>2 DEF n
<1> QED
  BY <1>4, <1>5, <1>6, <1>7, <1>8 DEF Archive

(* The store stays a directory or is missing.                                  *)
LEMMA StoreDirStep == StoreInv /\ Next => IsDir(store')
<1> SUFFICES ASSUME StoreInv, Next
             PROVE  IsDir(store')
  OBVIOUS
<1>a. /\ TypeOK /\ LockInv /\ RestoreInv
  BY DEF StoreInv, ReadInv, RollInv
<1>b. IsDir(store)
  BY <1>a DEF TypeOK
<1>1. CASE SaveBegin
  BY <1>1, <1>b, MadeParts DEF SaveBegin
<1>2. CASE SaveFile
  <2>1. store.there
    BY <1>2, <1>a DEF LockInv, SaveFile, Idle
  <2>2. store'.file \in Content
    <3> DEFINE n == Files[savePc + 1]
    <3>1. n \in File /\ store'.file = [store.file EXCEPT ![n] = ver]
      BY <1>2, <1>a, SavedFile
    <3>2. store.file \in Content
      BY <1>b, DirParts
    <3> HIDE DEF n
    <3> QED
      BY <1>a, <3>1, <3>2 DEF TypeOK, Content
  <2>3. store' = [there |-> store.there, file |-> store'.file, archives |-> store.archives]
    BY <1>2, <1>a, SavedFile
  <2>4. store.there \in BOOLEAN /\ store.archives \in SUBSET Archive
    BY <1>b, DirParts
  <2>5. IsDir([there |-> store.there, file |-> store'.file, archives |-> store.archives])
    BY <2>1, <2>2, <2>4, PartsDir
  <2> QED
    BY <2>3, <2>5
<1>3. CASE SaveFailed
  <2>1. store' = store
    BY <1>3 DEF SaveFailed
  <2> QED
    BY <1>b, <2>1
<1>4. CASE SaveReturn
  <2>1. store' = store
    BY <1>4 DEF SaveReturn
  <2> QED
    BY <1>b, <2>1
<1>5. ASSUME NEW b \in Backuper, BackupBegin(b) PROVE IsDir(store')
  BY <1>5, <1>b, MadeParts DEF BackupBegin
<1>6. ASSUME NEW b \in Zipper, ZipCreate(b) PROVE IsDir(store')
  <2>1. store.there
    BY <1>6, <1>a DEF LockInv, ZipCreate
  <2>2. [name |-> zipName[b], no |-> zips + 1, file |-> NoFiles, done |-> FALSE] \in Archive
    <3>1. zipName[b] \in (0 .. MaxTime) \X Nat /\ zips + 1 \in 0 .. MaxZips
      BY <1>6, <1>a, CreatedArchives, StoreAssumption DEF TypeOK
    <3> QED
      BY <3>1, EmptyDirs DEF Archive
  <2>3. store'.archives \in SUBSET Archive
    BY <1>6, <1>a, <1>b, <2>2, CreatedArchives, DirParts
  <2>4. /\ store' = [there |-> store.there, file |-> store.file, archives |-> store'.archives]
        /\ store.there \in BOOLEAN /\ store.file \in Content
    BY <1>6, <1>a, <1>b, CreatedArchives, DirParts
  <2>5. IsDir([there |-> store.there, file |-> store.file, archives |-> store'.archives])
    BY <2>1, <2>3, <2>4, PartsDir
  <2> QED
    BY <2>4, <2>5
<1>7. ASSUME NEW b \in Zipper, ZipWrite(b) PROVE IsDir(store')
  <2>1. store.there
    BY <1>7, <1>a DEF LockInv, ZipWrite
  <2>2. Numbered(zips, store.archives)
    BY DEF StoreInv, RollInv
  <2>3. store'.archives \in SUBSET Archive
    BY <1>7, <1>a, <2>2, WrittenArchives, RewrittenTyped
  <2>4. /\ store' = [there |-> store.there, file |-> store.file, archives |-> store'.archives]
        /\ store.there \in BOOLEAN /\ store.file \in Content
    BY <1>7, <1>a, <1>b, WrittenArchives, DirParts
  <2>5. IsDir([there |-> store.there, file |-> store.file, archives |-> store'.archives])
    BY <2>1, <2>3, <2>4, PartsDir
  <2> QED
    BY <2>4, <2>5
<1>8. ASSUME NEW b \in Zipper, ZipPrune(b) PROVE IsDir(store')
  <2>1. store.there
    BY <1>8, <1>a DEF LockInv, ZipPrune
  <2> QED
    BY <1>8, <1>a, <1>b, <2>1, PrunedArchives, DirParts, PartsDir
<1>9. ASSUME NEW b \in Zipper, ZipFailed(b) PROVE IsDir(store')
  <2>1. store' = store \/ store' = Without(store, zipName[b])
    BY <1>9 DEF ZipFailed
  <2> QED
    BY <1>b, <2>1, WithoutParts
<1>10. CASE RestoreBegin
  <2>1. store' = store
    BY <1>10 DEF RestoreBegin
  <2> QED
    BY <1>b, <2>1
<1>11. CASE RestoreOpen
  <2>1. store' = store
    BY <1>11 DEF RestoreOpen
  <2> QED
    BY <1>b, <2>1
<1>12. CASE RestoreExtract
  <2>1. store' = store
    BY <1>12 DEF RestoreExtract
  <2> QED
    BY <1>b, <2>1
<1>13. CASE RestoreRefused
  <2>1. store' = store
    BY <1>13 DEF RestoreRefused
  <2> QED
    BY <1>b, <2>1
<1>14. CASE RestoreRename
  BY <1>14, EmptyDirs DEF RestoreRename
<1>15. CASE RestoreSwap
  <2>1. store' = [there |-> TRUE, file |-> extracted, archives |-> {}]
    BY <1>15 DEF RestoreSwap, EmptyDir
  <2>2. extracted \in Content
    BY <1>a DEF TypeOK
  <2> QED
    BY <2>1, <2>2, PartsDir
<1>16. CASE RestoreRollback
  <2>1. store' = store \/ store' = old[restTime]
    BY <1>16 DEF RestoreRollback
  <2> QED
    BY <1>a, <1>b, <2>1 DEF TypeOK
<1>17. CASE RestoreMove
  <2>1. store.there /\ store' = [store EXCEPT !.archives = old[restTime].archives]
    BY <1>17, <1>a DEF RestoreMove, RestoreInv
  <2>2. old[restTime].archives \in SUBSET Archive
    BY <1>a, DirParts DEF TypeOK
  <2>3. store' = [there |-> store.there, file |-> store.file, archives |-> old[restTime].archives]
    BY <1>b, <2>1 DEF IsDir
  <2> QED
    BY <1>b, <2>1, <2>2, <2>3, DirParts, PartsDir
<1>18. CASE RestoreMoveFailed
  <2>1. store' = store
    BY <1>18 DEF RestoreMoveFailed
  <2> QED
    BY <1>b, <2>1
<1>19. CASE RestoreReturn
  <2>1. store' = store
    BY <1>19 DEF RestoreReturn
  <2> QED
    BY <1>b, <2>1
<1>20. CASE Tick
  <2>1. store' = store
    BY <1>20 DEF Tick
  <2> QED
    BY <1>b, <2>1
<1>21. CASE Crash
  <2>1. store' = store
    BY <1>21 DEF Crash
  <2> QED
    BY <1>b, <2>1
<1> QED
  BY <1>1, <1>2, <1>3, <1>4, <1>5, <1>6, <1>7, <1>8, <1>9, <1>10, <1>11, <1>12,
     <1>13, <1>14, <1>15, <1>16, <1>17, <1>18, <1>19, <1>20, <1>21 DEF Next, Save,
     Zip, Restore

(* So do the restore-old directories.                                         *)
LEMMA OldDirStep == StoreInv /\ Next => DOMAIN old' = Second /\ \A t \in Second : IsDir(old'[t])
<1> SUFFICES ASSUME StoreInv, Next
             PROVE  DOMAIN old' = Second /\ \A t \in Second : IsDir(old'[t])
  OBVIOUS
<1>a. /\ TypeOK /\ RestoreInv
  BY DEF StoreInv, RollInv
<1>b. /\ DOMAIN old = Second /\ \A t \in Second : IsDir(old[t])
      /\ time \in Second /\ restTime \in Second /\ IsDir(store)
  BY <1>a DEF TypeOK
<1>1. CASE SaveBegin
  <2>1. old' = old
    BY <1>1 DEF SaveBegin, restVars
  <2> QED
    BY <1>b, <2>1
<1>2. CASE SaveFile
  <2>1. old' = old
    BY <1>2 DEF SaveFile, restVars
  <2> QED
    BY <1>b, <2>1
<1>3. CASE SaveFailed
  <2>1. old' = old
    BY <1>3 DEF SaveFailed, restVars
  <2> QED
    BY <1>b, <2>1
<1>4. CASE SaveReturn
  <2>1. old' = old
    BY <1>4 DEF SaveReturn, restVars
  <2> QED
    BY <1>b, <2>1
<1>5. ASSUME NEW b \in Backuper, BackupBegin(b) PROVE DOMAIN old' = Second /\ \A t \in Second : IsDir(old'[t])
  <2>1. old' = old
    BY <1>5 DEF BackupBegin, restVars
  <2> QED
    BY <1>b, <2>1
<1>6. ASSUME NEW b \in Zipper, ZipCreate(b) PROVE DOMAIN old' = Second /\ \A t \in Second : IsDir(old'[t])
  <2>1. old' = old
    BY <1>6 DEF ZipCreate, restVars
  <2> QED
    BY <1>b, <2>1
<1>7. ASSUME NEW b \in Zipper, ZipWrite(b) PROVE DOMAIN old' = Second /\ \A t \in Second : IsDir(old'[t])
  <2>1. old' = old
    BY <1>7 DEF ZipWrite, restVars
  <2> QED
    BY <1>b, <2>1
<1>8. ASSUME NEW b \in Zipper, ZipPrune(b) PROVE DOMAIN old' = Second /\ \A t \in Second : IsDir(old'[t])
  <2>1. old' = old
    BY <1>8 DEF ZipPrune, restVars
  <2> QED
    BY <1>b, <2>1
<1>9. ASSUME NEW b \in Zipper, ZipFailed(b) PROVE DOMAIN old' = Second /\ \A t \in Second : IsDir(old'[t])
  <2>1. old' = old
    BY <1>9 DEF ZipFailed, restVars
  <2> QED
    BY <1>b, <2>1
<1>10. CASE RestoreBegin
  <2>1. old' = old
    BY <1>10 DEF RestoreBegin, restVars
  <2> QED
    BY <1>b, <2>1
<1>11. CASE RestoreOpen
  BY <1>11, <1>b, EmptyDirs DEF RestoreOpen
<1>12. CASE RestoreExtract
  <2>1. old' = old
    BY <1>12 DEF RestoreExtract, restVars
  <2> QED
    BY <1>b, <2>1
<1>13. CASE RestoreRefused
  <2>1. old' = old
    BY <1>13 DEF RestoreRefused, restVars
  <2> QED
    BY <1>b, <2>1
<1>14. CASE RestoreRename
  BY <1>14, <1>b, EmptyDirs DEF RestoreRename
<1>15. CASE RestoreSwap
  <2>1. old' = old
    BY <1>15 DEF RestoreSwap, restVars
  <2> QED
    BY <1>b, <2>1
<1>16. CASE RestoreRollback
  <2>1. old' = old \/ old' = [old EXCEPT ![restTime] = NoDir]
    BY <1>16 DEF RestoreRollback
  <2> QED
    BY <1>b, <2>1, EmptyDirs
<1>17. CASE RestoreMove
  <2>1. old' = [old EXCEPT ![restTime].archives = {}]
    BY <1>17 DEF RestoreMove
  <2>2. DOMAIN old' = Second /\ old'[restTime] = [old[restTime] EXCEPT !.archives = {}]
        /\ \A t \in Second : t # restTime => old'[t] = old[t]
    BY <1>b, <2>1
  <2>3. IsDir(old'[restTime])
    BY <1>b, <2>2 DEF IsDir
  <2> QED
    BY <1>b, <2>2, <2>3
<1>18. CASE RestoreMoveFailed
  <2>1. old' = old
    BY <1>18 DEF RestoreMoveFailed, restVars
  <2> QED
    BY <1>b, <2>1
<1>19. CASE RestoreReturn
  <2>1. old' = old \/ old' = [old EXCEPT ![restTime] = NoDir]
    BY <1>19 DEF RestoreReturn
  <2> QED
    BY <1>b, <2>1, EmptyDirs
<1>20. CASE Tick
  <2>1. old' = old
    BY <1>20 DEF Tick, restVars
  <2> QED
    BY <1>b, <2>1
<1>21. CASE Crash
  <2>1. old' = old
    BY <1>21 DEF Crash, restVars
  <2> QED
    BY <1>b, <2>1
<1> QED
  BY <1>1, <1>2, <1>3, <1>4, <1>5, <1>6, <1>7, <1>8, <1>9, <1>10, <1>11, <1>12,
     <1>13, <1>14, <1>15, <1>16, <1>17, <1>18, <1>19, <1>20, <1>21 DEF Next, Save,
     Zip, Restore

(* The other parts of TypeOK.                                                 *)
CountersTyped ==
  /\ writer \in {"none", "save", "restore"} /\ time \in Second /\ restTime \in Second
  /\ ver \in 0 .. MaxVer /\ zips \in 0 .. MaxZips /\ savePc \in 0 .. Idle
  /\ zipPc \in [Zipper -> {"idle", "named", "writing", "prune"}]
  /\ restPc \in {"idle", "backup", "open", "extract", "rename", "swap", "move", "clean"}
  /\ cut \subseteq 1 .. MaxVer

(* No lock, clock, counter or program counter leaves its range.                *)
LEMMA CountersStep == StoreInv /\ Next => CountersTyped'
<1> SUFFICES ASSUME StoreInv, Next
             PROVE  CountersTyped'
  OBVIOUS
<1>a. CountersTyped /\ Second = 1 .. MaxTime /\ MaxTime \in Nat \ {0} /\ MaxVer \in Nat /\ MaxZips \in Nat
      /\ "restore" \in Zipper /\ Backuper \subseteq Zipper /\ Idle = 5
  BY StoreAssumption DEF StoreInv, TypeOK, CountersTyped, Second, Zipper, Idle
<1>b. savePc \in 1 .. 3 => ver \in 1 .. MaxVer
  BY <1>a DEF StoreInv, ReadInv, SaveInv, CountersTyped
<1> USE DEF CountersTyped, lockVars, saveVars, zipVars, restVars
<1>1. CASE SaveBegin
  BY <1>1, <1>a, <1>b DEF SaveBegin
<1>2. CASE SaveFile
  BY <1>2, <1>a, <1>b DEF SaveFile
<1>3. CASE SaveFailed
  BY <1>3, <1>a, <1>b DEF SaveFailed, CutShort
<1>4. CASE SaveReturn
  BY <1>4, <1>a, <1>b DEF SaveReturn
<1>5. ASSUME NEW b \in Backuper, BackupBegin(b) PROVE CountersTyped'
  BY <1>5, <1>a, <1>b DEF BackupBegin
<1>6. ASSUME NEW b \in Zipper, ZipCreate(b) PROVE CountersTyped'
  BY <1>6, <1>a, <1>b DEF ZipCreate
<1>7. ASSUME NEW b \in Zipper, ZipWrite(b) PROVE CountersTyped'
  BY <1>7, <1>a, <1>b DEF ZipWrite
<1>8. ASSUME NEW b \in Zipper, ZipPrune(b) PROVE CountersTyped'
  BY <1>8, <1>a, <1>b DEF ZipPrune
<1>9. ASSUME NEW b \in Zipper, ZipFailed(b) PROVE CountersTyped'
  BY <1>9, <1>a, <1>b DEF ZipFailed, RestoreError, RestoreOver
<1>10. CASE RestoreBegin
  BY <1>10, <1>a, <1>b DEF RestoreBegin
<1>11. CASE RestoreOpen
  BY <1>11, <1>a, <1>b DEF RestoreOpen
<1>12. CASE RestoreExtract
  BY <1>12, <1>a, <1>b DEF RestoreExtract
<1>13. CASE RestoreRefused
  BY <1>13, <1>a, <1>b DEF RestoreRefused, RestoreError, RestoreOver
<1>14. CASE RestoreRename
  BY <1>14, <1>a, <1>b DEF RestoreRename
<1>15. CASE RestoreSwap
  BY <1>15, <1>a, <1>b DEF RestoreSwap
<1>16. CASE RestoreRollback
  BY <1>16, <1>a, <1>b DEF RestoreRollback, RestoreError, RestoreOver
<1>17. CASE RestoreMove
  BY <1>17, <1>a, <1>b DEF RestoreMove
<1>18. CASE RestoreMoveFailed
  BY <1>18, <1>a, <1>b DEF RestoreMoveFailed, RestoreError, RestoreOver
<1>19. CASE RestoreReturn
  BY <1>19, <1>a, <1>b DEF RestoreReturn, RestoreOver
<1>20. CASE Tick
  BY <1>20, <1>a, <1>b DEF Tick
<1>21. CASE Crash
  BY <1>21, <1>a, <1>b DEF Crash, CutShort, RestoreOver
<1> QED
  BY <1>1, <1>2, <1>3, <1>4, <1>5, <1>6, <1>7, <1>8, <1>9, <1>10, <1>11, <1>12,
     <1>13, <1>14, <1>15, <1>16, <1>17, <1>18, <1>19, <1>20, <1>21 DEF Next, Save,
     Zip, Restore

DataTyped ==
  /\ extracted \in Content /\ before \in Content /\ want \in Archive
  /\ zipName \in [Zipper -> (0 .. MaxTime) \X Nat]
  /\ base \in [file : Content, zips : 0 .. MaxZips, swept : BOOLEAN]

(* Nor do names, archives and contents.                                        *)
LEMMA DataStep == StoreInv /\ Next => DataTyped'
<1> SUFFICES ASSUME StoreInv, Next
             PROVE  DataTyped'
  OBVIOUS
<1>a. /\ DataTyped /\ store.file \in Content /\ store.archives \subseteq Archive
      /\ NoFiles \in Content /\ NoArchive \in Archive /\ NoName \in (0 .. MaxTime) \X Nat
      /\ "restore" \in Zipper /\ Backuper \subseteq Zipper
      /\ zips \in 0 .. MaxZips
  BY DirParts, EmptyDirs, NoArchiveTyped DEF StoreInv, TypeOK, DataTyped, Zipper
<1>b. FreeName(store) \in (0 .. MaxTime) \X Nat
  <2>1. time \in Nat /\ time \in 0 .. MaxTime /\ IsFiniteSet(store.archives)
    BY StoreAssumption DEF StoreInv, TypeOK, RollInv, Numbered, Second
  <2>2. FreeName(store) \in {time} \X Nat
    BY <2>1, FreeNameIsFree
  <2> QED
    BY <2>1, <2>2
<1>c. \A t \in Second : IsDir(old[t])
  BY DEF StoreInv, TypeOK
<1> USE DEF DataTyped, lockVars, saveVars, zipVars, restVars
<1>1. CASE SaveBegin
  BY <1>1, <1>a, <1>b DEF SaveBegin
<1>2. CASE SaveFile
  BY <1>2, <1>a, <1>b DEF SaveFile
<1>3. CASE SaveFailed
  BY <1>3, <1>a, <1>b DEF SaveFailed, CutShort
<1>4. CASE SaveReturn
  BY <1>4, <1>a, <1>b DEF SaveReturn
<1>5. ASSUME NEW b \in Backuper, BackupBegin(b) PROVE DataTyped'
  BY <1>5, <1>a, <1>b DEF BackupBegin
<1>6. ASSUME NEW b \in Zipper, ZipCreate(b) PROVE DataTyped'
  BY <1>6, <1>a, <1>b DEF ZipCreate
<1>7. ASSUME NEW b \in Zipper, ZipWrite(b) PROVE DataTyped'
  BY <1>7, <1>a, <1>b DEF ZipWrite
<1>8. ASSUME NEW b \in Zipper, ZipPrune(b) PROVE DataTyped'
  BY <1>8, <1>a, <1>b DEF ZipPrune
<1>9. ASSUME NEW b \in Zipper, ZipFailed(b) PROVE DataTyped'
  BY <1>9, <1>a, <1>b DEF ZipFailed, RestoreError, RestoreOver
<1>10. CASE RestoreBegin
  BY <1>10, <1>a, <1>b DEF RestoreBegin
<1>11. CASE RestoreOpen
  <2>1. base' = [file |-> base.file, zips |-> base.zips, swept |-> (base.swept \/ old[time].there)]
    BY <1>11, <1>a DEF RestoreOpen
  <2>2. base.file \in Content /\ base.zips \in 0 .. MaxZips
    BY <1>a
  <2>3. (base.swept \/ old[time].there) \in BOOLEAN
    OBVIOUS
  <2>4. base' \in [file : Content, zips : 0 .. MaxZips, swept : BOOLEAN]
    BY <2>1, <2>2, <2>3
  <2> QED
    BY <1>11, <1>a, <2>4 DEF RestoreOpen
<1>12. CASE RestoreExtract
  <2>1. want.file \in Content
    BY <1>a, ArchiveParts DEF DataTyped
  <2> QED
    BY <1>12, <1>a, <2>1 DEF RestoreExtract
<1>13. CASE RestoreRefused
  BY <1>13, <1>a, <1>b DEF RestoreRefused, RestoreError, RestoreOver
<1>14. CASE RestoreRename
  BY <1>14, <1>a, <1>b DEF RestoreRename
<1>15. CASE RestoreSwap
  BY <1>15, <1>a, <1>b DEF RestoreSwap
<1>16. CASE RestoreRollback
  BY <1>16, <1>a, <1>b DEF RestoreRollback, RestoreError, RestoreOver
<1>17. CASE RestoreMove
  BY <1>17, <1>a, <1>b DEF RestoreMove
<1>18. CASE RestoreMoveFailed
  BY <1>18, <1>a, <1>b DEF RestoreMoveFailed, RestoreError, RestoreOver
<1>19. CASE RestoreReturn
  BY <1>19, <1>a, <1>b DEF RestoreReturn, RestoreOver
<1>20. CASE Tick
  BY <1>20, <1>a, <1>b DEF Tick
<1>21. CASE Crash
  BY <1>21, <1>a, <1>b DEF Crash, CutShort, RestoreOver
<1> QED
  BY <1>1, <1>2, <1>3, <1>4, <1>5, <1>6, <1>7, <1>8, <1>9, <1>10, <1>11, <1>12,
     <1>13, <1>14, <1>15, <1>16, <1>17, <1>18, <1>19, <1>20, <1>21 DEF Next, Save,
     Zip, Restore

(* And harmed says yes or no.                                                  *)
LEMMA HarmedStep == StoreInv /\ Next => harmed' \in BOOLEAN
<1> SUFFICES ASSUME StoreInv, Next
             PROVE  harmed' \in BOOLEAN
  OBVIOUS
<1>a. harmed \in BOOLEAN
  BY DEF StoreInv, TypeOK
<1> USE DEF lockVars, saveVars, zipVars, restVars
<1>1. CASE SaveBegin
  BY <1>1, <1>a DEF SaveBegin
<1>2. CASE SaveFile
  BY <1>2, <1>a DEF SaveFile
<1>3. CASE SaveFailed
  BY <1>3, <1>a DEF SaveFailed, CutShort
<1>4. CASE SaveReturn
  BY <1>4, <1>a DEF SaveReturn
<1>5. ASSUME NEW b \in Backuper, BackupBegin(b) PROVE harmed' \in BOOLEAN
  BY <1>5, <1>a DEF BackupBegin
<1>6. ASSUME NEW b \in Zipper, ZipCreate(b) PROVE harmed' \in BOOLEAN
  BY <1>6, <1>a DEF ZipCreate
<1>7. ASSUME NEW b \in Zipper, ZipWrite(b) PROVE harmed' \in BOOLEAN
  BY <1>7, <1>a DEF ZipWrite
<1>8. ASSUME NEW b \in Zipper, ZipPrune(b) PROVE harmed' \in BOOLEAN
  BY <1>8, <1>a DEF ZipPrune
<1>9. ASSUME NEW b \in Zipper, ZipFailed(b) PROVE harmed' \in BOOLEAN
  BY <1>9, <1>a DEF ZipFailed, RestoreError
<1>10. CASE RestoreBegin
  BY <1>10, <1>a DEF RestoreBegin
<1>11. CASE RestoreOpen
  BY <1>11, <1>a DEF RestoreOpen
<1>12. CASE RestoreExtract
  BY <1>12, <1>a DEF RestoreExtract
<1>13. CASE RestoreRefused
  BY <1>13, <1>a DEF RestoreRefused, RestoreError
<1>14. CASE RestoreRename
  BY <1>14, <1>a DEF RestoreRename
<1>15. CASE RestoreSwap
  BY <1>15, <1>a DEF RestoreSwap
<1>16. CASE RestoreRollback
  BY <1>16, <1>a DEF RestoreRollback, RestoreError, RestoreOver
<1>17. CASE RestoreMove
  BY <1>17, <1>a DEF RestoreMove
<1>18. CASE RestoreMoveFailed
  BY <1>18, <1>a DEF RestoreMoveFailed, RestoreError
<1>19. CASE RestoreReturn
  BY <1>19, <1>a DEF RestoreReturn, RestoreOver
<1>20. CASE Tick
  BY <1>20, <1>a DEF Tick
<1>21. CASE Crash
  BY <1>21, <1>a DEF Crash, CutShort, RestoreOver
<1> QED
  BY <1>1, <1>2, <1>3, <1>4, <1>5, <1>6, <1>7, <1>8, <1>9, <1>10, <1>11, <1>12,
     <1>13, <1>14, <1>15, <1>16, <1>17, <1>18, <1>19, <1>20, <1>21 DEF Next, Save,
     Zip, Restore

LEMMA TypeStep == StoreInv /\ Next => TypeOK'
<1> SUFFICES ASSUME StoreInv, Next PROVE TypeOK'
  OBVIOUS
<1>1. IsDir(store') /\ DOMAIN old' = Second /\ \A t \in Second : IsDir(old'[t])
  BY StoreDirStep, OldDirStep
<1>2. CountersTyped' /\ DataTyped' /\ harmed' \in BOOLEAN
  BY CountersStep, DataStep, HarmedStep
<1>3. IsDir(store)' /\ \A t \in Second : IsDir(old[t])'
  BY <1>1 DEF IsDir, Content, Archive, NoFiles
<1> QED
  BY <1>1, <1>2, <1>3 DEF TypeOK, CountersTyped, DataTyped

(* Store.mu is held as it should be.                                           *)
LEMMA LockStep == StoreInv /\ Next => LockInv'
<1> SUFFICES ASSUME StoreInv, Next
             PROVE  LockInv'
  OBVIOUS
<1>a. /\ LockInv /\ CountersTyped /\ Idle = 5 /\ Zipper = Backuper \cup {"restore"} /\ "restore" \notin Backuper
  BY StoreAssumption DEF StoreInv, ReadInv, TypeOK, CountersTyped, Zipper, Idle
<1>b. IsDir(store) /\ TypeOK
  BY DEF StoreInv, TypeOK
<1> USE DEF LockInv, CountersTyped, NoReader, lockVars, saveVars, zipVars, restVars
<1>1. CASE SaveBegin
  <2>1. store'.there <=> TRUE
    BY <1>1, <1>b, MadeParts DEF SaveBegin
  <2> QED
    BY <1>1, <1>a, <2>1 DEF SaveBegin
<1>2. CASE SaveFile
  <2>1. store'.there <=> store.there
    BY <1>2, <1>b, SavedFile DEF SaveFile
  <2> QED
    BY <1>2, <1>a, <2>1 DEF SaveFile
<1>3. CASE SaveFailed
  BY <1>3, <1>a DEF SaveFailed, CutShort
<1>4. CASE SaveReturn
  BY <1>4, <1>a DEF SaveReturn
<1>5. ASSUME NEW b \in Backuper, BackupBegin(b) PROVE LockInv'
  <2>1. store'.there <=> TRUE
    BY <1>5, <1>b, MadeParts DEF BackupBegin
  <2> QED
    BY <1>5, <1>a, <2>1 DEF BackupBegin
<1>6. ASSUME NEW b \in Zipper, ZipCreate(b) PROVE LockInv'
  <2>1. store'.there <=> store.there
    BY <1>6, <1>b, CreatedArchives DEF ZipCreate
  <2> QED
    BY <1>6, <1>a, <2>1 DEF ZipCreate
<1>7. ASSUME NEW b \in Zipper, ZipWrite(b) PROVE LockInv'
  <2>1. store'.there <=> store.there
    BY <1>7, <1>b, WrittenArchives DEF ZipWrite
  <2> QED
    BY <1>7, <1>a, <2>1 DEF ZipWrite
<1>8. ASSUME NEW b \in Zipper, ZipPrune(b) PROVE LockInv'
  <2>1. store'.there <=> store.there
    BY <1>8, <1>b, PrunedArchives DEF ZipPrune
  <2> QED
    BY <1>8, <1>a, <2>1 DEF ZipPrune
<1>9. ASSUME NEW b \in Zipper, ZipFailed(b) PROVE LockInv'
  <2>1. store'.there <=> store.there
    BY <1>9, <1>b, WithoutParts DEF ZipFailed
  <2> QED
    BY <1>9, <1>a, <2>1 DEF ZipFailed, RestoreError, RestoreOver
<1>10. CASE RestoreBegin
  <2>1. store.there /\ store' = store
    BY <1>10, <1>b, DirParts DEF RestoreBegin
  <2> QED
    BY <1>10, <1>a, <2>1 DEF RestoreBegin, NoReader
<1>11. CASE RestoreOpen
  BY <1>11, <1>a DEF RestoreOpen
<1>12. CASE RestoreExtract
  BY <1>12, <1>a DEF RestoreExtract
<1>13. CASE RestoreRefused
  BY <1>13, <1>a DEF RestoreRefused, RestoreError, RestoreOver
<1>14. CASE RestoreRename
  <2>1. savePc = Idle /\ \A b \in Zipper : zipPc[b] = "idle"
    BY <1>14, <1>a DEF RestoreRename
  <2> QED
    BY <1>14, <1>a, <2>1 DEF RestoreRename
<1>15. CASE RestoreSwap
  <2>1. savePc = Idle /\ \A b \in Zipper : zipPc[b] = "idle"
    BY <1>15, <1>a DEF RestoreSwap
  <2> QED
    BY <1>15, <1>a, <2>1 DEF RestoreSwap
<1>16. CASE RestoreRollback
  <2>1. savePc = Idle /\ \A b \in Zipper : zipPc[b] = "idle"
    BY <1>16, <1>a DEF RestoreRollback
  <2> QED
    BY <1>16, <1>a, <2>1 DEF RestoreRollback, RestoreError, RestoreOver
<1>17. CASE RestoreMove
  <2>1. savePc = Idle /\ \A b \in Zipper : zipPc[b] = "idle"
    BY <1>17, <1>a DEF RestoreMove
  <2> QED
    BY <1>17, <1>a, <2>1 DEF RestoreMove
<1>18. CASE RestoreMoveFailed
  BY <1>18, <1>a DEF RestoreMoveFailed, RestoreError, RestoreOver
<1>19. CASE RestoreReturn
  BY <1>19, <1>a DEF RestoreReturn, RestoreOver
<1>20. CASE Tick
  BY <1>20, <1>a DEF Tick
<1>21. CASE Crash
  BY <1>21, <1>a DEF Crash, CutShort, RestoreOver
<1> QED
  BY <1>1, <1>2, <1>3, <1>4, <1>5, <1>6, <1>7, <1>8, <1>9, <1>10, <1>11, <1>12,
     <1>13, <1>14, <1>15, <1>16, <1>17, <1>18, <1>19, <1>20, <1>21 DEF Next, Save,
     Zip, Restore

(* The files of one Save stay so when more Saves begin or are cut short.       *)
LEMMA SoundGrows ==
  ASSUME NEW v \in Nat, NEW w \in Nat, v <= w, NEW c, NEW d, c \subseteq d
  PROVE  /\ \A file \in Content : UpTo(v, file) => UpTo(w, file)
         /\ \A file \in Content : Whole(c, file) => Whole(d, file)
         /\ \A file \in Content : SoundFile(v, c, file) => SoundFile(w, d, file)
         /\ \A a \in Archive : SoundArchive(v, c, a) => SoundArchive(w, d, a)
         /\ \A A \in SUBSET Archive : SoundArchives(v, c, A) => SoundArchives(w, d, A)
<1>1. \A file \in Content : UpTo(v, file) => UpTo(w, file)
  BY StoreAssumption DEF UpTo, Content
<1>2. \A file \in Content : Whole(c, file) => Whole(d, file)
  BY DEF Whole
<1>3. \A file \in Content : SoundFile(v, c, file) => SoundFile(w, d, file)
  BY <1>1, <1>2 DEF SoundFile
<1>4. \A a \in Archive : SoundArchive(v, c, a) => SoundArchive(w, d, a)
  BY <1>1, <1>2, ArchiveParts DEF SoundArchive
<1>5. \A A \in SUBSET Archive : SoundArchives(v, c, A) => SoundArchives(w, d, A)
  BY <1>4 DEF SoundArchives
<1> QED
  BY <1>1, <1>2, <1>3, <1>4, <1>5

LEMMA SoundEmpty ==
  ASSUME NEW v \in Nat, NEW c
  PROVE  SoundFile(v, c, NoFiles) /\ SoundArchive(v, c, NoArchive) /\ SoundArchives(v, c, {})
  BY DEF SoundFile, SoundArchive, SoundArchives, UpTo, Whole, NoFiles, NoArchive, File

SavesUp == ver \in Nat /\ ver' \in Nat /\ ver <= ver' /\ cut \subseteq cut'

(* Saves are numbered upwards, and one that was cut short stays so.            *)
LEMMA SavesGrow == StoreInv /\ Next => SavesUp
<1> SUFFICES ASSUME StoreInv, Next
             PROVE  SavesUp
  OBVIOUS
<1>a. ver \in Nat
  BY DEF StoreInv, TypeOK
<1> USE DEF SavesUp, lockVars, saveVars, zipVars, restVars
<1>1. CASE SaveBegin
  BY <1>1, <1>a DEF SaveBegin
<1>2. CASE SaveFile
  BY <1>2, <1>a DEF SaveFile
<1>3. CASE SaveFailed
  BY <1>3, <1>a DEF SaveFailed, CutShort
<1>4. CASE SaveReturn
  BY <1>4, <1>a DEF SaveReturn
<1>5. ASSUME NEW b \in Backuper, BackupBegin(b) PROVE SavesUp
  BY <1>5, <1>a DEF BackupBegin
<1>6. ASSUME NEW b \in Zipper, ZipCreate(b) PROVE SavesUp
  BY <1>6, <1>a DEF ZipCreate
<1>7. ASSUME NEW b \in Zipper, ZipWrite(b) PROVE SavesUp
  <2>1. ver' = ver /\ cut' = cut
    BY <1>7 DEF ZipWrite
  <2> QED
    BY <1>a, <2>1
<1>8. ASSUME NEW b \in Zipper, ZipPrune(b) PROVE SavesUp
  BY <1>8, <1>a DEF ZipPrune
<1>9. ASSUME NEW b \in Zipper, ZipFailed(b) PROVE SavesUp
  BY <1>9, <1>a DEF ZipFailed, RestoreError, RestoreOver
<1>10. CASE RestoreBegin
  BY <1>10, <1>a DEF RestoreBegin
<1>11. CASE RestoreOpen
  BY <1>11, <1>a DEF RestoreOpen
<1>12. CASE RestoreExtract
  BY <1>12, <1>a DEF RestoreExtract
<1>13. CASE RestoreRefused
  BY <1>13, <1>a DEF RestoreRefused, RestoreError, RestoreOver
<1>14. CASE RestoreRename
  BY <1>14, <1>a DEF RestoreRename
<1>15. CASE RestoreSwap
  BY <1>15, <1>a DEF RestoreSwap
<1>16. CASE RestoreRollback
  BY <1>16, <1>a DEF RestoreRollback, RestoreError, RestoreOver
<1>17. CASE RestoreMove
  BY <1>17, <1>a DEF RestoreMove
<1>18. CASE RestoreMoveFailed
  BY <1>18, <1>a DEF RestoreMoveFailed, RestoreError, RestoreOver
<1>19. CASE RestoreReturn
  BY <1>19, <1>a DEF RestoreReturn, RestoreOver
<1>20. CASE Tick
  BY <1>20, <1>a DEF Tick
<1>21. CASE Crash
  BY <1>21, <1>a DEF Crash, CutShort, RestoreOver
<1> QED
  BY <1>1, <1>2, <1>3, <1>4, <1>5, <1>6, <1>7, <1>8, <1>9, <1>10, <1>11, <1>12,
     <1>13, <1>14, <1>15, <1>16, <1>17, <1>18, <1>19, <1>20, <1>21 DEF Next, Save,
     Zip, Restore

(* A Save writes its files one after the other, and nobody else writes them.    *)
LEMMA SaveStep == StoreInv /\ Next => SaveInv'
<1> SUFFICES ASSUME StoreInv, Next
             PROVE  SaveInv'
  OBVIOUS
<1>a. /\ SaveInv /\ LockInv /\ ContentInv /\ IsDir(store) /\ CountersTyped /\ Idle = 5 /\ TypeOK
  BY DEF StoreInv, ReadInv, TypeOK, CountersTyped, Idle
<1>b. store.file \in [File -> Nat] /\ ver \in Nat
  BY <1>a, DirParts, StoreAssumption DEF Content, CountersTyped
<1>f. savePc = 4 => \A c : Whole(c, store.file)
  <2>1. savePc = 4 => \A i \in 1 .. 4 : store.file[Files[i]] = ver
    BY <1>a DEF SaveInv
  <2>2. \A f \in File : \E i \in 1 .. 4 : f = Files[i]
    BY DEF Files, File
  <2>3. "inventory" \in File
    BY DEF File
  <2> QED
    BY <2>1, <2>2, <2>3 DEF Whole
<1> USE DEF lockVars, saveVars, zipVars, restVars
<1>1. CASE SaveBegin
  <2>1. /\ store'.file = store.file /\ cut' = cut /\ ver' = ver + 1 /\ savePc' = 0 /\ savePc = Idle
    BY <1>1, <1>a, MadeParts DEF SaveBegin, LockInv
  <2>2. \A f \in File : store.file[f] <= ver + 1
    BY <1>a, <1>b DEF SaveInv, UpTo
  <2> QED
    BY <1>a, <1>b, <2>1, <2>2 DEF SaveInv, UpTo
<1>2. CASE SaveFile
  <2>1. /\ savePc \in 0 .. 3 /\ Files[savePc + 1] \in File /\ savePc' = savePc + 1 /\ UNCHANGED <<ver, cut>>
        /\ store'.file = [store.file EXCEPT ![Files[savePc + 1]] = ver]
    BY <1>2, <1>a, SavedFile DEF SaveFile
  <2>2. UpTo(ver', store'.file) /\ ver' > 0
    BY <1>a, <1>b, <2>1 DEF SaveInv, UpTo
  <2>3. \A i \in 1 .. savePc' : store'.file[Files[i]] = ver'
    <3>1. \A i \in 1 .. savePc : store.file[Files[i]] = ver
      BY <1>a, <2>1 DEF SaveInv
    <3>2. \A i \in 1 .. 4 : Files[i] \in File
      BY DEF Files, File
    <3>3. \A i \in 1 .. savePc + 1 : i \in 1 .. 4 /\ (i \in 1 .. savePc \/ i = savePc + 1)
      BY <2>1
    <3> QED
      BY <1>b, <2>1, <3>1, <3>2, <3>3
  <2>4. savePc' \in 1 .. 4
    BY <2>1
  <2> HIDE DEF SaveInv
  <2> QED
    BY <1>a, <2>2, <2>3, <2>4 DEF SaveInv
<1>3. CASE SaveFailed
  <2>1. /\ savePc \in 0 .. 4 /\ savePc' = Idle /\ UNCHANGED <<store, ver>>
        /\ cut' = IF savePc \in 1 .. 3 THEN cut \cup {ver} ELSE cut
    BY <1>3, <1>a DEF SaveFailed, CutShort
  <2>2. Whole(cut', store.file)
    <3>1. CASE savePc \in {0, Idle}
      BY <1>a, <2>1, <3>1 DEF SaveInv, Whole
    <3>2. CASE savePc \in 1 .. 3
      <4>1. store.file[Files[1]] = ver /\ Files[1] = "inventory" /\ ver \in cut'
        BY <1>a, <2>1, <3>2 DEF SaveInv, Files
      <4> QED
        BY <1>a, <4>1 DEF SaveInv, Whole, UpTo
    <3>3. CASE savePc = 4
      BY <3>3, <1>f
    <3> QED
      BY <1>a, <2>1, <3>1, <3>2, <3>3
  <2> QED
    BY <1>a, <2>1, <2>2 DEF SaveInv
<1>4. CASE SaveReturn
  <2>1. /\ savePc \in {4} /\ savePc' = Idle /\ UNCHANGED <<store, ver>>
        /\ cut' = cut
    BY <1>4, <1>a DEF SaveReturn
  <2>2. Whole(cut', store.file)
    BY <1>f, <2>1
  <2> QED
    BY <1>a, <2>1, <2>2 DEF SaveInv
<1>5. ASSUME NEW b \in Backuper, BackupBegin(b) PROVE SaveInv'
  <2>1. store'.file = store.file /\ UNCHANGED <<ver, cut, savePc>>
    BY <1>5, <1>a, MadeParts DEF BackupBegin
  <2> QED
    BY <1>a, <2>1 DEF SaveInv
<1>6. ASSUME NEW b \in Zipper, ZipCreate(b) PROVE SaveInv'
  <2>1. store'.file = store.file /\ UNCHANGED <<ver, cut, savePc>>
    BY <1>6, <1>a, CreatedArchives DEF ZipCreate
  <2> QED
    BY <1>a, <2>1 DEF SaveInv
<1>7. ASSUME NEW b \in Zipper, ZipWrite(b) PROVE SaveInv'
  <2>1. store'.file = store.file /\ UNCHANGED <<ver, cut, savePc>>
    BY <1>7, <1>a, WrittenArchives DEF ZipWrite
  <2> QED
    BY <1>a, <2>1 DEF SaveInv
<1>8. ASSUME NEW b \in Zipper, ZipPrune(b) PROVE SaveInv'
  <2>1. store'.file = store.file /\ UNCHANGED <<ver, cut, savePc>>
    BY <1>8, <1>a, PrunedArchives DEF ZipPrune
  <2> QED
    BY <1>a, <2>1 DEF SaveInv
<1>9. ASSUME NEW b \in Zipper, ZipFailed(b) PROVE SaveInv'
  <2>1. store'.file = store.file /\ UNCHANGED <<ver, cut, savePc>>
    BY <1>9, <1>a, WithoutParts DEF ZipFailed
  <2> QED
    BY <1>a, <2>1 DEF SaveInv
<1>10. CASE RestoreBegin
  <2>1. store'.file = store.file /\ UNCHANGED <<ver, cut, savePc>>
    BY <1>10, <1>a DEF RestoreBegin
  <2> QED
    BY <1>a, <2>1 DEF SaveInv
<1>11. CASE RestoreOpen
  <2>1. store'.file = store.file /\ UNCHANGED <<ver, cut, savePc>>
    BY <1>11, <1>a DEF RestoreOpen
  <2> QED
    BY <1>a, <2>1 DEF SaveInv
<1>12. CASE RestoreExtract
  <2>1. store'.file = store.file /\ UNCHANGED <<ver, cut, savePc>>
    BY <1>12, <1>a DEF RestoreExtract
  <2> QED
    BY <1>a, <2>1 DEF SaveInv
<1>13. CASE RestoreRefused
  <2>1. store'.file = store.file /\ UNCHANGED <<ver, cut, savePc>>
    BY <1>13, <1>a DEF RestoreRefused
  <2> QED
    BY <1>a, <2>1 DEF SaveInv
<1>14. CASE RestoreRename
  <2>1. store'.file = NoFiles /\ UNCHANGED <<ver, cut, savePc>> /\ savePc = Idle
    BY <1>14, <1>a DEF RestoreRename, NoDir, EmptyDir, LockInv
  <2>2. SoundFile(ver, cut, NoFiles)
    BY <1>a, <1>b, SoundEmpty DEF ContentInv
  <2> QED
    BY <1>a, <2>1, <2>2 DEF SaveInv, SoundFile
<1>15. CASE RestoreSwap
  <2>1. store'.file = extracted /\ UNCHANGED <<ver, cut, savePc>> /\ savePc = Idle
    BY <1>15, <1>a DEF RestoreSwap, NoDir, EmptyDir, LockInv
  <2>2. SoundFile(ver, cut, extracted)
    BY <1>a, <1>b, SoundEmpty DEF ContentInv
  <2> QED
    BY <1>a, <2>1, <2>2 DEF SaveInv, SoundFile
<1>16. CASE RestoreRollback
  <2>1. /\ store'.file = store.file \/ store'.file = old[restTime].file
        /\ UNCHANGED <<ver, cut, savePc>> /\ savePc = Idle
    BY <1>16, <1>a DEF RestoreRollback, LockInv
  <2>2. SoundFile(ver, cut, old[restTime].file)
    BY <1>a DEF ContentInv, CountersTyped
  <2> QED
    BY <1>a, <2>1, <2>2 DEF SaveInv, SoundFile
<1>17. CASE RestoreMove
  <2>1. store'.file = store.file /\ UNCHANGED <<ver, cut, savePc>>
    BY <1>17, <1>a DEF RestoreMove, IsDir
  <2> QED
    BY <1>a, <2>1 DEF SaveInv
<1>18. CASE RestoreMoveFailed
  <2>1. store'.file = store.file /\ UNCHANGED <<ver, cut, savePc>>
    BY <1>18, <1>a DEF RestoreMoveFailed
  <2> QED
    BY <1>a, <2>1 DEF SaveInv
<1>19. CASE RestoreReturn
  <2>1. store'.file = store.file /\ UNCHANGED <<ver, cut, savePc>>
    BY <1>19, <1>a DEF RestoreReturn
  <2> QED
    BY <1>a, <2>1 DEF SaveInv
<1>20. CASE Tick
  <2>1. store'.file = store.file /\ UNCHANGED <<ver, cut, savePc>>
    BY <1>20, <1>a DEF Tick
  <2> QED
    BY <1>a, <2>1 DEF SaveInv
<1>21. CASE Crash
  <2>1. /\ savePc \in 0 .. Idle /\ savePc' = Idle /\ UNCHANGED <<store, ver>>
        /\ cut' = IF savePc \in 1 .. 3 THEN cut \cup {ver} ELSE cut
    BY <1>21, <1>a DEF Crash, CutShort, CountersTyped
  <2>2. Whole(cut', store.file)
    <3>1. CASE savePc \in {0, Idle}
      BY <1>a, <2>1, <3>1 DEF SaveInv, Whole
    <3>2. CASE savePc \in 1 .. 3
      <4>1. store.file[Files[1]] = ver /\ Files[1] = "inventory" /\ ver \in cut'
        BY <1>a, <2>1, <3>2 DEF SaveInv, Files
      <4> QED
        BY <1>a, <4>1 DEF SaveInv, Whole, UpTo
    <3>3. CASE savePc = 4
      BY <3>3, <1>f
    <3> QED
      BY <1>a, <2>1, <3>1, <3>2, <3>3
  <2> QED
    BY <1>a, <2>1, <2>2 DEF SaveInv
<1> QED
  BY <1>1, <1>2, <1>3, <1>4, <1>5, <1>6, <1>7, <1>8, <1>9, <1>10, <1>11, <1>12,
     <1>13, <1>14, <1>15, <1>16, <1>17, <1>18, <1>19, <1>20, <1>21 DEF Next, Save,
     Zip, Restore

(* Archives and the directories of a Restore are copies of what a Save left.    *)
LEMMA ContentStep == StoreInv /\ Next => ContentInv'
<1> SUFFICES ASSUME StoreInv, Next
             PROVE  ContentInv'
  OBVIOUS
<1>a. /\ SaveInv /\ LockInv /\ ContentInv /\ IsDir(store) /\ CountersTyped /\ Idle = 5 /\ TypeOK
  BY DEF StoreInv, ReadInv, TypeOK, CountersTyped, Idle
<1>b. SavesUp
  BY SavesGrow
<1> DEFINE S(file) == SoundFile(ver', cut', file)
           Z(a) == SoundArchive(ver', cut', a)
           Y(A) == SoundArchives(ver', cut', A)
<1>c. /\ Y(store.archives) /\ S(extracted) /\ Z(want)
      /\ \A t \in Second : S(old[t].file) /\ Y(old[t].archives)
  <2>1. \A d : IsDir(d) => d.file \in Content /\ d.archives \in SUBSET Archive
    BY DirParts
  <2>2. extracted \in Content /\ want \in Archive /\ \A t \in Second : IsDir(old[t])
    BY <1>a DEF TypeOK
  <2>3. /\ \A file \in Content : SoundFile(ver, cut, file) => S(file)
        /\ \A a \in Archive : SoundArchive(ver, cut, a) => Z(a)
        /\ \A A \in SUBSET Archive : SoundArchives(ver, cut, A) => Y(A)
    <3> HIDE DEF S, Z, Y
    <3> QED
      BY <1>b, SoundGrows DEF SavesUp, S, Z, Y
  <2> HIDE DEF S, Z, Y
  <2> QED
    BY <1>a, <2>1, <2>2, <2>3 DEF ContentInv
<1>d. writer # "save" => S(store.file)
  <2>1. writer # "save" => SoundFile(ver, cut, store.file)
    BY <1>a DEF SaveInv, LockInv, SoundFile
  <2> QED
    BY <1>a, <1>b, <2>1, SoundGrows, DirParts DEF SavesUp
<1>e. S(NoFiles) /\ Z(NoArchive) /\ Y({}) /\ S(NoDir.file) /\ Y(NoDir.archives)
  BY <1>b, SoundEmpty DEF SavesUp, NoDir
<1>f. \A t \in Second : t = restTime \/ t # restTime
  OBVIOUS
<1>g. /\ ContentInv' <=> /\ Y(store'.archives) /\ S(extracted') /\ Z(want')
                         /\ \A t \in Second : S(old'[t].file) /\ Y(old'[t].archives)
                         /\ restPc' = "extract" => want'.done
  BY DEF ContentInv, Second
<1>h. DOMAIN old = Second /\ restTime \in Second /\ time \in Second
  BY <1>a DEF TypeOK
<1> HIDE DEF S, Z, Y
<1> USE DEF lockVars, saveVars, zipVars, restVars
<1>1. CASE SaveBegin
  <2>1. store'.archives = store.archives /\ UNCHANGED <<old, extracted, want>>
        /\ (restPc' = restPc \/ restPc' # "extract")
    BY <1>1, <1>a, MadeParts DEF SaveBegin
  <2> QED
    BY <1>a, <1>c, <1>g, <2>1 DEF ContentInv
<1>2. CASE SaveFile
  <2>1. store'.archives = store.archives /\ UNCHANGED <<old, extracted, want>>
        /\ (restPc' = restPc \/ restPc' # "extract")
    BY <1>2, <1>a, SavedFile DEF SaveFile
  <2> QED
    BY <1>a, <1>c, <1>g, <2>1 DEF ContentInv
<1>3. CASE SaveFailed
  <2>1. store'.archives = store.archives /\ UNCHANGED <<old, extracted, want>>
        /\ (restPc' = restPc \/ restPc' # "extract")
    BY <1>3, <1>a DEF SaveFailed
  <2> QED
    BY <1>a, <1>c, <1>g, <2>1 DEF ContentInv
<1>4. CASE SaveReturn
  <2>1. store'.archives = store.archives /\ UNCHANGED <<old, extracted, want>>
        /\ (restPc' = restPc \/ restPc' # "extract")
    BY <1>4, <1>a DEF SaveReturn
  <2> QED
    BY <1>a, <1>c, <1>g, <2>1 DEF ContentInv
<1>5. ASSUME NEW b \in Backuper, BackupBegin(b) PROVE ContentInv'
  <2>1. store'.archives = store.archives /\ UNCHANGED <<old, extracted, want>>
        /\ (restPc' = restPc \/ restPc' # "extract")
    BY <1>5, <1>a, MadeParts DEF BackupBegin
  <2> QED
    BY <1>a, <1>c, <1>g, <2>1 DEF ContentInv
<1>6. ASSUME NEW b \in Zipper, ZipCreate(b) PROVE ContentInv'
  <2>1. UNCHANGED <<old, extracted, want>> /\ (restPc' = restPc \/ restPc' # "extract")
    BY <1>6 DEF ZipCreate
  <2>2. Y(store'.archives)
    <3> DEFINE new == [name |-> zipName[b], no |-> zips + 1, file |-> NoFiles, done |-> FALSE]
    <3>1. Z(new)
      BY <1>e DEF S, Z, SoundFile, SoundArchive
    <3>2. store'.archives \subseteq store.archives \cup {new}
      BY <1>6, <1>a, CreatedArchives
    <3> HIDE DEF new
    <3> QED
      BY <1>c, <3>1, <3>2 DEF Y, Z, SoundArchives
  <2> QED
    BY <1>a, <1>c, <1>g, <2>1, <2>2 DEF ContentInv
<1>7. ASSUME NEW b \in Zipper, ZipWrite(b) PROVE ContentInv'
  <2>1. UNCHANGED <<old, extracted, want>> /\ (restPc' = restPc \/ restPc' # "extract")
    BY <1>7 DEF ZipWrite
  <2>2. Y(store'.archives)
    <3>1. S(store.file)
      <4>1. zipPc[b] # "idle"
        BY <1>7 DEF ZipWrite
      <4>2. writer # "save"
        BY <1>a, <4>1 DEF LockInv, Zipper
      <4> QED
        BY <1>d, <4>2
    <3>2. ASSUME NEW a \in store.archives PROVE Z(Rewritten(b, a))
      <4>1. Z(a)
        BY <1>c DEF Y, Z, SoundArchives
      <4>2. CASE a.name = zipName[b]
        <5>1. Rewritten(b, a).file = store.file
          BY <4>2 DEF Rewritten
        <5> QED
          BY <3>1, <5>1 DEF S, Z, SoundFile, SoundArchive
      <4>3. CASE a.name # zipName[b]
        <5>1. Rewritten(b, a).file = a.file /\ (Rewritten(b, a).done => a.done)
          BY <4>3 DEF Rewritten
        <5> QED
          BY <4>1, <5>1 DEF Z, SoundArchive
      <4> QED
        BY <4>2, <4>3
    <3>3. store'.archives = {Rewritten(b, a) : a \in store.archives}
      BY <1>7, <1>a, WrittenArchives
    <3> QED
      BY <3>2, <3>3 DEF Y, Z, SoundArchives
  <2> QED
    BY <1>a, <1>c, <1>g, <2>1, <2>2 DEF ContentInv
<1>8. ASSUME NEW b \in Zipper, ZipPrune(b) PROVE ContentInv'
  <2>1. UNCHANGED <<old, extracted, want>> /\ (restPc' = restPc \/ restPc' # "extract")
    BY <1>8 DEF ZipPrune
  <2>2. Y(store'.archives)
    <3>1. store'.archives \subseteq store.archives
      BY <1>8, <1>a, PrunedArchives
    <3> QED
      BY <1>c, <3>1 DEF Y, SoundArchives
  <2> QED
    BY <1>a, <1>c, <1>g, <2>1, <2>2 DEF ContentInv
<1>9. ASSUME NEW b \in Zipper, ZipFailed(b) PROVE ContentInv'
  <2>1. /\ old' = old /\ (restPc' = restPc \/ restPc' # "extract")
        /\ extracted' = extracted \/ extracted' = NoFiles
        /\ (want' = want /\ restPc' = restPc) \/ (want' = NoArchive /\ restPc' = "idle")
    BY <1>9 DEF ZipFailed, RestoreError, RestoreOver
  <2>2. Y(store'.archives)
    <3>1. store'.archives \subseteq store.archives
      BY <1>9, <1>a, WithoutParts DEF ZipFailed
    <3> QED
      BY <1>c, <3>1 DEF Y, SoundArchives
  <2> QED
    BY <1>a, <1>c, <1>e, <1>g, <2>1, <2>2 DEF ContentInv
<1>10. CASE RestoreBegin
  <2>1. /\ UNCHANGED <<store, old, extracted>> /\ restPc' = "backup" /\ want' \in store.archives
    BY <1>10 DEF RestoreBegin
  <2>2. Z(want')
    BY <1>c, <2>1 DEF Y, Z, SoundArchives
  <2> QED
    BY <1>c, <1>g, <2>1, <2>2
<1>11. CASE RestoreOpen
  <2>1. /\ UNCHANGED <<store, extracted, want>> /\ want.done
        /\ \A t \in Second : old'[t] = old[t] \/ old'[t] = NoDir
    BY <1>11, <1>h DEF RestoreOpen
  <2> QED
    BY <1>c, <1>e, <1>g, <2>1
<1>12. CASE RestoreExtract
  <2>1. UNCHANGED <<store, old, want>> /\ restPc' = "rename" /\ extracted' = want.file /\ want.done
    BY <1>12, <1>a DEF RestoreExtract, ContentInv
  <2>2. S(want.file)
    BY <1>c, <2>1 DEF S, Z, SoundFile, SoundArchive
  <2> QED
    BY <1>c, <1>g, <2>1, <2>2
<1>13. CASE RestoreRefused
  <2>1. store'.archives = store.archives /\ extracted' = NoFiles /\ want' = NoArchive /\ restPc' = "idle"
        /\ \A t \in Second : old'[t] = old[t] \/ old'[t] = NoDir
    BY <1>13, <1>h DEF RestoreRefused, RestoreError, RestoreOver
  <2> QED
    BY <1>c, <1>e, <1>g, <2>1
<1>14. CASE RestoreRename
  <2>1. /\ store' = NoDir /\ UNCHANGED <<extracted, want>> /\ restPc' = "swap" /\ writer # "save"
        /\ \A t \in Second : old'[t] = old[t] \/ old'[t] = store
    BY <1>14, <1>a, <1>h DEF RestoreRename, LockInv
  <2> QED
    BY <1>c, <1>d, <1>e, <1>g, <2>1
<1>15. CASE RestoreSwap
  <2>1. /\ store'.archives = {} /\ UNCHANGED <<old, want>> /\ restPc' = "move" /\ extracted' = NoFiles
    BY <1>15 DEF RestoreSwap, EmptyDir
  <2> QED
    BY <1>c, <1>e, <1>g, <2>1
<1>16. CASE RestoreRollback
  <2>1. /\ store' = store \/ store' = old[restTime]
        /\ extracted' = NoFiles /\ want' = NoArchive /\ restPc' = "idle"
        /\ \A t \in Second : old'[t] = old[t] \/ old'[t] = NoDir
    BY <1>16, <1>h DEF RestoreRollback, RestoreError, RestoreOver
  <2> QED
    BY <1>c, <1>e, <1>g, <1>h, <2>1
<1>17. CASE RestoreMove
  <2>1. /\ store' = [store EXCEPT !.archives = old[restTime].archives]
        /\ old' = [old EXCEPT ![restTime].archives = {}]
        /\ UNCHANGED <<extracted, want>> /\ restPc' = "clean"
    BY <1>17 DEF RestoreMove
  <2>2. store'.archives = old[restTime].archives
    BY <1>a, <2>1 DEF IsDir
  <2>3. \A t \in Second : old'[t].file = old[t].file /\ (old'[t].archives = old[t].archives \/ old'[t].archives = {})
    BY <1>a, <1>h, <2>1 DEF TypeOK, IsDir
  <2> QED
    BY <1>c, <1>e, <1>g, <1>h, <2>1, <2>2, <2>3
<1>18. CASE RestoreMoveFailed
  <2>1. store'.archives = store.archives /\ extracted' = NoFiles /\ want' = NoArchive /\ restPc' = "idle"
        /\ \A t \in Second : old'[t] = old[t] \/ old'[t] = NoDir
    BY <1>18, <1>h DEF RestoreMoveFailed, RestoreError, RestoreOver
  <2> QED
    BY <1>c, <1>e, <1>g, <2>1
<1>19. CASE RestoreReturn
  <2>1. store'.archives = store.archives /\ extracted' = NoFiles /\ want' = NoArchive /\ restPc' = "idle"
        /\ \A t \in Second : old'[t] = old[t] \/ old'[t] = NoDir
    BY <1>19, <1>h DEF RestoreReturn, RestoreOver
  <2> QED
    BY <1>c, <1>e, <1>g, <2>1
<1>20. CASE Tick
  <2>1. store'.archives = store.archives /\ UNCHANGED <<old, extracted, want>>
        /\ (restPc' = restPc \/ restPc' # "extract")
    BY <1>20, <1>a DEF Tick
  <2> QED
    BY <1>a, <1>c, <1>g, <2>1 DEF ContentInv
<1>21. CASE Crash
  <2>1. store'.archives = store.archives /\ extracted' = NoFiles /\ want' = NoArchive /\ restPc' = "idle"
        /\ \A t \in Second : old'[t] = old[t] \/ old'[t] = NoDir
    BY <1>21, <1>h DEF Crash, RestoreOver
  <2> QED
    BY <1>c, <1>e, <1>g, <2>1
<1> QED
  BY <1>1, <1>2, <1>3, <1>4, <1>5, <1>6, <1>7, <1>8, <1>9, <1>10, <1>11, <1>12,
     <1>13, <1>14, <1>15, <1>16, <1>17, <1>18, <1>19, <1>20, <1>21 DEF Next, Save,
     Zip, Restore

LEMMA ReadStep == StoreInv /\ Next => ReadInv'
  BY LockStep, SaveStep, ContentStep DEF ReadInv

-----------------------------------------------------------------------------
(* The archives                                                             *)

LEMMA NumberedSub ==
  ASSUME NEW z, NEW A, Numbered(z, A), NEW B \in SUBSET A
  PROVE  Numbered(z, B)
  BY FS_Subset DEF Numbered

LEMMA NumberedAdd ==
  ASSUME NEW z \in Nat, NEW A \in SUBSET Archive, Numbered(z, A), NEW new,
         new.no = z + 1, \A a \in A : a.name # new.name
  PROVE  Numbered(z + 1, A \cup {new})
<1>1. IsFiniteSet(A \cup {new})
  BY FS_AddElement DEF Numbered
<1>2. \A a \in A : a.no \in Nat /\ a.no <= z
  BY ArchiveParts DEF Numbered
<1> QED
  BY <1>1, <1>2 DEF Numbered

(* Writing to an archive keeps the names and stays in the range of numbers.    *)
LEMMA NumberedRewritten ==
  ASSUME TypeOK, Numbered(zips, store.archives), NEW b \in Zipper
  PROVE  Numbered(zips, {Rewritten(b, a) : a \in store.archives})
<1> DEFINE A == store.archives
           W == {Rewritten(b, a) : a \in A}
<1>1. IsFiniteSet(W)
  <2> DEFINE f == [a \in A |-> Rewritten(b, a)]
  <2>1. f \in Surjection(A, W)
    BY DEF Surjection
  <2>2. IsFiniteSet(A)
    BY DEF Numbered
  <2> QED
    BY <2>1, <2>2, FS_Surjection
<1>2. \A a \in A : Rewritten(b, a).name = a.name /\ Rewritten(b, a).no = NewNo(A, zipName[b], a)
  BY DEF Rewritten
<1>3. \A a \in A : Rewritten(b, a).no <= zips
  <2> SUFFICES ASSUME NEW a \in A PROVE Rewritten(b, a).no <= zips
    OBVIOUS
  <2>1. IsDir(store) /\ zips \in Nat
    BY DEF TypeOK
  <2>2. NewNo(A, zipName[b], a) \in 0 .. zips
    BY <2>1, NewNoIs
  <2> QED
    BY <1>2, <2>1, <2>2
<1>4. \A a, o \in A : a.name = o.name => a = o
  BY DEF Numbered
<1>5. \A x, y \in W : x.name = y.name => x = y
  BY <1>2, <1>4
<1>6. \A x \in W : x.no <= zips
  BY <1>3
<1> QED
  BY <1>1, <1>5, <1>6 DEF Numbered

NumberedDirs ==
  Numbered(zips, store.archives) /\ \A t \in Second : Numbered(zips, old[t].archives)

(* No two archives get the same name, and none a number above the last.        *)
LEMMA NumberedStep == StoreInv /\ Next => NumberedDirs'
<1> SUFFICES ASSUME StoreInv, Next
             PROVE  NumberedDirs'
  OBVIOUS
<1>a. /\ TypeOK /\ NumberedDirs /\ zips \in Nat /\ IsDir(store) /\ store.archives \in SUBSET Archive
      /\ DOMAIN old = Second /\ restTime \in Second /\ time \in Second
  BY DirParts DEF StoreInv, RollInv, NumberedDirs, TypeOK
<1>b. \A B \in SUBSET store.archives : Numbered(zips, B)
  BY <1>a, NumberedSub DEF NumberedDirs
<1>c. Numbered(zips, NoDir.archives) /\ Numbered(zips, {})
  BY FS_EmptySet DEF Numbered, NoDir
<1> USE DEF lockVars, saveVars, zipVars, restVars
<1>1. CASE SaveBegin
  <2>1. /\ store'.archives = store.archives /\ zips' = zips
        /\ \A t \in Second : old'[t] = old[t]
    BY <1>1, <1>a, MadeParts DEF SaveBegin
  <2> QED
    BY <1>a, <1>b, <1>c, <2>1 DEF NumberedDirs
<1>2. CASE SaveFile
  <2>1. /\ store'.archives = store.archives /\ zips' = zips
        /\ \A t \in Second : old'[t] = old[t]
    BY <1>2, <1>a, SavedFile DEF SaveFile
  <2> QED
    BY <1>a, <1>b, <1>c, <2>1 DEF NumberedDirs
<1>3. CASE SaveFailed
  <2>1. /\ store'.archives = store.archives /\ zips' = zips
        /\ \A t \in Second : old'[t] = old[t]
    BY <1>3, <1>a DEF SaveFailed
  <2> QED
    BY <1>a, <1>b, <1>c, <2>1 DEF NumberedDirs
<1>4. CASE SaveReturn
  <2>1. /\ store'.archives = store.archives /\ zips' = zips
        /\ \A t \in Second : old'[t] = old[t]
    BY <1>4, <1>a DEF SaveReturn
  <2> QED
    BY <1>a, <1>b, <1>c, <2>1 DEF NumberedDirs
<1>5. ASSUME NEW b \in Backuper, BackupBegin(b) PROVE NumberedDirs'
  <2>1. /\ store'.archives = store.archives /\ zips' = zips
        /\ \A t \in Second : old'[t] = old[t]
    BY <1>5, <1>a, MadeParts DEF BackupBegin
  <2> QED
    BY <1>a, <1>b, <1>c, <2>1 DEF NumberedDirs
<1>6. ASSUME NEW b \in Zipper, ZipCreate(b) PROVE NumberedDirs'
  <2> DEFINE new == [name |-> zipName[b], no |-> zips + 1, file |-> NoFiles, done |-> FALSE]
             B == {a \in store.archives : a.name # zipName[b]}
  <2>1. store'.archives = B \cup {new} /\ zips' = zips + 1 /\ old' = old
    BY <1>6, <1>a, CreatedArchives DEF ZipCreate
  <2>2. /\ B \in SUBSET Archive /\ Numbered(zips, B) /\ new.no = zips + 1 /\ new.name = zipName[b]
        /\ \A a \in B : a.name # zipName[b]
    BY <1>a, <1>b
  <2> HIDE DEF B, new
  <2>3. Numbered(zips + 1, B \cup {new})
    BY <1>a, <2>2, NumberedAdd
  <2>4. \A t \in Second : Numbered(zips + 1, old[t].archives)
    <3> SUFFICES ASSUME NEW t \in Second PROVE Numbered(zips + 1, old[t].archives)
      OBVIOUS
    <3>1. \A a \in old[t].archives : a.no \in Nat
      BY <1>a, DirParts, ArchiveParts DEF TypeOK
    <3> QED
      BY <1>a, <3>1 DEF NumberedDirs, Numbered
  <2> QED
    BY <2>1, <2>3, <2>4 DEF NumberedDirs
<1>7. ASSUME NEW b \in Zipper, ZipWrite(b) PROVE NumberedDirs'
  <2>1. store'.archives = {Rewritten(b, a) : a \in store.archives}
    BY <1>7, <1>a, WrittenArchives
  <2>2. zips' = zips /\ old' = old
    BY <1>7 DEF ZipWrite
  <2> QED
    BY <1>7, <1>a, <2>1, <2>2, NumberedRewritten DEF NumberedDirs
<1>8. ASSUME NEW b \in Zipper, ZipPrune(b) PROVE NumberedDirs'
  <2>1. /\ store'.archives \in SUBSET store.archives /\ zips' = zips
        /\ \A t \in Second : old'[t] = old[t]
    BY <1>8, <1>a, PrunedArchives DEF ZipPrune
  <2> QED
    BY <1>a, <1>b, <1>c, <2>1 DEF NumberedDirs
<1>9. ASSUME NEW b \in Zipper, ZipFailed(b) PROVE NumberedDirs'
  <2>1. /\ store'.archives \in SUBSET store.archives /\ zips' = zips
        /\ \A t \in Second : old'[t] = old[t]
    BY <1>9, <1>a, WithoutParts DEF ZipFailed
  <2> QED
    BY <1>a, <1>b, <1>c, <2>1 DEF NumberedDirs
<1>10. CASE RestoreBegin
  <2>1. /\ store'.archives = store.archives /\ zips' = zips
        /\ \A t \in Second : old'[t] = old[t]
    BY <1>10, <1>a DEF RestoreBegin
  <2> QED
    BY <1>a, <1>b, <1>c, <2>1 DEF NumberedDirs
<1>11. CASE RestoreOpen
  <2>1. /\ store'.archives = store.archives /\ zips' = zips
        /\ \A t \in Second : old'[t] = old[t] \/ old'[t] = NoDir
    BY <1>11, <1>a DEF RestoreOpen
  <2> QED
    BY <1>a, <1>b, <1>c, <2>1 DEF NumberedDirs
<1>12. CASE RestoreExtract
  <2>1. /\ store'.archives = store.archives /\ zips' = zips
        /\ \A t \in Second : old'[t] = old[t]
    BY <1>12, <1>a DEF RestoreExtract
  <2> QED
    BY <1>a, <1>b, <1>c, <2>1 DEF NumberedDirs
<1>13. CASE RestoreRefused
  <2>1. /\ store'.archives = store.archives /\ zips' = zips
        /\ \A t \in Second : old'[t] = old[t]
    BY <1>13, <1>a DEF RestoreRefused
  <2> QED
    BY <1>a, <1>b, <1>c, <2>1 DEF NumberedDirs
<1>14. CASE RestoreRename
  <2>1. /\ store'.archives = {} /\ zips' = zips
        /\ \A t \in Second : old'[t] = old[t] \/ old'[t] = store
    BY <1>14, <1>a DEF RestoreRename, NoDir
  <2> QED
    BY <1>a, <1>b, <1>c, <2>1 DEF NumberedDirs
<1>15. CASE RestoreSwap
  <2>1. /\ store'.archives = {} /\ zips' = zips
        /\ \A t \in Second : old'[t] = old[t]
    BY <1>15, <1>a DEF RestoreSwap, EmptyDir
  <2> QED
    BY <1>a, <1>b, <1>c, <2>1 DEF NumberedDirs
<1>16. CASE RestoreRollback
  <2>1. /\ store' = store \/ store' = old[restTime]
        /\ zips' = zips /\ \A t \in Second : old'[t] = old[t] \/ old'[t] = NoDir
    BY <1>16, <1>a DEF RestoreRollback
  <2> QED
    BY <1>a, <1>c, <2>1 DEF NumberedDirs
<1>17. CASE RestoreMove
  <2>1. /\ store' = [store EXCEPT !.archives = old[restTime].archives] /\ zips' = zips
        /\ old' = [old EXCEPT ![restTime].archives = {}]
    BY <1>17 DEF RestoreMove
  <2>2. store'.archives = old[restTime].archives
    BY <1>a, <2>1 DEF IsDir
  <2>3. \A t \in Second : old'[t].archives = old[t].archives \/ old'[t].archives = {}
    BY <1>a, <2>1 DEF TypeOK, IsDir
  <2> QED
    BY <1>a, <1>c, <2>1, <2>2, <2>3 DEF NumberedDirs
<1>18. CASE RestoreMoveFailed
  <2>1. /\ store'.archives = store.archives /\ zips' = zips
        /\ \A t \in Second : old'[t] = old[t]
    BY <1>18, <1>a DEF RestoreMoveFailed
  <2> QED
    BY <1>a, <1>b, <1>c, <2>1 DEF NumberedDirs
<1>19. CASE RestoreReturn
  <2>1. /\ store'.archives = store.archives /\ zips' = zips
        /\ \A t \in Second : old'[t] = old[t] \/ old'[t] = NoDir
    BY <1>19, <1>a DEF RestoreReturn
  <2> QED
    BY <1>a, <1>b, <1>c, <2>1 DEF NumberedDirs
<1>20. CASE Tick
  <2>1. /\ store'.archives = store.archives /\ zips' = zips
        /\ \A t \in Second : old'[t] = old[t]
    BY <1>20, <1>a DEF Tick
  <2> QED
    BY <1>a, <1>b, <1>c, <2>1 DEF NumberedDirs
<1>21. CASE Crash
  <2>1. /\ store'.archives = store.archives /\ zips' = zips
        /\ \A t \in Second : old'[t] = old[t]
    BY <1>21, <1>a DEF Crash
  <2> QED
    BY <1>a, <1>b, <1>c, <2>1 DEF NumberedDirs
<1> QED
  BY <1>1, <1>2, <1>3, <1>4, <1>5, <1>6, <1>7, <1>8, <1>9, <1>10, <1>11, <1>12,
     <1>13, <1>14, <1>15, <1>16, <1>17, <1>18, <1>19, <1>20, <1>21 DEF Next, Save,
     Zip, Restore

-----------------------------------------------------------------------------
(* Restore                                                                  *)

(* A Restore takes its steps in order, and its safety backup is the newest.    *)
LEMMA RestoreStep == StoreInv /\ Next => RestoreInv'
<1> SUFFICES ASSUME StoreInv, Next
             PROVE  RestoreInv'
  OBVIOUS
<1>a. /\ TypeOK /\ LockInv /\ RestoreInv /\ NumberedDirs /\ zips \in Nat /\ IsDir(store)
      /\ DOMAIN old = Second /\ restTime \in Second /\ time \in Second
      /\ "restore" \in Zipper /\ "restore" \notin Backuper /\ Zipper = Backuper \cup {"restore"}
      /\ zipPc \in [Zipper -> {"idle", "named", "writing", "prune"}] /\ DOMAIN zipName = Zipper
  BY StoreAssumption DEF StoreInv, ReadInv, RollInv, NumberedDirs, TypeOK, Zipper
<1>b. restPc' = "idle" => RestoreInv'
  BY DEF RestoreInv
<1>c. restPc # "idle" => /\ savePc = Idle /\ writer = "restore"
                         /\ \A b \in Backuper : zipPc[b] = "idle"
  BY <1>a DEF LockInv
<1> USE DEF lockVars, saveVars, zipVars, restVars
<1>1. CASE SaveBegin
  <2>1. restPc = "idle" /\ restPc' = restPc
    BY <1>1, <1>c DEF SaveBegin
  <2> QED
    BY <1>b, <2>1
<1>2. CASE SaveFile
  <2>1. restPc = "idle" /\ restPc' = restPc
    BY <1>2, <1>c DEF SaveFile, Idle
  <2> QED
    BY <1>b, <2>1
<1>3. CASE SaveFailed
  <2>1. restPc = "idle" /\ restPc' = restPc
    BY <1>3, <1>c DEF SaveFailed, Idle
  <2> QED
    BY <1>b, <2>1
<1>4. CASE SaveReturn
  <2>1. restPc = "idle" /\ restPc' = restPc
    BY <1>4, <1>c DEF SaveReturn, Idle
  <2> QED
    BY <1>b, <2>1
<1>5. ASSUME NEW b \in Backuper, BackupBegin(b) PROVE RestoreInv'
  <2>1. restPc = "idle" /\ restPc' = restPc
    BY <1>5, <1>c DEF BackupBegin
  <2> QED
    BY <1>b, <2>1
<1>6. ASSUME NEW b \in Zipper, ZipCreate(b) PROVE RestoreInv'
  <2>1. CASE b \in Backuper
    <3>1. restPc = "idle" /\ restPc' = "idle"
      BY <1>6, <1>a, <1>c, <2>1 DEF ZipCreate
    <3> QED
      BY <1>b, <3>1
  <2>2. CASE b = "restore"
    <3>1. /\ zips' = zips + 1 /\ zipPc'["restore"] = "writing" /\ restPc = "backup"
          /\ UNCHANGED <<restPc, before, zipName>>
      BY <1>6, <1>a, <2>2 DEF ZipCreate, LockInv
    <3>2. /\ store'.there = store.there /\ store'.file = store.file
          /\ [name |-> zipName["restore"], no |-> zips + 1, file |-> NoFiles, done |-> FALSE] \in store'.archives
      BY <1>6, <1>a, <2>2, CreatedArchives
    <3>4. \E a \in store'.archives : a.name = zipName["restore"] /\ a.no = zips + 1
      BY <3>2
    <3>3. before = store.file /\ store.there /\ zips + 1 > 0
      BY <1>a, <3>1 DEF RestoreInv
    <3> QED
      BY <3>1, <3>2, <3>3, <3>4 DEF RestoreInv
  <2> QED
    BY <1>a, <2>1, <2>2
<1>7. ASSUME NEW b \in Zipper, ZipWrite(b) PROVE RestoreInv'
  <2>1. CASE b \in Backuper
    <3>1. restPc = "idle" /\ restPc' = "idle"
      BY <1>7, <1>a, <1>c, <2>1 DEF ZipWrite
    <3> QED
      BY <1>b, <3>1
  <2>2. CASE b = "restore"
    <3>1. /\ zipPc'["restore"] = "prune" /\ restPc = "backup" /\ zipPc["restore"] = "writing"
          /\ UNCHANGED <<restPc, before, zips>>
      BY <1>7, <1>a, <2>2 DEF ZipWrite, LockInv
    <3>2. /\ store'.there = store.there /\ store'.file = store.file
          /\ store'.archives = {Rewritten("restore", a) : a \in store.archives}
      BY <1>7, <1>a, <2>2, WrittenArchives
    <3>3. before = store.file /\ store.there /\ zips > 0
      BY <1>a, <3>1 DEF RestoreInv
    <3>4. PICK a \in store.archives : a.name = zipName["restore"]
      BY <1>a, <3>1 DEF RestoreInv
    <3> DEFINE s == Rewritten("restore", a)
               no(o) == NewNo(store.archives, zipName["restore"], o)
    <3>5. Alone("restore")
      BY <1>a, <1>c, <3>1 DEF Alone
    <3>6. s \in store'.archives /\ s.done /\ s.file = before /\ s.no = no(a)
      BY <3>2, <3>3, <3>4, <3>5 DEF Rewritten
    <3>7. ASSUME NEW o \in store.archives PROVE ~(Rewritten("restore", o).no > s.no)
      <4>1. Rewritten("restore", o).no = no(o)
        BY DEF Rewritten
      <4>2. \A x \in store.archives : x.no \in Nat
        BY <1>a, DirParts, ArchiveParts
      <4>3. /\ no(a) \in Nat /\ no(o) \in Nat /\ o.no <= no(a)
            /\ o.name # zipName["restore"] => no(o) <= o.no
        <5>1. Numbered(zips, store.archives)
          BY <1>a DEF NumberedDirs
        <5>2. /\ no(a) \in 0 .. zips /\ \A x \in store.archives : x.no <= no(a)
          BY <1>a, <3>4, <5>1, NewNoIs
        <5>3. /\ no(o) \in 0 .. zips
              /\ o.name # zipName["restore"] => no(o) <= o.no
          BY <1>a, <5>1, NewNoIs
        <5> HIDE DEF no
        <5> QED
          BY <1>a, <5>2, <5>3
      <4>4. o.name = zipName["restore"] => no(o) = no(a)
        BY <3>4 DEF NewNo
      <4> HIDE DEF s, no
      <4> QED
        BY <3>6, <4>1, <4>2, <4>3, <4>4
    <3>8. Newest(store'.archives, before)
      <4>1. Newer(store'.archives, s) = {}
        BY <3>2, <3>7 DEF Newer
      <4> HIDE DEF s
      <4> QED
        BY <3>6, <4>1 DEF Newest
    <3> QED
      BY <3>1, <3>2, <3>3, <3>8 DEF RestoreInv
  <2> QED
    BY <1>a, <2>1, <2>2
<1>8. ASSUME NEW b \in Zipper, ZipPrune(b) PROVE RestoreInv'
  <2>1. CASE b \in Backuper
    <3>1. restPc = "idle" /\ restPc' = "idle"
      BY <1>8, <1>a, <1>c, <2>1 DEF ZipPrune
    <3> QED
      BY <1>b, <3>1
  <2>2. CASE b = "restore"
    <3>1. restPc = "backup" /\ restPc' = "open" /\ zipPc["restore"] = "prune" /\ UNCHANGED <<before, zips>>
      BY <1>8, <1>a, <2>2 DEF ZipPrune, LockInv
    <3>2. /\ store'.there = store.there /\ store'.file = store.file
          /\ store'.archives = Pruned(store.archives)
      BY <1>8, <1>a, <2>2, PrunedArchives
    <3>3. before = store.file /\ store.there /\ zips > 0 /\ Newest(store.archives, before)
      BY <1>a, <3>1 DEF RestoreInv
    <3>4. PICK s \in store.archives : s.done /\ s.file = before /\ Newer(store.archives, s) = {}
      BY <3>3 DEF Newest
    <3>5. Cardinality({o \in store.archives : o.no > s.no}) = 0
      BY <3>4, FS_EmptySet DEF Newer
    <3>6. s \in Pruned(store.archives) /\ Newer(Pruned(store.archives), s) = {}
      BY <3>4, <3>5, StoreAssumption DEF Pruned, Newer
    <3> QED
      BY <3>1, <3>2, <3>3, <3>4, <3>6 DEF RestoreInv, Newest
  <2> QED
    BY <1>a, <2>1, <2>2
<1>9. ASSUME NEW b \in Zipper, ZipFailed(b) PROVE RestoreInv'
  <2>1. CASE b \in Backuper
    <3>1. restPc = "idle" /\ restPc' = "idle"
      BY <1>9, <1>a, <1>c, <2>1 DEF ZipFailed
    <3> QED
      BY <1>b, <3>1
  <2>2. CASE b = "restore"
    BY <1>9, <1>b, <2>2 DEF ZipFailed, RestoreError, RestoreOver
  <2> QED
    BY <1>a, <2>1, <2>2
<1>10. CASE RestoreBegin
  <2>1. /\ restPc' = "backup" /\ before' = store.file /\ store' = store /\ zipPc'["restore"] = "named"
        /\ store.there
    BY <1>10, <1>a, DirParts DEF RestoreBegin
  <2> QED
    BY <2>1 DEF RestoreInv
<1>11. CASE RestoreOpen
  <2>1. restPc = "open" /\ restPc' = "extract" /\ UNCHANGED <<store, before, zips>>
    BY <1>11 DEF RestoreOpen
  <2> QED
    BY <1>a, <2>1 DEF RestoreInv
<1>12. CASE RestoreExtract
  <2>1. /\ restPc = "extract" /\ restPc' = "rename" /\ extracted' = want.file
        /\ UNCHANGED <<store, before, zips, want>>
    BY <1>12 DEF RestoreExtract
  <2> QED
    BY <1>a, <2>1 DEF RestoreInv
<1>13. CASE RestoreRefused
  BY <1>13, <1>b DEF RestoreRefused, RestoreError, RestoreOver
<1>14. CASE RestoreRename
  <2>1. /\ restPc = "rename" /\ restPc' = "swap" /\ old'[restTime] = store
        /\ base' = [file |-> store.file, zips |-> zips, swept |-> FALSE]
        /\ UNCHANGED <<before, zips, want, extracted, restTime>>
    BY <1>14, <1>a DEF RestoreRename
  <2>2. base'.file = store.file /\ base'.zips = zips
    BY <2>1
  <2> QED
    BY <1>a, <2>1, <2>2 DEF RestoreInv
<1>15. CASE RestoreSwap
  <2>1. /\ restPc = "swap" /\ restPc' = "move" /\ UNCHANGED <<old, before, zips, want, base, restTime>>
        /\ store'.file = extracted /\ store'.there
    BY <1>15 DEF RestoreSwap, EmptyDir
  <2> QED
    BY <1>a, <2>1 DEF RestoreInv
<1>16. CASE RestoreRollback
  BY <1>16, <1>b DEF RestoreRollback, RestoreError, RestoreOver
<1>17. CASE RestoreMove
  <2>1. /\ restPc = "move" /\ restPc' = "clean" /\ UNCHANGED <<before, zips, want, base>>
        /\ store' = [store EXCEPT !.archives = old[restTime].archives]
    BY <1>17 DEF RestoreMove
  <2>2. store'.archives = old[restTime].archives /\ store'.file = store.file /\ store'.there = store.there
    BY <1>a, <2>1 DEF IsDir
  <2> QED
    BY <1>a, <2>1, <2>2 DEF RestoreInv
<1>18. CASE RestoreMoveFailed
  BY <1>18, <1>b DEF RestoreMoveFailed, RestoreError, RestoreOver
<1>19. CASE RestoreReturn
  BY <1>19, <1>b DEF RestoreReturn, RestoreOver
<1>20. CASE Tick
  <2>1. UNCHANGED <<store, old, extracted, restPc, restTime, want, before, base, zipPc, zipName, zips>>
    BY <1>20 DEF Tick
  <2> QED
    BY <1>a, <2>1 DEF RestoreInv
<1>21. CASE Crash
  BY <1>21, <1>b DEF Crash, RestoreOver
<1> QED
  BY <1>1, <1>2, <1>3, <1>4, <1>5, <1>6, <1>7, <1>8, <1>9, <1>10, <1>11, <1>12,
     <1>13, <1>14, <1>15, <1>16, <1>17, <1>18, <1>19, <1>20, <1>21 DEF Next, Save,
     Zip, Restore

(* The newer archives are finitely many.                                       *)
LEMMA NewerFinite ==
  ASSUME NEW z, NEW A, Numbered(z, A), NEW s
  PROVE  IsFiniteSet(Newer(A, s)) /\ Cardinality(Newer(A, s)) \in Nat
<1>1. IsFiniteSet(Newer(A, s))
  BY FS_Subset DEF Numbered, Newer
<1> QED
  BY <1>1, FS_CardinalityType

(* Fewer archives have fewer newer ones.                                      *)
LEMMA SafeSub ==
  ASSUME NEW z, NEW A, Numbered(z, A), NEW B \in SUBSET A, NEW pc, NEW qc, NEW name, NEW rname,
         NEW n \in Int, NEW content, NEW s \in B, Safe(A, pc, name, n, content, s),
         \A b \in Zipper : qc[b] # "idle" => qc[b] = pc[b] /\ rname[b] = name[b]
  PROVE  Safe(B, qc, rname, n, content, s)
<1>1. Cardinality(Newer(B, s)) <= Cardinality(Newer(A, s))
  <2>1. Newer(B, s) \subseteq Newer(A, s)
    BY DEF Newer
  <2> QED
    BY <2>1, NewerFinite, FS_Subset
<1>2. Cardinality(Newer(A, s)) \in Nat /\ Cardinality(Newer(B, s)) \in Nat
  BY NewerFinite, NumberedSub
<1>3. Apart(B, qc, rname, s)
  BY DEF Safe, Apart
<1>4. Cardinality(Newer(A, s)) <= n
  BY DEF Safe
<1>5. Cardinality(Newer(B, s)) <= n
  BY <1>1, <1>2, <1>4
<1> QED
  BY <1>3, <1>5 DEF Safe

(* One more archive.                                                          *)
LEMMA SafeAdd ==
  ASSUME NEW z \in Nat, NEW A \in SUBSET Archive, Numbered(z, A), NEW new, new.no = z + 1,
         NEW pc, NEW qc, NEW name, NEW n \in Int, NEW content, NEW s \in A,
         Safe(A, pc, name, n, content, s),
         \A b \in Zipper : qc[b] = pc[b] \/ (pc[b] = "named" /\ qc[b] = "writing" /\ new.name = name[b]
                                              /\ \A a \in A : a.name # name[b])
  PROVE  Safe(A \cup {new}, qc, name, n + 1, content, s)
<1>0. s.no \in Nat /\ s.no <= z
  BY ArchiveParts DEF Numbered
<1>1. Newer(A \cup {new}, s) \subseteq Newer(A, s) \cup {new}
  BY DEF Newer
<1>2. IsFiniteSet(Newer(A, s)) /\ Cardinality(Newer(A, s)) \in Nat
  BY NewerFinite
<1>3. /\ IsFiniteSet(Newer(A, s) \cup {new})
      /\ Cardinality(Newer(A, s) \cup {new}) <= Cardinality(Newer(A, s)) + 1
  <2>1. /\ IsFiniteSet(Newer(A, s) \cup {new})
        /\ Cardinality(Newer(A, s) \cup {new}) =
             IF new \in Newer(A, s) THEN Cardinality(Newer(A, s)) ELSE Cardinality(Newer(A, s)) + 1
    BY <1>2, FS_AddElement
  <2> QED
    BY <1>2, <2>1
<1>4. /\ Cardinality(Newer(A \cup {new}, s)) <= Cardinality(Newer(A, s) \cup {new})
      /\ Cardinality(Newer(A \cup {new}, s)) \in Nat /\ Cardinality(Newer(A, s) \cup {new}) \in Nat
  BY <1>1, <1>3, FS_Subset, FS_CardinalityType
<1>5. Cardinality(Newer(A \cup {new}, s)) <= n + 1
  <2>1. Cardinality(Newer(A, s)) <= n
    BY DEF Safe
  <2> QED
    BY <1>2, <1>3, <1>4, <2>1
<1>6. Apart(A \cup {new}, qc, name, s)
  <2>1. new.no > s.no
    BY <1>0
  <2>2. Apart(A, pc, name, s)
    BY DEF Safe
  <2> QED
    BY <2>1, <2>2 DEF Apart
<1> QED
  BY <1>5, <1>6 DEF Safe

(* An archive is written to that is newer than s: s stays as it is, with no    *)
(* more archives newer than it.                                               *)
LEMMA SafeRewritten ==
  ASSUME TypeOK, Numbered(zips, store.archives), NEW b \in Zipper, zipPc[b] = "writing",
         NEW qc, NEW n \in Int, NEW content, NEW s \in store.archives,
         Safe(store.archives, zipPc, zipName, n, content, s),
         \A o \in Zipper : qc[o] = zipPc[o] \/ qc[o] = "prune"
  PROVE  /\ s \in {Rewritten(b, a) : a \in store.archives}
         /\ Safe({Rewritten(b, a) : a \in store.archives}, qc, zipName, n, content, s)
<1> DEFINE A == store.archives
           W == {Rewritten(b, a) : a \in A}
           no(a) == NewNo(A, zipName[b], a)
<1>1. IsDir(store) /\ zips \in Nat /\ \A a \in A : a \in Archive /\ a.no \in Nat
  BY DirParts, ArchiveParts DEF TypeOK
<1>2. Apart(A, zipPc, zipName, s)
  BY DEF Safe
<1>3. s.name # zipName[b] /\ \A o \in A : o.name = zipName[b] => o.no > s.no
  BY <1>2 DEF Apart
<1>4. ASSUME NEW a \in A
      PROVE  /\ no(a) \in Nat
             /\ a.name # zipName[b] => no(a) <= a.no
             /\ a.no > s.no => no(a) > s.no
  <2>1. /\ no(a) \in 0 .. zips
        /\ a.name # zipName[b] => no(a) <= a.no
        /\ a.name = zipName[b] => \A o \in A : o.no <= no(a)
        /\ \A t \in A : t.name = zipName[b] /\ a.name # zipName[b] =>
             no(a) = IF t.no < a.no THEN a.no - 1 ELSE a.no
        /\ (\A t \in A : t.name # zipName[b]) => no(a) = a.no
    BY <1>1, NewNoIs
  <2> HIDE DEF no
  <2>2. CASE a.name = zipName[b]
    BY <1>1, <2>1, <2>2
  <2>3. CASE a.name # zipName[b] /\ \A t \in A : t.name # zipName[b]
    BY <1>1, <2>1, <2>3
  <2>4. ASSUME a.name # zipName[b], NEW t \in A, t.name = zipName[b]
        PROVE  /\ no(a) \in Nat
               /\ a.name # zipName[b] => no(a) <= a.no
               /\ a.no > s.no => no(a) > s.no
    <3>1. t.no > s.no /\ no(a) = IF t.no < a.no THEN a.no - 1 ELSE a.no
      BY <1>3, <2>1, <2>4
    <3> QED
      BY <1>1, <2>1, <3>1
  <2> QED
    BY <2>2, <2>3, <2>4
<1>5. \A a \in A : Rewritten(b, a).name = a.name /\ Rewritten(b, a).no = no(a)
  BY DEF Rewritten
<1>6. Rewritten(b, s) = s
  <2>1. no(s) = s.no
    <3>1. /\ \A t \in A : t.name = zipName[b] /\ s.name # zipName[b] =>
             no(s) = IF t.no < s.no THEN s.no - 1 ELSE s.no
          /\ (\A t \in A : t.name # zipName[b]) => no(s) = s.no
      BY <1>1, NewNoIs
    <3> HIDE DEF no
    <3>2. \A t \in A : t.name = zipName[b] => ~(t.no < s.no)
      BY <1>1, <1>3
    <3> QED
      BY <1>1, <1>3, <3>1, <3>2
  <2>2. s = [name |-> s.name, no |-> s.no, file |-> s.file, done |-> s.done]
    BY <1>1, ArchiveParts
  <2>3. Rewritten(b, s) = [name |-> s.name, no |-> no(s), file |-> s.file, done |-> s.done]
    BY <1>3 DEF Rewritten
  <2> HIDE DEF no
  <2> QED
    BY <2>1, <2>2, <2>3
<1> HIDE DEF no
<1>7. \A a \in A : Rewritten(b, a).no > s.no <=> a.no > s.no
  <2> SUFFICES ASSUME NEW a \in A PROVE Rewritten(b, a).no > s.no <=> a.no > s.no
    OBVIOUS
  <2>1. no(a) > s.no => a.no > s.no
    BY <1>1, <1>3, <1>4
  <2> QED
    BY <1>4, <1>5, <2>1
<1>8. IsFiniteSet(Newer(A, s)) /\ Cardinality(Newer(A, s)) \in Nat
  BY NewerFinite
<1>9. /\ IsFiniteSet(Newer(W, s)) /\ Cardinality(Newer(W, s)) <= Cardinality(Newer(A, s))
      /\ Cardinality(Newer(W, s)) \in Nat
  <2> DEFINE f == [a \in Newer(A, s) |-> Rewritten(b, a)]
  <2>1. f \in Surjection(Newer(A, s), Newer(W, s))
    BY <1>7 DEF Surjection, Newer
  <2> HIDE DEF f
  <2>2. IsFiniteSet(Newer(W, s)) /\ Cardinality(Newer(W, s)) <= Cardinality(Newer(A, s))
    BY <1>8, <2>1, FS_Surjection
  <2> QED
    BY <2>2, FS_CardinalityType
<1>10. Apart(W, qc, zipName, s)
  <2>1. \A o \in Zipper : qc[o] = "writing" => \A x \in W : x.name = zipName[o] => x.no > s.no
    BY <1>2, <1>5, <1>7 DEF Apart
  <2>2. \A o \in Zipper : qc[o] \in {"named", "writing"} => zipName[o] # s.name
    BY <1>2 DEF Apart
  <2> QED
    BY <2>1, <2>2 DEF Apart
<1>11. Cardinality(Newer(W, s)) <= n
  <2>1. Cardinality(Newer(A, s)) <= n
    BY DEF Safe
  <2> QED
    BY <1>8, <1>9, <2>1
<1>12. s \in W
  BY <1>6
<1>13. Safe(W, qc, zipName, n, content, s)
  BY <1>10, <1>11 DEF Safe
<1> QED
  BY <1>12, <1>13

(* What the last Restore replaced stays in a directory or in its safety backup. *)
LEMMA BaseStep == StoreInv /\ Next => BaseInv'
<1> SUFFICES ASSUME StoreInv, Next
             PROVE  BaseInv'
  OBVIOUS
<1>a. /\ TypeOK /\ LockInv /\ RestoreInv /\ BaseInv /\ IsDir(store) /\ Numbered(zips, store.archives)
      /\ DOMAIN old = Second /\ restTime \in Second /\ time \in Second
      /\ "restore" \in Zipper /\ Backuper \subseteq Zipper /\ Zipper = Backuper \cup {"restore"}
      /\ zipPc \in [Zipper -> {"idle", "named", "writing", "prune"}] /\ DOMAIN zipName = Zipper
      /\ store.archives \in SUBSET Archive
  BY StoreAssumption, DirParts DEF StoreInv, ReadInv, RollInv, TypeOK, Zipper
<1>b. zips \in Nat /\ base.zips \in Nat /\ base.zips <= zips /\ Retention \in Nat /\ zips - base.zips \in Int
  BY <1>a, StoreAssumption DEF TypeOK, BaseInv
<1> DEFINE Due == base.zips > 0 /\ zips - base.zips < Retention /\ ~base.swept
           Held == \E t \in Second : old[t].there /\ old[t].file = base.file
           S(s) == Safe(store.archives, zipPc, zipName, zips - base.zips, base.file, s)
           Sn(s) == Safe(store'.archives, zipPc', zipName', zips' - base'.zips, base'.file, s)
<1>c. Due => Held \/ \E s \in store.archives : S(s)
  BY <1>a DEF BaseInv
<1>d. /\ base'.zips <= zips'
      /\ Due' => Held' \/ \E s \in store'.archives : Sn(s)
      => BaseInv'
  BY DEF BaseInv
<1>e. FreeName(store) \notin Names(store)
  <2>1. time \in Nat /\ IsFiniteSet(store.archives)
    BY <1>a, StoreAssumption DEF Second, Numbered
  <2> QED
    BY <2>1, FreeNameIsFree
<1>f. restPc # "idle" /\ restPc # "backup" => \A b \in Zipper : zipPc[b] = "idle"
  BY <1>a DEF LockInv
<1>g. old' = old /\ base' = base => (Held' <=> Held)
  OBVIOUS
<1> USE DEF lockVars, saveVars, zipVars, restVars
<1>1. CASE SaveBegin
  <2>1. store'.archives = store.archives /\ UNCHANGED <<old, zipPc, zipName, zips, base>>
    BY <1>1, <1>a, MadeParts DEF SaveBegin
  <2> QED
    BY <1>a, <2>1 DEF BaseInv
<1>2. CASE SaveFile
  <2>1. store'.archives = store.archives /\ UNCHANGED <<old, zipPc, zipName, zips, base>>
    BY <1>2, <1>a, SavedFile DEF SaveFile
  <2> QED
    BY <1>a, <2>1 DEF BaseInv
<1>3. CASE SaveFailed
  <2>1. store'.archives = store.archives /\ UNCHANGED <<old, zipPc, zipName, zips, base>>
    BY <1>3, <1>a DEF SaveFailed
  <2> QED
    BY <1>a, <2>1 DEF BaseInv
<1>4. CASE SaveReturn
  <2>1. store'.archives = store.archives /\ UNCHANGED <<old, zipPc, zipName, zips, base>>
    BY <1>4, <1>a DEF SaveReturn
  <2> QED
    BY <1>a, <2>1 DEF BaseInv
<1>5. ASSUME NEW b \in Backuper, BackupBegin(b) PROVE BaseInv'
  <2>1. /\ store'.archives = store.archives /\ UNCHANGED <<old, zips, base>>
        /\ zipPc' = [zipPc EXCEPT ![b] = "named"]
        /\ zipName' = [zipName EXCEPT ![b] = FreeName(store)]
    BY <1>5, <1>a, MadeParts DEF BackupBegin
  <2>2. ASSUME NEW s \in store.archives, S(s) PROVE Sn(s)
    <3>1. FreeName(store) # s.name
      BY <1>e DEF Names
    <3>2. Apart(store.archives, zipPc', zipName', s)
      BY <1>a, <2>1, <2>2, <3>1 DEF Safe, Apart
    <3> QED
      BY <2>1, <2>2, <3>2 DEF Safe
  <2> HIDE DEF S, Sn, Held
  <2> QED
    BY <1>b, <1>c, <1>d, <1>g, <2>1, <2>2
<1>6. ASSUME NEW b \in Zipper, ZipCreate(b) PROVE BaseInv'
  <2> DEFINE new == [name |-> zipName[b], no |-> zips + 1, file |-> NoFiles, done |-> FALSE]
             B == {a \in store.archives : a.name # zipName[b]}
  <2>1. /\ store'.archives = B \cup {new} /\ zips' = zips + 1 /\ UNCHANGED <<old, base, zipName>>
        /\ zipPc[b] = "named" /\ zipPc' = [zipPc EXCEPT ![b] = "writing"]
    BY <1>6, <1>a, CreatedArchives DEF ZipCreate
  <2>2. ASSUME NEW s \in store.archives, S(s) PROVE s \in store'.archives /\ Sn(s)
    <3>1. s \in B /\ B \in SUBSET store.archives /\ B \in SUBSET Archive
      BY <1>a, <2>1, <2>2 DEF Safe, Apart
    <3>2. /\ new.no = zips + 1 /\ \A o \in Zipper : zipPc'[o] = zipPc[o] \/
                (zipPc[o] = "named" /\ zipPc'[o] = "writing" /\ new.name = zipName[o]
                  /\ \A a \in B : a.name # zipName[o])
      BY <1>a, <2>1
    <3> HIDE DEF B, new
    <3>3. Numbered(zips, B)
      BY <1>a, <3>1, NumberedSub
    <3>4. Safe(B, zipPc, zipName, zips - base.zips, base.file, s)
      BY <1>a, <1>b, <2>2, <3>1, SafeSub
    <3>5. Safe(B \cup {new}, zipPc', zipName, zips - base.zips + 1, base.file, s)
      BY <1>b, <3>1, <3>2, <3>3, <3>4, SafeAdd
    <3>6. zips - base.zips + 1 = zips' - base.zips
      BY <1>b, <2>1
    <3> QED
      BY <2>1, <3>1, <3>5, <3>6
  <2>3. Due' => Due
    BY <1>b, <2>1
  <2>4. base'.zips <= zips'
    BY <1>b, <2>1
  <2> HIDE DEF S, Sn, Held, Due
  <2> QED
    BY <1>c, <1>d, <1>g, <2>1, <2>2, <2>3, <2>4
<1>7. ASSUME NEW b \in Zipper, ZipWrite(b) PROVE BaseInv'
  <2>1. zipPc[b] = "writing" /\ zipPc' = [zipPc EXCEPT ![b] = "prune"] /\ UNCHANGED <<old, base, zipName, zips>>
    BY <1>7 DEF ZipWrite
  <2>2. ASSUME NEW s \in store.archives, S(s) PROVE s \in store'.archives /\ Sn(s)
    <3>1. \A o \in Zipper : zipPc'[o] = zipPc[o] \/ zipPc'[o] = "prune"
      BY <1>a, <2>1
    <3>2. store'.archives = {Rewritten(b, a) : a \in store.archives}
      BY <1>7, <1>a, WrittenArchives
    <3> DEFINE W == {Rewritten(b, a) : a \in store.archives}
    <3>3. s \in W /\ Safe(W, zipPc', zipName, zips - base.zips, base.file, s)
      BY <1>7, <1>a, <1>b, <2>1, <2>2, <3>1, SafeRewritten
    <3> HIDE DEF W
    <3> QED
      BY <2>1, <3>2, <3>3 DEF W
  <2>3. (Due' <=> Due) /\ base'.zips <= zips'
    BY <1>b, <2>1
  <2> HIDE DEF S, Sn, Held, Due
  <2> QED
    BY <1>c, <1>d, <1>g, <2>1, <2>2, <2>3
<1>8. ASSUME NEW b \in Zipper, ZipPrune(b) PROVE BaseInv'
  <2>1. /\ zipPc' = [zipPc EXCEPT ![b] = "idle"] /\ zipName' = [zipName EXCEPT ![b] = NoName]
        /\ UNCHANGED <<old, base, zips>>
    BY <1>8 DEF ZipPrune
  <2>2. ASSUME Due, NEW s \in store.archives, S(s) PROVE s \in store'.archives /\ Sn(s)
    <3>1. store'.archives = Pruned(store.archives) /\ store'.archives \in SUBSET store.archives
      BY <1>8, <1>a, PrunedArchives
    <3>2. s \in Pruned(store.archives)
      <4>1. Newer(store.archives, s) = {o \in store.archives : o.no > s.no}
        BY DEF Newer
      <4>2. Cardinality(Newer(store.archives, s)) \in Nat
        BY <1>a, NewerFinite
      <4>3. Cardinality(Newer(store.archives, s)) <= zips - base.zips
        BY <2>2 DEF Safe
      <4>4. Cardinality(Newer(store.archives, s)) < Retention
        BY <1>b, <2>2, <4>2, <4>3
      <4> QED
        BY <4>1, <4>4 DEF Pruned
    <3>3. \A o \in Zipper : zipPc'[o] # "idle" => zipPc'[o] = zipPc[o] /\ zipName'[o] = zipName[o]
      BY <1>a, <2>1
    <3>4. Safe(store'.archives, zipPc', zipName', zips - base.zips, base.file, s)
      BY <1>a, <1>b, <2>2, <3>1, <3>2, <3>3, SafeSub
    <3> QED
      BY <2>1, <3>1, <3>2, <3>4
  <2>3. (Due' <=> Due) /\ base'.zips <= zips'
    BY <1>b, <2>1
  <2> HIDE DEF S, Sn, Held, Due
  <2> QED
    BY <1>c, <1>d, <1>g, <2>1, <2>2, <2>3
<1>9. ASSUME NEW b \in Zipper, ZipFailed(b) PROVE BaseInv'
  <2>1. /\ zipPc' = [zipPc EXCEPT ![b] = "idle"] /\ zipName' = [zipName EXCEPT ![b] = NoName]
        /\ UNCHANGED <<old, base, zips>>
    BY <1>9 DEF ZipFailed
  <2>2. ASSUME NEW s \in store.archives, S(s) PROVE s \in store'.archives /\ Sn(s)
    <3>1. s \in store'.archives /\ store'.archives \in SUBSET store.archives
      <4>1. CASE zipPc[b] \in {"named", "writing"} /\ store' = Without(store, zipName[b])
        <5>1. s.name # zipName[b]
          BY <2>2, <4>1 DEF Safe, Apart
        <5>2. store'.archives = {a \in store.archives : a.name # zipName[b]}
          BY <1>a, <4>1, WithoutParts
        <5> QED
          BY <5>1, <5>2
      <4>2. CASE store' = store
        BY <4>2
      <4> QED
        BY <1>9, <4>1, <4>2 DEF ZipFailed
    <3>2. \A o \in Zipper : zipPc'[o] # "idle" => zipPc'[o] = zipPc[o] /\ zipName'[o] = zipName[o]
      BY <1>a, <2>1
    <3>3. Safe(store'.archives, zipPc', zipName', zips - base.zips, base.file, s)
      BY <1>a, <1>b, <2>2, <3>1, <3>2, SafeSub
    <3> QED
      BY <2>1, <3>1, <3>3
  <2>3. (Due' <=> Due) /\ base'.zips <= zips'
    BY <1>b, <2>1
  <2> HIDE DEF S, Sn, Held, Due
  <2> QED
    BY <1>c, <1>d, <1>g, <2>1, <2>2, <2>3
<1>10. CASE RestoreBegin
  <2>1. /\ store'.archives = store.archives /\ UNCHANGED <<old, zips, base>>
        /\ zipPc' = [zipPc EXCEPT !["restore"] = "named"]
        /\ zipName' = [zipName EXCEPT !["restore"] = FreeName(store)]
    BY <1>10, <1>a DEF RestoreBegin
  <2>2. ASSUME NEW s \in store.archives, S(s) PROVE Sn(s)
    <3>1. FreeName(store) # s.name
      BY <1>e DEF Names
    <3>2. Apart(store.archives, zipPc', zipName', s)
      BY <1>a, <2>1, <2>2, <3>1 DEF Safe, Apart
    <3> QED
      BY <2>1, <2>2, <3>2 DEF Safe
  <2> HIDE DEF S, Sn, Held
  <2> QED
    BY <1>b, <1>c, <1>d, <1>g, <2>1, <2>2
<1>11. CASE RestoreOpen
  <2>1. /\ old' = [old EXCEPT ![time] = NoDir] /\ UNCHANGED <<store, zipPc, zipName, zips>>
        /\ base' = [base EXCEPT !.swept = base.swept \/ old[time].there]
    BY <1>11 DEF RestoreOpen
  <2>2. base'.zips = base.zips /\ base'.file = base.file /\ (base'.swept <=> (base.swept \/ old[time].there))
    BY <1>a, <2>1 DEF TypeOK
  <2>3. Due' => Due /\ ~old[time].there
    BY <2>1, <2>2
  <2>4. ASSUME Held, ~old[time].there PROVE Held'
    BY <1>a, <2>1, <2>2, <2>4
  <2>5. \A s : S(s) => Sn(s)
    BY <2>1, <2>2
  <2>6. base'.zips <= zips'
    BY <1>b, <2>1, <2>2
  <2> HIDE DEF S, Sn, Held, Due
  <2> QED
    BY <1>c, <1>d, <2>1, <2>3, <2>4, <2>5, <2>6
<1>12. CASE RestoreExtract
  <2>1. store'.archives = store.archives /\ UNCHANGED <<old, zipPc, zipName, zips, base>>
    BY <1>12, <1>a DEF RestoreExtract
  <2> QED
    BY <1>a, <2>1 DEF BaseInv
<1>13. CASE RestoreRefused
  <2>1. store'.archives = store.archives /\ UNCHANGED <<old, zipPc, zipName, zips, base>>
    BY <1>13, <1>a DEF RestoreRefused
  <2> QED
    BY <1>a, <2>1 DEF BaseInv
<1>14. CASE RestoreRename
  <2>1. /\ restPc = "rename" /\ old'[restTime] = store /\ zips' = zips
        /\ base' = [file |-> store.file, zips |-> zips, swept |-> FALSE]
    BY <1>14, <1>a DEF RestoreRename
  <2>2. base'.zips = zips /\ base'.file = store.file /\ store.there
    BY <1>a, <2>1 DEF RestoreInv
  <2>3. Held'
    BY <1>a, <2>1, <2>2
  <2> HIDE DEF S, Sn, Held, Due
  <2> QED
    BY <1>b, <1>d, <2>1, <2>2, <2>3
<1>15. CASE RestoreSwap
  <2>1. restPc = "swap" /\ UNCHANGED <<old, base, zips>>
    BY <1>15 DEF RestoreSwap
  <2>2. Held
    BY <1>a, <2>1 DEF RestoreInv
  <2> HIDE DEF S, Sn, Held, Due
  <2> QED
    BY <1>b, <1>d, <1>g, <2>1, <2>2
<1>16. CASE RestoreRollback
  <2>1. /\ restPc = "swap" /\ UNCHANGED <<base, zips, zipPc, zipName>>
        /\ store' = old[restTime] \/ old' = old
    BY <1>16 DEF RestoreRollback
  <2>2. /\ base.file = before /\ base.zips = zips
        /\ old[restTime].there /\ old[restTime].file = before /\ Newest(old[restTime].archives, before)
    BY <1>a, <2>1 DEF RestoreInv
  <2>3. CASE store' = old[restTime]
    <3>1. PICK s \in store'.archives : s.done /\ s.file = before /\ Newer(store'.archives, s) = {}
      BY <2>2, <2>3 DEF Newest
    <3>2. Cardinality(Newer(store'.archives, s)) = 0
      BY <3>1, FS_EmptySet
    <3>3. Apart(store'.archives, zipPc', zipName', s)
      BY <1>f, <2>1 DEF Apart
    <3>4. zips' - base'.zips = 0
      BY <1>b, <2>1, <2>2
    <3>5. Sn(s)
      BY <2>1, <2>2, <3>1, <3>2, <3>3, <3>4 DEF Safe
    <3> HIDE DEF Sn, Held, Due
    <3> QED
      BY <1>b, <1>d, <2>1, <2>2, <3>5
  <2>4. CASE old' = old
    <3>1. Held
      BY <1>a, <2>2
    <3> HIDE DEF S, Sn, Held, Due
    <3> QED
      BY <1>b, <1>d, <1>g, <2>1, <2>4, <3>1
  <2> QED
    BY <2>1, <2>3, <2>4
<1>17. CASE RestoreMove
  <2>1. /\ restPc = "move" /\ UNCHANGED <<base, zips>>
        /\ old' = [old EXCEPT ![restTime].archives = {}]
    BY <1>17 DEF RestoreMove
  <2>2. base.file = before /\ old[restTime].there /\ old[restTime].file = before
    BY <1>a, <2>1 DEF RestoreInv
  <2>3. old'[restTime].there = old[restTime].there /\ old'[restTime].file = old[restTime].file
    BY <1>a, <2>1 DEF TypeOK, IsDir
  <2>4. Held'
    BY <1>a, <2>1, <2>2, <2>3
  <2> HIDE DEF S, Sn, Held, Due
  <2> QED
    BY <1>b, <1>d, <2>1, <2>4
<1>18. CASE RestoreMoveFailed
  <2>1. store'.archives = store.archives /\ UNCHANGED <<old, zipPc, zipName, zips, base>>
    BY <1>18, <1>a DEF RestoreMoveFailed
  <2> QED
    BY <1>a, <2>1 DEF BaseInv
<1>19. CASE RestoreReturn
  <2>1. restPc = "clean" /\ UNCHANGED <<store, base, zips, zipPc, zipName>>
    BY <1>19 DEF RestoreReturn
  <2>2. base.file = before /\ base.zips = zips /\ Newest(store'.archives, before)
    BY <1>a, <2>1 DEF RestoreInv
  <2>3. BaseInv'
    <3>1. PICK s \in store'.archives : s.done /\ s.file = before /\ Newer(store'.archives, s) = {}
      BY <2>2 DEF Newest
    <3>2. Cardinality(Newer(store'.archives, s)) = 0
      BY <3>1, FS_EmptySet
    <3>3. Apart(store'.archives, zipPc', zipName', s)
      BY <1>f, <2>1 DEF Apart
    <3>4. zips' - base'.zips = 0
      BY <1>b, <2>1, <2>2
    <3>5. Sn(s)
      BY <2>1, <2>2, <3>1, <3>2, <3>3, <3>4 DEF Safe
    <3> HIDE DEF Sn, Held, Due
    <3> QED
      BY <1>b, <1>d, <2>1, <2>2, <3>5
  <2> QED
    BY <2>3
<1>20. CASE Tick
  <2>1. store'.archives = store.archives /\ UNCHANGED <<old, zipPc, zipName, zips, base>>
    BY <1>20, <1>a DEF Tick
  <2> QED
    BY <1>a, <2>1 DEF BaseInv
<1>21. CASE Crash
  <2>1. UNCHANGED <<store, old, base, zips>> /\ zipPc' = [b \in Zipper |-> "idle"]
    BY <1>21 DEF Crash
  <2>2. ASSUME NEW s, S(s) PROVE Sn(s)
    BY <2>1, <2>2 DEF Safe, Apart
  <2>3. (Due' <=> Due) /\ base'.zips <= zips'
    BY <1>b, <2>1
  <2> HIDE DEF S, Sn, Held, Due
  <2> QED
    BY <1>c, <1>d, <1>g, <2>1, <2>2, <2>3
<1> QED
  BY <1>1, <1>2, <1>3, <1>4, <1>5, <1>6, <1>7, <1>8, <1>9, <1>10, <1>11, <1>12,
     <1>13, <1>14, <1>15, <1>16, <1>17, <1>18, <1>19, <1>20, <1>21 DEF Next, Save,
     Zip, Restore

-----------------------------------------------------------------------------

LEMMA InitStore == Init => StoreInv
<1> SUFFICES ASSUME Init PROVE StoreInv
  OBVIOUS
<1>a. /\ store = NoDir /\ old = [t \in Second |-> NoDir] /\ extracted = NoFiles
      /\ writer = "none" /\ time = 1
      /\ ver = 0 /\ savePc = Idle /\ cut = {}
      /\ zipPc = [b \in Zipper |-> "idle"] /\ zipName = [b \in Zipper |-> NoName] /\ zips = 0
      /\ restPc = "idle" /\ restTime = 1 /\ want = NoArchive
      /\ before = NoFiles /\ base = [file |-> NoFiles, zips |-> 0, swept |-> FALSE] /\ harmed = FALSE
  BY DEF Init
<1>b. NoDir.file = NoFiles /\ NoDir.archives = {} /\ NoDir.there = FALSE
  BY DEF NoDir
<1>1. TypeOK
  <2>1. CountersTyped
    BY <1>a, StoreAssumption DEF CountersTyped, Second, Idle
  <2>2. DataTyped
    BY <1>a, EmptyDirs, NoArchiveTyped, StoreAssumption DEF DataTyped
  <2>3. IsDir(store) /\ DOMAIN old = Second /\ \A t \in Second : IsDir(old[t])
    BY <1>a, EmptyDirs
  <2>4. harmed \in BOOLEAN
    BY <1>a
  <2> QED
    BY <2>1, <2>2, <2>3, <2>4 DEF TypeOK, CountersTyped, DataTyped
<1>2. LockInv
  BY <1>a DEF LockInv, Zipper
<1>3. SoundFile(0, {}, NoFiles) /\ SoundArchive(0, {}, NoArchive) /\ SoundArchives(0, {}, {})
  BY SoundEmpty
<1>4. SaveInv
  BY <1>a, <1>b, <1>3 DEF SaveInv, SoundFile, Idle
<1>5. ContentInv
  BY <1>a, <1>b, <1>3 DEF ContentInv
<1>6. NumberedDirs
  <2>1. Numbered(0, {})
    BY FS_EmptySet DEF Numbered
  <2> QED
    BY <1>a, <1>b, <2>1 DEF NumberedDirs
<1>7. RestoreInv /\ BaseInv
  BY <1>a DEF RestoreInv, BaseInv
<1> QED
  BY <1>1, <1>2, <1>4, <1>5, <1>6, <1>7 DEF StoreInv, ReadInv, RollInv, NumberedDirs

(* The invariant the theorems rest on: who holds Store.mu; how far a Save has  *)
(* got and that everything else is a copy of what one left; that archives are  *)
(* apart; where Restore is; and where the files it replaced are.              *)
THEOREM StoreInvariant == Spec => []StoreInv
<1>1. StoreInv /\ [Next]_vars => StoreInv'
  <2>1. StoreInv /\ Next => StoreInv'
    BY TypeStep, ReadStep, NumberedStep, RestoreStep, BaseStep DEF StoreInv, RollInv, NumberedDirs
  <2>2. StoreInv /\ UNCHANGED vars => StoreInv'
    <3> SUFFICES ASSUME StoreInv, UNCHANGED vars PROVE StoreInv'
      OBVIOUS
    <3> USE DEF vars, lockVars, saveVars, zipVars, restVars
    <3>1. TypeOK'
      BY DEF StoreInv, TypeOK, IsDir, Content, Archive, NoFiles
    <3>2. LockInv' /\ SaveInv' /\ ContentInv'
      BY DEF StoreInv, ReadInv, LockInv, SaveInv, ContentInv
    <3>3. RestoreInv' /\ BaseInv' /\ NumberedDirs'
      BY DEF StoreInv, RollInv, RestoreInv, BaseInv, NumberedDirs
    <3> QED
      BY <3>1, <3>2, <3>3 DEF StoreInv, ReadInv, RollInv, NumberedDirs
  <2> QED
    BY <2>1, <2>2
<1> QED
  BY InitStore, <1>1, PTL DEF Spec

(* Directories, archives and the program counters of Save, Backup and Restore  *)
(* are what they should be, and a missing directory has no files.             *)
THEOREM StoreTypes == Spec => []TypeOK
<1>1. StoreInv => TypeOK
  BY DEF StoreInv
<1> QED
  BY StoreInvariant, <1>1, PTL

(* Save, Backup and Load under Store.mu: whoever reads the store, or a complete *)
(* archive, finds the files of one Save, or of one that was cut short.        *)
THEOREM StoreReaders == Spec => []ReadersSeeOneSave
<1>1. StoreInv => ReadersSeeOneSave
  <2> SUFFICES ASSUME StoreInv PROVE ReadersSeeOneSave
    OBVIOUS
  <2>1. \A file : OfOneSave(file) <=> Whole(cut, file)
    BY DEF OfOneSave, Whole
  <2>2. writer # "save" => Whole(cut, store.file)
    BY DEF StoreInv, ReadInv, LockInv, SaveInv
  <2>3. \A a \in store.archives : a.done => Whole(cut, a.file)
    BY DEF StoreInv, ReadInv, ContentInv, SoundArchives, SoundArchive
  <2> QED
    BY <2>1, <2>2, <2>3 DEF ReadersSeeOneSave
<1> QED
  BY StoreInvariant, <1>1, PTL

(* Restore with its safety backup, and pruneBackups: wherever it fails or the   *)
(* process dies, the files it replaced can be found until Retention newer      *)
(* archives have been made.                                                  *)
THEOREM StoreRollback == Spec => []RollbackPossible
<1>1. StoreInv => RollbackPossible
  <2> SUFFICES ASSUME StoreInv, base.zips > 0, zips - base.zips < Retention, ~base.swept
               PROVE  Found(base.file)
    BY DEF RollbackPossible
  <2>1. \/ \E t \in Second : old[t].there /\ old[t].file = base.file
        \/ \E s \in store.archives : s.done /\ s.file = base.file
    BY DEF StoreInv, RollInv, BaseInv, Safe
  <2> QED
    BY <2>1 DEF Found
<1> QED
  BY StoreInvariant, <1>1, PTL

(* Restore that returns nil: the archive's files are in place, and the store it *)
(* replaced is among the archives.                                           *)
THEOREM StoreRestoreComplete == Spec => RestoreIsComplete
<1>1. StoreInv /\ RestoreReturn => /\ store'.file = want.file
                                   /\ \E a \in store'.archives : a.done /\ a.file = before
  <2> SUFFICES ASSUME StoreInv, RestoreReturn
               PROVE  /\ store'.file = want.file
                      /\ \E a \in store'.archives : a.done /\ a.file = before
    OBVIOUS
  <2>1. restPc = "clean" /\ store' = store
    BY DEF RestoreReturn
  <2>2. store.file = want.file /\ Newest(store.archives, before)
    BY <2>1 DEF StoreInv, RollInv, RestoreInv
  <2> QED
    BY <2>1, <2>2 DEF Newest
<1>2. StoreInv => [RestoreReturn => /\ store'.file = want.file
                                    /\ \E a \in store'.archives : a.done /\ a.file = before]_vars
  BY <1>1
<1> QED
  BY StoreInvariant, <1>2, PTL DEF RestoreIsComplete
=============================================================================
