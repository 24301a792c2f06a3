--------------------------- MODULE DesktopProofs ---------------------------
(***************************************************************************)
(* Proofs about the desktop's registry of open sessions: panes, registry   *)
(* and reservations agree however the user's clicks, the functions queued  *)
(* for the UI goroutine, opens under way, the watcher and sessions that     *)
(* end follow one another.  For any number of connections, sessions, tabs   *)
(* and opens.                                                              *)
(***************************************************************************)
EXTENDS MCPlugins, FiniteSetTheorems, SequenceTheorems, TLAPS

(* The functions fyne.Do holds: a session is added or removed.                *)
Call == {"add", "addWindow", "remove"} \X Handle

Adding(q) == {h \in Handle : \E i \in DOMAIN q : q[i][1] # "remove" /\ q[i][2] = h}
AddedOnce(q) ==
  \A i, j \in DOMAIN q : q[i][1] # "remove" /\ q[j][1] # "remove" /\ q[i][2] = q[j][2] => i = j

DesktopTypes ==
  /\ connOf \in [Handle -> Conn \cup {NoConn}]
  /\ tabOf \in [Handle -> Tab \cup {NoTab}]
  /\ openConns \in [Conn -> Nat]
  /\ items \in SUBSET Handle /\ stranded \in SUBSET Handle
  /\ panes \in [Tab -> SUBSET Handle] /\ active \in [Tab -> SUBSET Handle]
  /\ opener \in [Opener -> [pc : {"idle", "wait", "open"}, conn : Conn \cup {NoConn},
                            where : Tab \cup {NoTab, "window"}]]
  /\ uiq \in Seq(Call)

(* A session is added once, and has a connection from then on; so has an open  *)
(* under way.                                                                *)
QueueInv ==
  /\ AddedOnce(uiq)
  /\ \A h \in Adding(uiq) : h \notin items
  /\ \A h \in items \cup stranded \cup Adding(uiq) : connOf[h] \in Conn
  /\ \A o \in Opener : opener[o].pc # "idle" => opener[o].conn \in Conn

(* Only a pane is active.                                                    *)
PaneInv == D!PanesMatchRegistry /\ \A t \in Tab : active[t] \subseteq panes[t]

(* The sessions of a connection, registered or about to be, and its opens.    *)
Sessions(reg, q, f, c) == {h \in reg \cup Adding(q) : f[h] = c}
Opening(op, c) == {o \in Opener : op[o].pc = "open" /\ op[o].conn = c}

BalanceInv ==
  ~cleared =>
    \A c \in Conn : openConns[c] = Cardinality(Sessions(items, uiq, connOf, c))
                                     + Cardinality(Opening(opener, c))

DesktopInv == DesktopTypes /\ QueueInv /\ PaneInv /\ BalanceInv

-----------------------------------------------------------------------------
(* The UI goroutine's queue                                                 *)

LEMMA CallParts ==
  ASSUME NEW e \in Call
  PROVE  e[1] \in {"add", "addWindow", "remove"} /\ e[2] \in Handle
  BY DEF Call

LEMMA AddedLast ==
  ASSUME NEW q \in Seq(Call), AddedOnce(q), NEW h \in Handle, h \notin Adding(q),
         NEW k \in {"add", "addWindow"}
  PROVE  /\ Append(q, <<k, h>>) \in Seq(Call) /\ AddedOnce(Append(q, <<k, h>>))
         /\ Adding(Append(q, <<k, h>>)) = Adding(q) \cup {h}
<1> DEFINE r == Append(q, <<k, h>>)
           n == Len(q)
<1>1. n \in Nat /\ DOMAIN q = 1 .. n /\ \A i \in 1 .. n : q[i] \in Call
  BY LenProperties
<1>2. <<k, h>> \in Call
  BY DEF Call
<1>3. /\ r \in Seq(Call) /\ DOMAIN r = 1 .. n + 1 /\ r[n + 1] = <<k, h>>
      /\ \A i \in 1 .. n : r[i] = q[i]
  BY <1>1, <1>2
<1>4. <<k, h>>[1] = k /\ <<k, h>>[2] = h /\ k # "remove"
  OBVIOUS
<1> HIDE DEF r, n
<1>5. \A i \in 1 .. n + 1 : i = n + 1 \/ i \in 1 .. n
  BY <1>1
<1>6. \A i \in 1 .. n : q[i][1] # "remove" => q[i][2] # h
  BY <1>1 DEF Adding
<1>7. AddedOnce(r)
  BY <1>1, <1>3, <1>4, <1>5, <1>6 DEF AddedOnce
<1>8. Adding(r) = Adding(q) \cup {h}
  <2>1. \A i \in 1 .. n : i \in 1 .. n + 1
    BY <1>1
  <2>2. n + 1 \in 1 .. n + 1
    BY <1>1
  <2> QED
    BY <1>1, <1>3, <1>4, <1>5, <2>1, <2>2 DEF Adding
<1> QED
  BY <1>3, <1>7, <1>8 DEF r

(* The UI goroutine takes the first.                                          *)
LEMMA FirstTaken ==
  ASSUME NEW q \in Seq(Call), q # <<>>, AddedOnce(q)
  PROVE  /\ Head(q) \in Call /\ Tail(q) \in Seq(Call) /\ AddedOnce(Tail(q))
         /\ Head(q)[1] = "remove" => Adding(Tail(q)) = Adding(q)
         /\ Head(q)[1] # "remove" => /\ Head(q)[2] \in Adding(q)
                                     /\ Adding(Tail(q)) = Adding(q) \ {Head(q)[2]}
<1> DEFINE r == Tail(q)
           n == Len(q)
<1>1. n \in Nat \ {0} /\ DOMAIN q = 1 .. n /\ \A i \in 1 .. n : q[i] \in Call
  BY LenProperties, EmptySeq
<1>2. /\ r \in Seq(Call) /\ Len(r) = n - 1 /\ Head(q) = q[1]
      /\ \A i \in 1 .. n - 1 : r[i] = q[i + 1]
  BY <1>1, HeadTailProperties
<1>3. DOMAIN r = 1 .. n - 1
  BY <1>2, LenProperties
<1> HIDE DEF r, n
<1>4. \A i \in 1 .. n - 1 : i + 1 \in 1 .. n /\ i + 1 # 1
  BY <1>1
<1>5. \A i \in 1 .. n : i = 1 \/ (i - 1 \in 1 .. n - 1 /\ (i - 1) + 1 = i)
  BY <1>1
<1>6. 1 \in 1 .. n
  BY <1>1
<1>7. AddedOnce(r)
  <2> SUFFICES ASSUME NEW i \in 1 .. n - 1, NEW j \in 1 .. n - 1, r[i][1] # "remove", r[j][1] # "remove",
                      r[i][2] = r[j][2]
               PROVE  i = j
    BY <1>3 DEF AddedOnce
  <2>0. /\ r[i] = q[i + 1] /\ r[j] = q[j + 1] /\ i + 1 \in DOMAIN q /\ j + 1 \in DOMAIN q
    BY <1>1, <1>2, <1>4
  <2>1. i + 1 = j + 1
    BY <2>0 DEF AddedOnce
  <2> QED
    BY <1>1, <2>1
<1>8. ASSUME NEW h \in Handle
      PROVE  h \in Adding(r) <=> \E i \in 1 .. n : i # 1 /\ q[i][1] # "remove" /\ q[i][2] = h
  <2>1. h \in Adding(r) <=> \E i \in 1 .. n - 1 : q[i + 1][1] # "remove" /\ q[i + 1][2] = h
    BY <1>2, <1>3 DEF Adding
  <2>2. ASSUME NEW i \in 1 .. n - 1, q[i + 1][1] # "remove", q[i + 1][2] = h
        PROVE  \E j \in 1 .. n : j # 1 /\ q[j][1] # "remove" /\ q[j][2] = h
    BY <1>4, <2>2
  <2>3. ASSUME NEW i \in 1 .. n, i # 1, q[i][1] # "remove", q[i][2] = h
        PROVE  \E j \in 1 .. n - 1 : q[j + 1][1] # "remove" /\ q[j + 1][2] = h
    <3>1. i - 1 \in 1 .. n - 1 /\ (i - 1) + 1 = i
      BY <1>5, <2>3
    <3> QED
      BY <2>3, <3>1
  <2> QED
    BY <2>1, <2>2, <2>3
<1>9. \A h \in Handle : h \in Adding(q) <=> \E i \in 1 .. n : q[i][1] # "remove" /\ q[i][2] = h
  BY <1>1 DEF Adding
<1>10. Adding(r) \subseteq Handle /\ Adding(q) \subseteq Handle
  BY DEF Adding
<1>11. q[1][1] = "remove" => Adding(r) = Adding(q)
  <2> SUFFICES ASSUME q[1][1] = "remove", NEW h \in Handle PROVE h \in Adding(r) <=> h \in Adding(q)
    BY <1>10
  <2> QED
    BY <1>8, <1>9
<1>12. ASSUME q[1][1] # "remove" PROVE q[1][2] \in Adding(q) /\ Adding(r) = Adding(q) \ {q[1][2]}
  <2>1. q[1][2] \in Handle
    BY <1>1, <1>6, CallParts
  <2>2. q[1][2] \in Adding(q)
    BY <1>6, <1>9, <1>12, <2>1
  <2>3. ASSUME NEW i \in 1 .. n, q[i][1] # "remove", q[i][2] = q[1][2] PROVE i = 1
    BY <1>1, <1>6, <1>12, <2>3 DEF AddedOnce
  <2>4. ASSUME NEW h \in Handle PROVE h \in Adding(r) <=> h \in Adding(q) /\ h # q[1][2]
    BY <1>8, <1>9, <2>3
  <2> QED
    BY <1>10, <2>2, <2>4
<1> QED
  BY <1>1, <1>2, <1>6, <1>7, <1>11, <1>12 DEF r

(* Removes are queued after what is there.                                    *)
LEMMA RemovesLast ==
  ASSUME NEW q \in Seq(Call), AddedOnce(q), NEW r \in Seq({"remove"} \X Handle)
  PROVE  q \o r \in Seq(Call) /\ AddedOnce(q \o r) /\ Adding(q \o r) = Adding(q)
<1> DEFINE n == Len(q)
           m == Len(r)
           z == q \o r
<1>1. r \in Seq(Call)
  BY SeqMonotonic DEF Call
<1>2. n \in Nat /\ m \in Nat /\ DOMAIN q = 1 .. n /\ \A i \in 1 .. m : r[i] \in {"remove"} \X Handle
  BY LenProperties
<1>3. /\ z \in Seq(Call) /\ Len(z) = n + m
      /\ \A i \in 1 .. n + m : z[i] = IF i <= n THEN q[i] ELSE r[i - n]
  BY <1>1, ConcatProperties
<1>4. DOMAIN z = 1 .. n + m
  BY <1>3, LenProperties
<1> HIDE DEF n, m, z
<1>5. \A i \in 1 .. n + m : (i \in 1 .. n /\ z[i] = q[i]) \/ z[i][1] = "remove"
  <2> SUFFICES ASSUME NEW i \in 1 .. n + m, i \notin 1 .. n PROVE z[i][1] = "remove"
    BY <1>2, <1>3
  <2>1. i - n \in 1 .. m /\ ~(i <= n)
    BY <1>2
  <2>2. z[i] = r[i - n]
    BY <1>3, <2>1
  <2> QED
    BY <1>2, <2>1, <2>2
<1>6. \A i \in 1 .. n : i \in 1 .. n + m /\ z[i] = q[i]
  BY <1>2, <1>3
<1>7. AddedOnce(z)
  BY <1>2, <1>4, <1>5 DEF AddedOnce
<1>8. Adding(z) = Adding(q)
  BY <1>2, <1>4, <1>5, <1>6 DEF Adding
<1> QED
  BY <1>3, <1>7, <1>8 DEF z

LEMMA QueuedRemoves ==
  ASSUME NEW gone \in SUBSET Handle, uiq \in Seq(Call), AddedOnce(uiq)
  PROVE  /\ D!Queued(gone) \in Seq(Call) /\ AddedOnce(D!Queued(gone))
         /\ Adding(D!Queued(gone)) = Adding(uiq)
<1> DEFINE todo == {r \in {<<"remove", h>> : h \in gone} : ~D!Contains(uiq, r)}
           n == Cardinality(todo)
<1>1. IsFiniteSet(gone)
  BY FS_Subset, DesktopAssumption
<1>2. IsFiniteSet(todo)
  <2> DEFINE g == [h \in gone |-> <<"remove", h>>]
             all == {<<"remove", h>> : h \in gone}
  <2>1. g \in Surjection(gone, all)
    BY DEF Surjection
  <2>2. IsFiniteSet(all)
    BY <1>1, <2>1, FS_Surjection
  <2> QED
    BY <2>2, FS_Subset
<1>3. n \in Nat /\ ExistsBijection(1 .. n, todo)
  BY <1>2, FS_CardinalityType
<1>4. PICK f : f \in [1 .. n -> todo] /\ \A i, j \in 1 .. n : f[i] = f[j] => i = j
  BY <1>3 DEF ExistsBijection, Bijection, Injection, IsInjective
<1>5. todo \subseteq {"remove"} \X Handle
  OBVIOUS
<1>6. D!SetToSeq(todo) = CHOOSE f1 \in [1 .. n -> todo] : D!IsInjective(f1)
  BY DEF D!SetToSeq, D!Cardinality, Cardinality
<1> HIDE DEF n, todo
<1>7. D!SetToSeq(todo) \in [1 .. n -> todo]
  BY <1>4, <1>6 DEF D!IsInjective
<1>8. D!SetToSeq(todo) \in Seq({"remove"} \X Handle)
  BY <1>3, <1>5, <1>7
<1>9. D!Queued(gone) = uiq \o D!SetToSeq(todo)
  BY DEF D!Queued, todo
<1> QED
  BY <1>8, <1>9, RemovesLast

-----------------------------------------------------------------------------
(* Counting                                                                 *)

LEMMA CountsFinite ==
  ASSUME NEW reg \in SUBSET Handle, NEW q, NEW f, NEW op, NEW c
  PROVE  /\ IsFiniteSet(Sessions(reg, q, f, c)) /\ Cardinality(Sessions(reg, q, f, c)) \in Nat
         /\ IsFiniteSet(Opening(op, c)) /\ Cardinality(Opening(op, c)) \in Nat
<1>1. Sessions(reg, q, f, c) \subseteq Handle /\ Opening(op, c) \subseteq Opener
  BY DEF Sessions, Adding, Opening
<1> QED
  BY <1>1, FS_Subset, FS_CardinalityType, DesktopAssumption

(* One of connection k more: a session or an open.                              *)
LEMMA OneMore ==
  ASSUME NEW c, NEW k, NEW A, NEW B, IsFiniteSet(A), NEW h,
         c = k => B = A \cup {h} /\ h \notin A, c # k => B = A
  PROVE  Cardinality(B) = Cardinality(A) + (IF c = k THEN 1 ELSE 0)
<1>1. Cardinality(A) \in Nat
  BY FS_CardinalityType
<1> QED
  BY <1>1, FS_AddElement

-----------------------------------------------------------------------------
(* Opens                                                                    *)

LEMMA OpenerTyped ==
  ASSUME DesktopInv, NEW o \in Opener
  PROVE  /\ opener[o].pc \in {"idle", "wait", "open"} /\ opener[o].where \in Tab \cup {NoTab, "window"}
         /\ opener[o].pc # "idle" => opener[o].conn \in Conn
         /\ opener[o] = [pc |-> opener[o].pc, conn |-> opener[o].conn, where |-> opener[o].where]
  BY DEF DesktopInv, DesktopTypes, QueueInv

(* The reservation comes first.                                               *)
LEMMA BeginKeeps ==
  ASSUME DesktopInv, NEW o \in Opener, opener[o].pc # "open", NEW k \in Conn,
         NEW where \in Tab \cup {NoTab, "window"},
         openConns' = [openConns EXCEPT ![k] = @ + 1],
         opener' = [opener EXCEPT ![o] = [pc |-> "open", conn |-> k, where |-> where]],
         UNCHANGED <<connOf, tabOf, items, panes, active, uiq, cleared, stranded>>
  PROVE  DesktopInv'
<1>a. DesktopTypes /\ QueueInv /\ PaneInv /\ BalanceInv
  BY DEF DesktopInv
<1>1. DesktopTypes'
  <2>1. openConns' \in [Conn -> Nat]
    BY <1>a DEF DesktopTypes
  <2>2. opener' \in [Opener -> [pc : {"idle", "wait", "open"}, conn : Conn \cup {NoConn},
                                where : Tab \cup {NoTab, "window"}]]
    BY <1>a DEF DesktopTypes
  <2> QED
    BY <1>a, <2>1, <2>2 DEF DesktopTypes, Call
<1>b. /\ opener'[o].pc = "open" /\ opener'[o].conn = k
      /\ \A p \in Opener : p # o => opener'[p] = opener[p]
  BY <1>a DEF DesktopTypes
<1>2. QueueInv'
  <2>1. \A p \in Opener : opener'[p].pc # "idle" => opener'[p].conn \in Conn
    BY <1>a, <1>b DEF QueueInv
  <2> QED
    BY <1>a, <2>1 DEF QueueInv
<1>3. PaneInv'
  BY <1>a DEF PaneInv, D!PanesMatchRegistry
<1>4. BalanceInv'
  <2> SUFFICES ASSUME ~cleared, NEW c \in Conn
               PROVE  openConns'[c] = Cardinality(Sessions(items, uiq, connOf, c))
                                        + Cardinality(Opening(opener', c))
    BY DEF BalanceInv
  <2>1. openConns[c] = Cardinality(Sessions(items, uiq, connOf, c)) + Cardinality(Opening(opener, c))
    BY <1>a DEF BalanceInv
  <2>2. Cardinality(Opening(opener', c)) = Cardinality(Opening(opener, c)) + (IF c = k THEN 1 ELSE 0)
    <3>1. /\ c = k => Opening(opener', c) = Opening(opener, c) \cup {o} /\ o \notin Opening(opener, c)
          /\ c # k => Opening(opener', c) = Opening(opener, c)
      BY <1>b DEF Opening
    <3>2. IsFiniteSet(Opening(opener, c))
      BY CountsFinite
    <3> QED
      BY <3>1, <3>2, OneMore
  <2>3. openConns'[c] = openConns[c] + (IF c = k THEN 1 ELSE 0) /\ openConns[c] \in Nat
    BY <1>a DEF DesktopTypes
  <2>4. /\ Cardinality(Sessions(items, uiq, connOf, c)) \in Nat /\ Cardinality(Opening(opener, c)) \in Nat
    BY <1>a, CountsFinite DEF DesktopTypes
  <2> QED
    BY <2>1, <2>2, <2>3, <2>4
<1> QED
  BY <1>1, <1>2, <1>3, <1>4 DEF DesktopInv

LEMMA OpenFailKeeps ==
  ASSUME DesktopInv, NEW o \in Opener, D!OpenFail(o)
  PROVE  DesktopInv'
<1>a. DesktopTypes /\ QueueInv /\ PaneInv /\ BalanceInv
  BY DEF DesktopInv
<1> DEFINE k == opener[o].conn
<1>b. /\ opener[o].pc = "open" /\ openConns' = [openConns EXCEPT ![k] = D!Less(@)]
      /\ opener' = [opener EXCEPT ![o] = [pc |-> "idle", conn |-> NoConn, where |-> NoTab]]
      /\ UNCHANGED <<connOf, tabOf, items, panes, active, uiq, cleared, stranded>>
  BY DEF D!OpenFail, D!releaseConn, D!Idle, D!appVars, D!placeVars, D!history
<1>c. k \in Conn
  BY <1>b, OpenerTyped
<1> HIDE DEF k
<1>d. /\ opener'[o].pc = "idle" /\ \A p \in Opener : p # o => opener'[p] = opener[p]
  BY <1>a, <1>b DEF DesktopTypes
<1>1. DesktopTypes'
  <2>1. openConns' \in [Conn -> Nat]
    BY <1>a, <1>b, <1>c DEF DesktopTypes, D!Less
  <2>2. opener' \in [Opener -> [pc : {"idle", "wait", "open"}, conn : Conn \cup {NoConn},
                                where : Tab \cup {NoTab, "window"}]]
    BY <1>a, <1>b DEF DesktopTypes
  <2> QED
    BY <1>a, <1>b, <2>1, <2>2 DEF DesktopTypes, Call
<1>2. QueueInv'
  <2>1. \A p \in Opener : opener'[p].pc # "idle" => opener'[p].conn \in Conn
    BY <1>a, <1>d DEF QueueInv
  <2> QED
    BY <1>a, <1>b, <2>1 DEF QueueInv
<1>3. PaneInv'
  BY <1>a, <1>b DEF PaneInv, D!PanesMatchRegistry
<1>4. BalanceInv'
  <2> SUFFICES ASSUME ~cleared, NEW c \in Conn
               PROVE  openConns'[c] = Cardinality(Sessions(items, uiq, connOf, c))
                                        + Cardinality(Opening(opener', c))
    BY <1>b DEF BalanceInv
  <2>1. openConns[c] = Cardinality(Sessions(items, uiq, connOf, c)) + Cardinality(Opening(opener, c))
    BY <1>a DEF BalanceInv
  <2>2. Cardinality(Opening(opener, c)) = Cardinality(Opening(opener', c)) + (IF c = k THEN 1 ELSE 0)
    <3>1. /\ c = k => Opening(opener, c) = Opening(opener', c) \cup {o} /\ o \notin Opening(opener', c)
          /\ c # k => Opening(opener, c) = Opening(opener', c)
      BY <1>b, <1>d DEF Opening, k
    <3>2. IsFiniteSet(Opening(opener', c))
      BY CountsFinite
    <3> QED
      BY <3>1, <3>2, OneMore
  <2>3. openConns'[c] = (IF c = k THEN D!Less(openConns[c]) ELSE openConns[c]) /\ openConns[c] \in Nat
    BY <1>a, <1>b, <1>c DEF DesktopTypes
  <2>4. /\ Cardinality(Sessions(items, uiq, connOf, c)) \in Nat /\ Cardinality(Opening(opener', c)) \in Nat
    BY <1>a, CountsFinite DEF DesktopTypes
  <2> QED
    BY <2>1, <2>2, <2>3, <2>4 DEF D!Less
<1> QED
  BY <1>1, <1>2, <1>3, <1>4 DEF DesktopInv

(* No open begins or ends: the waiting one of a reconnect comes or goes.        *)
LEMMA WaitKeeps ==
  ASSUME DesktopInv, NEW o \in Opener, opener[o].pc # "open",
         NEW e \in [pc : {"idle", "wait"}, conn : Conn \cup {NoConn}, where : {NoTab}],
         e.pc # "idle" => e.conn \in Conn, opener' = [opener EXCEPT ![o] = e],
         UNCHANGED <<connOf, tabOf, openConns, items, panes, active, uiq, cleared, stranded>>
  PROVE  DesktopInv'
<1>a. DesktopTypes /\ QueueInv /\ PaneInv /\ BalanceInv
  BY DEF DesktopInv
<1>b. opener'[o] = e /\ \A p \in Opener : p # o => opener'[p] = opener[p]
  BY <1>a DEF DesktopTypes
<1>1. DesktopTypes'
  <2>1. opener' \in [Opener -> [pc : {"idle", "wait", "open"}, conn : Conn \cup {NoConn},
                                where : Tab \cup {NoTab, "window"}]]
    BY <1>a DEF DesktopTypes
  <2> QED
    BY <1>a, <2>1 DEF DesktopTypes, Call
<1>2. QueueInv'
  <2>1. \A p \in Opener : opener'[p].pc # "idle" => opener'[p].conn \in Conn
    BY <1>a, <1>b DEF QueueInv
  <2> QED
    BY <1>a, <2>1 DEF QueueInv
<1>3. PaneInv'
  BY <1>a DEF PaneInv, D!PanesMatchRegistry
<1>4. BalanceInv'
  <2>1. \A c : Opening(opener', c) = Opening(opener, c)
    BY <1>b DEF Opening
  <2> QED
    BY <1>a, <2>1 DEF BalanceInv
<1> QED
  BY <1>1, <1>2, <1>3, <1>4 DEF DesktopInv

(* The open succeeds: its reservation becomes that of the new session.         *)
LEMMA OpenOkKeeps ==
  ASSUME DesktopInv, NEW o \in Opener, D!OpenOk(o)
  PROVE  DesktopInv'
<1>a. DesktopTypes /\ QueueInv /\ PaneInv /\ BalanceInv
  BY DEF DesktopInv
<1> DEFINE h == CHOOSE n \in D!NewHandles : TRUE
           k == opener[o].conn
<1>b. /\ opener[o].pc = "open" /\ D!NewHandles # {}
      /\ connOf' = [connOf EXCEPT ![h] = k]
      /\ opener' = [opener EXCEPT ![o] = [pc |-> "idle", conn |-> NoConn, where |-> NoTab]]
      /\ UNCHANGED <<openConns, items, panes, active, cleared, stranded>>
  BY DEF D!OpenOk, D!Idle, D!history
<1>c. h \in Handle /\ connOf[h] = NoConn
  <2>1. h \in D!NewHandles
    BY <1>b
  <2> QED
    BY <2>1 DEF D!NewHandles
<1>d. PICK q \in {"add", "addWindow"} : uiq' = Append(uiq, <<q, h>>)
  BY DEF D!OpenOk, D!attachSessionInto, D!attachSessionInWindow
<1>e. tabOf' = tabOf \/ \E t \in Tab : tabOf' = [tabOf EXCEPT ![h] = t]
  <2>1. CASE D!attachSessionInto(o, h)
    <3>1. D!FreeTabs # {} /\ D!NewTab \in D!FreeTabs
      BY <2>1 DEF D!attachSessionInto, D!NewTab
    <3>2. D!NewTab \in Tab
      BY <3>1 DEF D!FreeTabs
    <3> DEFINE t == IF opener[o].where \in Tab /\ panes[opener[o].where] # {}
                    THEN opener[o].where ELSE D!NewTab
    <3>3. t \in Tab
      BY <3>2
    <3>4. tabOf' = [tabOf EXCEPT ![h] = t]
      BY <2>1 DEF D!attachSessionInto
    <3> QED
      BY <3>3, <3>4
  <2>2. CASE D!attachSessionInWindow(o, h)
    BY <2>2 DEF D!attachSessionInWindow
  <2> QED
    BY <2>1, <2>2 DEF D!OpenOk
<1>f. k \in Conn
  BY <1>b, OpenerTyped
<1> HIDE DEF h, k
<1>g. h \notin items /\ h \notin stranded /\ h \notin Adding(uiq)
  BY <1>a, <1>c, DesktopAssumption DEF QueueInv
<1>h. \A x \in Handle : connOf'[x] = IF x = h THEN k ELSE connOf[x]
  BY <1>a, <1>b DEF DesktopTypes
<1>i. /\ uiq' \in Seq(Call) /\ AddedOnce(uiq') /\ Adding(uiq') = Adding(uiq) \cup {h}
  BY <1>a, <1>c, <1>d, <1>g, AddedLast DEF DesktopTypes, QueueInv
<1>j. /\ opener'[o].pc = "idle" /\ \A p \in Opener : p # o => opener'[p] = opener[p]
  BY <1>a, <1>b DEF DesktopTypes
<1>k. Adding(uiq) \subseteq Handle /\ items \subseteq Handle /\ stranded \subseteq Handle
  BY <1>a DEF Adding, DesktopTypes
<1>l. connOf'[h] = k /\ \A x \in items \cup stranded \cup Adding(uiq) : connOf'[x] = connOf[x]
  BY <1>c, <1>g, <1>h, <1>k
<1>1. DesktopTypes'
  <2>1. connOf' \in [Handle -> Conn \cup {NoConn}]
    BY <1>a, <1>b, <1>f DEF DesktopTypes
  <2>2. tabOf' \in [Handle -> Tab \cup {NoTab}]
    BY <1>a, <1>e DEF DesktopTypes
  <2>3. opener' \in [Opener -> [pc : {"idle", "wait", "open"}, conn : Conn \cup {NoConn},
                                where : Tab \cup {NoTab, "window"}]]
    BY <1>a, <1>b DEF DesktopTypes
  <2>4. uiq' \in Seq(Call)'
    BY <1>i DEF Call
  <2> QED
    BY <1>a, <1>b, <2>1, <2>2, <2>3, <2>4 DEF DesktopTypes
<1>2. QueueInv'
  <2>1. \A p \in Opener : opener'[p].pc # "idle" => opener'[p].conn \in Conn
    BY <1>a, <1>j DEF QueueInv
  <2>2. \A x \in Adding(uiq') : x \notin items'
    BY <1>a, <1>b, <1>g, <1>i DEF QueueInv
  <2>3. \A x \in items' \cup stranded' \cup Adding(uiq') : connOf'[x] \in Conn
    <3>1. \A x \in items \cup stranded \cup Adding(uiq) : connOf[x] \in Conn
      BY <1>a DEF QueueInv
    <3> QED
      BY <1>b, <1>f, <1>i, <1>l, <3>1
  <2> QED
    BY <1>i, <2>1, <2>2, <2>3 DEF QueueInv
<1>3. PaneInv'
  <2>1. \A x \in items \cup stranded : tabOf'[x] = tabOf[x]
    BY <1>a, <1>e, <1>g, <1>k DEF DesktopTypes
  <2> QED
    BY <1>a, <1>b, <2>1 DEF PaneInv, D!PanesMatchRegistry
<1>4. BalanceInv'
  <2> SUFFICES ASSUME ~cleared, NEW c \in Conn
               PROVE  openConns[c] = Cardinality(Sessions(items, uiq', connOf', c))
                                       + Cardinality(Opening(opener', c))
    BY <1>b DEF BalanceInv
  <2>1. openConns[c] = Cardinality(Sessions(items, uiq, connOf, c)) + Cardinality(Opening(opener, c))
    BY <1>a DEF BalanceInv
  <2>2. Cardinality(Opening(opener, c)) = Cardinality(Opening(opener', c)) + (IF c = k THEN 1 ELSE 0)
    <3>1. /\ c = k => Opening(opener, c) = Opening(opener', c) \cup {o} /\ o \notin Opening(opener', c)
          /\ c # k => Opening(opener, c) = Opening(opener', c)
      BY <1>b, <1>j DEF Opening, k
    <3>2. IsFiniteSet(Opening(opener', c))
      BY CountsFinite
    <3> QED
      BY <3>1, <3>2, OneMore
  <2>3. Cardinality(Sessions(items, uiq', connOf', c))
          = Cardinality(Sessions(items, uiq, connOf, c)) + (IF c = k THEN 1 ELSE 0)
    <3>1. /\ c = k => /\ Sessions(items, uiq', connOf', c) = Sessions(items, uiq, connOf, c) \cup {h}
                      /\ h \notin Sessions(items, uiq, connOf, c)
          /\ c # k => Sessions(items, uiq', connOf', c) = Sessions(items, uiq, connOf, c)
      BY <1>g, <1>i, <1>l DEF Sessions
    <3>2. IsFiniteSet(Sessions(items, uiq, connOf, c))
      BY <1>k, CountsFinite
    <3> QED
      BY <3>1, <3>2, OneMore
  <2>4. /\ Cardinality(Sessions(items, uiq, connOf, c)) \in Nat /\ Cardinality(Opening(opener', c)) \in Nat
    BY <1>k, CountsFinite
  <2> QED
    BY <2>1, <2>2, <2>3, <2>4
<1> QED
  BY <1>1, <1>2, <1>3, <1>4 DEF DesktopInv

-----------------------------------------------------------------------------
(* Tabs and panes                                                           *)

(* A step that moves panes leaves the reservations alone.                      *)
LEMMA ViewKeeps ==
  ASSUME DesktopInv, tabOf' \in [Handle -> Tab \cup {NoTab}],
         panes' \in [Tab -> SUBSET Handle], active' \in [Tab -> SUBSET Handle], PaneInv',
         UNCHANGED <<connOf, openConns, items, opener, uiq, cleared, stranded>>
  PROVE  DesktopInv'
<1>a. DesktopTypes /\ QueueInv /\ BalanceInv
  BY DEF DesktopInv
<1>1. DesktopTypes'
  BY <1>a DEF DesktopTypes, Call
<1>2. QueueInv'
  BY <1>a DEF QueueInv
<1>3. BalanceInv'
  BY <1>a DEF BalanceInv
<1> QED
  BY <1>1, <1>2, <1>3 DEF DesktopInv

(* removeLeaf takes the pane of h, and hands an active one over.               *)
LEMMA UnplacedPane ==
  ASSUME DesktopTypes, PaneInv, NEW h \in Handle, D!Unplaced(h)
  PROVE  /\ panes' \in [Tab -> SUBSET Handle] /\ active' \in [Tab -> SUBSET Handle]
         /\ \A t \in Tab : panes'[t] = panes[t] \ {h}
         /\ \A t \in Tab : active'[t] \subseteq panes'[t]
         /\ \A t \in Tab : panes'[t] # {} => \E x \in panes'[t] : active'[t] = {x}
<1>a. /\ \A t \in Tab : \A x \in panes[t] : tabOf[x] = t
      /\ \A t \in Tab : panes[t] # {} => \E x \in panes[t] : active[t] = {x}
      /\ \A t \in Tab : active[t] \subseteq panes[t]
  BY DEF PaneInv, D!PanesMatchRegistry
<1>b. /\ panes \in [Tab -> SUBSET Handle] /\ active \in [Tab -> SUBSET Handle]
      /\ tabOf[h] \in Tab \cup {NoTab}
  BY DEF DesktopTypes
<1>1. CASE tabOf[h] = NoTab
  <2>1. panes' = panes /\ active' = active
    BY <1>1 DEF D!Unplaced
  <2>2. \A t \in Tab : h \notin panes[t]
    BY <1>1, <1>a, DesktopAssumption
  <2> QED
    BY <1>a, <1>b, <2>1, <2>2
<1>2. CASE tabOf[h] # NoTab
  <2> DEFINE u == tabOf[h]
             left == panes[u] \ {h}
  <2>1. u \in Tab
    BY <1>2, <1>b
  <2>2. panes' = [panes EXCEPT ![u] = left]
    BY <1>2 DEF D!Unplaced
  <2>3. PICK a \in IF active[u] # {h} \/ left = {} THEN {active[u] \ {h}} ELSE {{l} : l \in left} :
               active' = [active EXCEPT ![u] = a]
    BY <1>2 DEF D!Unplaced
  <2>4. a \subseteq left /\ (left # {} => \E x \in left : a = {x})
    <3>1. CASE left = {}
      <4>1. a = active[u] \ {h}
        BY <2>3, <3>1
      <4> QED
        BY <1>a, <2>1, <3>1, <4>1
    <3>2. CASE left # {} /\ active[u] # {h}
      <4>1. a = active[u] \ {h}
        BY <2>3, <3>2
      <4>2. PICK x \in panes[u] : active[u] = {x}
        BY <1>a, <2>1, <3>2
      <4>3. x # h /\ x \in left /\ a = {x}
        BY <3>2, <4>1, <4>2
      <4> QED
        BY <4>3
    <3>3. CASE left # {} /\ active[u] = {h}
      <4>1. a \in {{l} : l \in left}
        BY <2>3, <3>3
      <4> QED
        BY <4>1
    <3> QED
      BY <3>1, <3>2, <3>3
  <2>5. left \in SUBSET Handle /\ a \in SUBSET Handle
    BY <1>b, <2>1, <2>4
  <2> HIDE DEF left
  <2>6. panes' \in [Tab -> SUBSET Handle] /\ active' \in [Tab -> SUBSET Handle]
    BY <1>b, <2>2, <2>3, <2>5
  <2>7. \A t \in Tab : /\ panes'[t] = IF t = u THEN left ELSE panes[t]
                       /\ active'[t] = IF t = u THEN a ELSE active[t]
    BY <1>b, <2>2, <2>3
  <2>8. \A t \in Tab : panes'[t] = panes[t] \ {h}
    BY <1>a, <2>7 DEF left
  <2>9. \A t \in Tab : active'[t] \subseteq panes'[t]
    BY <1>a, <2>4, <2>7
  <2>10. \A t \in Tab : panes'[t] # {} => \E x \in panes'[t] : active'[t] = {x}
    BY <1>a, <2>4, <2>7
  <2> QED
    BY <2>6, <2>8, <2>9, <2>10
<1> QED
  BY <1>1, <1>2

LEMMA DetachKeeps ==
  ASSUME DesktopInv, NEW u \in Tab, D!detachCurrentTab(u)
  PROVE  DesktopInv'
<1>a. DesktopTypes /\ PaneInv
  BY DEF DesktopInv
<1>b. PICK h \in active[u] : /\ D!Unplaced(h) /\ tabOf' = [tabOf EXCEPT ![h] = NoTab]
                             /\ UNCHANGED <<connOf, openConns, items, opener, uiq, cleared, stranded>>
  BY DEF D!detachCurrentTab, D!appVars, D!history
<1>c. h \in Handle
  BY <1>a, <1>b DEF DesktopTypes
<1>d. /\ panes' \in [Tab -> SUBSET Handle] /\ active' \in [Tab -> SUBSET Handle]
      /\ \A t \in Tab : panes'[t] = panes[t] \ {h}
      /\ \A t \in Tab : active'[t] \subseteq panes'[t]
      /\ \A t \in Tab : panes'[t] # {} => \E x \in panes'[t] : active'[t] = {x}
  BY <1>a, <1>b, <1>c, UnplacedPane
<1>e. tabOf' \in [Handle -> Tab \cup {NoTab}] /\ \A x \in Handle : tabOf'[x] = IF x = h THEN NoTab ELSE tabOf[x]
  BY <1>a, <1>b, <1>c DEF DesktopTypes
<1>f. /\ items \subseteq Handle /\ \A t \in Tab : panes[t] \subseteq Handle
      /\ \A x \in items : tabOf[x] \in Tab \cup {NoTab}
  BY <1>a DEF DesktopTypes
<1>1. PaneInv'
  <2>1. \A x \in items : tabOf'[x] # NoTab => x \in panes'[tabOf'[x]]
    BY <1>a, <1>d, <1>e, <1>f DEF PaneInv, D!PanesMatchRegistry
  <2>2. \A t \in Tab : \A x \in panes'[t] : x \in items \cup stranded /\ tabOf'[x] = t
    BY <1>a, <1>d, <1>e, <1>f DEF PaneInv, D!PanesMatchRegistry
  <2> QED
    BY <1>b, <1>d, <2>1, <2>2 DEF PaneInv, D!PanesMatchRegistry
<1> QED
  BY <1>b, <1>d, <1>e, <1>1, ViewKeeps

(* A window gives its session back as a tab that nobody names.                 *)
LEMMA ReattachKeeps ==
  ASSUME DesktopInv, NEW h \in Handle, D!reattachToMain(h)
  PROVE  DesktopInv'
<1>a. DesktopTypes /\ PaneInv
  BY DEF DesktopInv
<1> DEFINE u == D!NewTab
<1>b. /\ tabOf[h] = NoTab /\ h \in items \cup stranded /\ D!FreeTabs # {}
      /\ tabOf' = [tabOf EXCEPT ![h] = u] /\ panes' = [panes EXCEPT ![u] = {h}]
      /\ active' = [active EXCEPT ![u] = {h}]
      /\ UNCHANGED <<connOf, openConns, items, opener, uiq, cleared, stranded>>
  BY DEF D!reattachToMain, D!appVars, D!history
<1>c. u \in Tab /\ panes[u] = {} /\ \A x \in Handle : tabOf[x] # u
  <2>1. u \in D!FreeTabs
    BY <1>b DEF D!NewTab
  <2> QED
    BY <2>1 DEF D!FreeTabs
<1> HIDE DEF u
<1>d. /\ panes' \in [Tab -> SUBSET Handle] /\ active' \in [Tab -> SUBSET Handle]
      /\ tabOf' \in [Handle -> Tab \cup {NoTab}]
  BY <1>a, <1>b, <1>c DEF DesktopTypes
<1>e. /\ \A t \in Tab : /\ panes'[t] = IF t = u THEN {h} ELSE panes[t]
                        /\ active'[t] = IF t = u THEN {h} ELSE active[t]
      /\ \A x \in Handle : tabOf'[x] = IF x = h THEN u ELSE tabOf[x]
  BY <1>a, <1>b DEF DesktopTypes
<1>f. /\ items \subseteq Handle /\ \A t \in Tab : panes[t] \subseteq Handle
      /\ \A x \in items : tabOf[x] \in Tab \cup {NoTab}
  BY <1>a DEF DesktopTypes
<1>g. NoTab \notin Tab
  BY DesktopAssumption
<1>1. PaneInv'
  <2>1. \A x \in items : tabOf'[x] # NoTab => x \in panes'[tabOf'[x]]
    <3> SUFFICES ASSUME NEW x \in items, tabOf'[x] # NoTab PROVE x \in panes'[tabOf'[x]]
      OBVIOUS
    <3>1. CASE x = h
      BY <1>c, <1>e, <1>f, <3>1
    <3>2. CASE x # h
      <4>1. tabOf'[x] = tabOf[x] /\ tabOf[x] \in Tab /\ tabOf[x] # u
        BY <1>c, <1>e, <1>f, <3>2
      <4>2. x \in panes[tabOf[x]]
        BY <1>a, <4>1, <1>g DEF PaneInv, D!PanesMatchRegistry
      <4> QED
        BY <1>e, <4>1, <4>2
    <3> QED
      BY <3>1, <3>2
  <2>2. \A t \in Tab : \A x \in panes'[t] : x \in items \cup stranded /\ tabOf'[x] = t
    BY <1>a, <1>b, <1>e, <1>f, <1>g DEF PaneInv, D!PanesMatchRegistry
  <2>3. \A t \in Tab : active'[t] \subseteq panes'[t]
    BY <1>a, <1>e DEF PaneInv
  <2>4. \A t \in Tab : panes'[t] # {} => \E x \in panes'[t] : active'[t] = {x}
    BY <1>a, <1>e DEF PaneInv, D!PanesMatchRegistry
  <2> QED
    BY <1>b, <2>1, <2>2, <2>3, <2>4 DEF PaneInv, D!PanesMatchRegistry
<1> QED
  BY <1>b, <1>d, <1>1, ViewKeeps

LEMMA SetActiveKeeps ==
  ASSUME DesktopInv, NEW u \in Tab, NEW h \in Handle, D!setActive(u, h)
  PROVE  DesktopInv'
<1>a. DesktopTypes /\ PaneInv
  BY DEF DesktopInv
<1>b. /\ h \in panes[u] /\ active' = [active EXCEPT ![u] = {h}]
      /\ UNCHANGED <<connOf, tabOf, panes, openConns, items, opener, uiq, cleared, stranded>>
  BY DEF D!setActive, D!appVars, D!history
<1>c. active' \in [Tab -> SUBSET Handle] /\ \A t \in Tab : active'[t] = IF t = u THEN {h} ELSE active[t]
  BY <1>a, <1>b DEF DesktopTypes
<1>1. PaneInv'
  BY <1>a, <1>b, <1>c DEF PaneInv, D!PanesMatchRegistry
<1> QED
  BY <1>a, <1>b, <1>c, <1>1, ViewKeeps DEF DesktopTypes

-----------------------------------------------------------------------------
(* The registry                                                             *)

(* add: the session that was queued is registered, in its tab if it has one.   *)
LEMMA UiAddKeeps ==
  ASSUME DesktopInv, D!UiAdd
  PROVE  DesktopInv'
<1>a. DesktopTypes /\ QueueInv /\ PaneInv /\ BalanceInv
  BY DEF DesktopInv
<1> DEFINE h == Head(uiq)[2]
<1>b. /\ uiq # <<>> /\ Head(uiq)[1] # "remove" /\ D!Placed(h) /\ uiq' = Tail(uiq)
      /\ UNCHANGED <<connOf, tabOf, openConns, opener, cleared, stranded>>
  BY DEF D!UiAdd, D!appVars, D!history
<1>c. /\ uiq' \in Seq(Call) /\ AddedOnce(uiq') /\ h \in Adding(uiq) /\ Adding(uiq') = Adding(uiq) \ {h}
  BY <1>a, <1>b, FirstTaken DEF DesktopTypes, QueueInv
<1> HIDE DEF h
<1>d. items' = items \cup {h}
  BY <1>b DEF D!Placed
<1>e. h \in Handle /\ items \subseteq Handle /\ h \notin items
  BY <1>a, <1>c DEF Adding, DesktopTypes, QueueInv
<1>f. items' \cup Adding(uiq') = items \cup Adding(uiq)
  BY <1>c, <1>d
<1>g. /\ panes' \in [Tab -> SUBSET Handle] /\ active' \in [Tab -> SUBSET Handle]
      /\ \A t \in Tab : /\ panes'[t] = IF t = tabOf[h] THEN panes[t] \cup {h} ELSE panes[t]
                        /\ active'[t] = IF t = tabOf[h] THEN {h} ELSE active[t]
  <2>0. panes \in [Tab -> SUBSET Handle] /\ active \in [Tab -> SUBSET Handle]
    BY <1>a DEF DesktopTypes
  <2>1. CASE tabOf[h] = NoTab
    <3>1. panes' = panes /\ active' = active
      BY <1>b, <2>1 DEF D!Placed
    <3> QED
      BY <2>0, <2>1, <3>1, DesktopAssumption
  <2>2. CASE tabOf[h] # NoTab
    <3> DEFINE u == tabOf[h]
    <3>1. panes' = [panes EXCEPT ![u] = @ \cup {h}] /\ active' = [active EXCEPT ![u] = {h}]
      BY <1>b, <2>2 DEF D!Placed
    <3>2. u \in Tab
      BY <1>a, <1>e, <2>2 DEF DesktopTypes
    <3> HIDE DEF u
    <3>3. /\ panes' \in [Tab -> SUBSET Handle] /\ active' \in [Tab -> SUBSET Handle]
          /\ \A t \in Tab : /\ panes'[t] = IF t = u THEN panes[t] \cup {h} ELSE panes[t]
                            /\ active'[t] = IF t = u THEN {h} ELSE active[t]
      BY <1>e, <2>0, <3>1, <3>2
    <3> QED
      BY <3>3 DEF u
  <2> QED
    BY <2>1, <2>2
<1>1. DesktopTypes'
  <2>1. uiq' \in Seq(Call)' /\ items' \subseteq Handle
    BY <1>c, <1>d, <1>e DEF Call
  <2> QED
    BY <1>a, <1>b, <1>g, <2>1 DEF DesktopTypes
<1>2. QueueInv'
  <2>1. \A x \in Adding(uiq') : x \notin items'
    BY <1>a, <1>c, <1>d DEF QueueInv
  <2>2. \A x \in items' \cup stranded' \cup Adding(uiq') : connOf'[x] \in Conn
    BY <1>a, <1>b, <1>f DEF QueueInv
  <2>3. \A o \in Opener : opener'[o].pc # "idle" => opener'[o].conn \in Conn
    BY <1>a, <1>b DEF QueueInv
  <2> QED
    BY <1>c, <2>1, <2>2, <2>3 DEF QueueInv
<1>3. PaneInv'
  <2>0. \A x \in items : tabOf[x] \in Tab \cup {NoTab}
    BY <1>a, <1>e DEF DesktopTypes
  <2>1. \A x \in items' : tabOf'[x] # NoTab => x \in panes'[tabOf'[x]]
    <3> SUFFICES ASSUME NEW x \in items', tabOf[x] # NoTab PROVE x \in panes'[tabOf[x]]
      BY <1>b
    <3>1. CASE x = h
      <4>1. tabOf[h] \in Tab
        BY <1>a, <1>e, <3>1 DEF DesktopTypes
      <4> QED
        BY <1>g, <3>1, <4>1
    <3>2. CASE x # h
      <4>1. x \in items /\ tabOf[x] \in Tab
        BY <1>d, <2>0, <3>2
      <4>2. x \in panes[tabOf[x]]
        BY <1>a, <4>1 DEF PaneInv, D!PanesMatchRegistry
      <4> QED
        BY <1>g, <4>1, <4>2
    <3> QED
      BY <3>1, <3>2
  <2>2. \A t \in Tab : \A x \in panes'[t] : x \in items' \cup stranded' /\ tabOf'[x] = t
    BY <1>a, <1>b, <1>d, <1>g DEF PaneInv, D!PanesMatchRegistry
  <2>3. \A t \in Tab : active'[t] \subseteq panes'[t]
    BY <1>a, <1>g DEF PaneInv
  <2>4. \A t \in Tab : panes'[t] # {} => \E x \in panes'[t] : active'[t] = {x}
    BY <1>a, <1>g DEF PaneInv, D!PanesMatchRegistry
  <2> QED
    BY <2>1, <2>2, <2>3, <2>4 DEF PaneInv, D!PanesMatchRegistry
<1>4. BalanceInv'
  <2>1. \A c : Sessions(items', uiq', connOf', c) = Sessions(items, uiq, connOf, c)
    BY <1>b, <1>f DEF Sessions
  <2> QED
    BY <1>a, <1>b, <2>1 DEF BalanceInv
<1> QED
  BY <1>1, <1>2, <1>3, <1>4 DEF DesktopInv

(* The queue moves on; the sessions to be added stay.                          *)
LEMMA QueueKeeps ==
  ASSUME DesktopInv, uiq' \in Seq(Call), AddedOnce(uiq'), Adding(uiq') = Adding(uiq),
         UNCHANGED <<connOf, tabOf, openConns, items, panes, active, opener, cleared, stranded>>
  PROVE  DesktopInv'
<1>a. DesktopTypes /\ QueueInv /\ PaneInv /\ BalanceInv
  BY DEF DesktopInv
<1>1. DesktopTypes'
  <2>1. uiq' \in Seq(Call)'
    BY DEF Call
  <2> QED
    BY <1>a, <2>1 DEF DesktopTypes
<1>2. QueueInv'
  BY <1>a DEF QueueInv
<1>3. PaneInv'
  BY <1>a DEF PaneInv, D!PanesMatchRegistry
<1>4. BalanceInv'
  <2>1. \A c : Sessions(items', uiq', connOf', c) = Sessions(items, uiq, connOf, c)
    BY DEF Sessions
  <2> QED
    BY <1>a, <2>1 DEF BalanceInv
<1> QED
  BY <1>1, <1>2, <1>3, <1>4 DEF DesktopInv

(* remove: a registered session gives back one reservation, its own.           *)
LEMMA RemovedKeeps ==
  ASSUME DesktopInv, NEW h \in Handle, D!Removed(h),
         uiq' \in Seq(Call), AddedOnce(uiq'), Adding(uiq') = Adding(uiq),
         UNCHANGED <<connOf, tabOf, opener, cleared, stranded>>
  PROVE  DesktopInv'
<1>a. DesktopTypes /\ QueueInv /\ PaneInv /\ BalanceInv
  BY DEF DesktopInv
<1>1. CASE h \notin items
  <2>1. UNCHANGED <<items, openConns, panes, active>>
    BY <1>1 DEF D!Removed
  <2> QED
    BY <2>1, QueueKeeps
<1>2. CASE h \in items
  <2> DEFINE k == connOf[h]
  <2>b. /\ items' = items \ {h} /\ D!Unplaced(h) /\ openConns' = [openConns EXCEPT ![k] = D!Less(@)]
    BY <1>2 DEF D!Removed, D!releaseConn
  <2>c. k \in Conn /\ h \notin Adding(uiq)
    BY <1>2, <1>a DEF QueueInv
  <2>d. connOf[h] = k
    OBVIOUS
  <2> HIDE DEF k
  <2>e. /\ panes' \in [Tab -> SUBSET Handle] /\ active' \in [Tab -> SUBSET Handle]
        /\ \A t \in Tab : panes'[t] = panes[t] \ {h}
        /\ \A t \in Tab : active'[t] \subseteq panes'[t]
        /\ \A t \in Tab : panes'[t] # {} => \E x \in panes'[t] : active'[t] = {x}
    BY <1>a, <2>b, UnplacedPane
  <2>1. DesktopTypes'
    <3>1. uiq' \in Seq(Call)' /\ items' \subseteq Handle
      BY <1>a, <2>b DEF Call, DesktopTypes
    <3>2. openConns' \in [Conn -> Nat]
      BY <1>a, <2>b, <2>c DEF DesktopTypes, D!Less
    <3> QED
      BY <1>a, <2>e, <3>1, <3>2 DEF DesktopTypes
  <2>2. QueueInv'
    BY <1>a, <2>b DEF QueueInv
  <2>3. PaneInv'
    <3>0. \A x \in items : tabOf[x] \in Tab \cup {NoTab}
      BY <1>a DEF DesktopTypes
    <3>1. \A x \in items' : tabOf'[x] # NoTab => x \in panes'[tabOf'[x]]
      BY <1>a, <2>b, <2>e, <3>0 DEF PaneInv, D!PanesMatchRegistry
    <3>2. \A t \in Tab : \A x \in panes'[t] : x \in items' \cup stranded' /\ tabOf'[x] = t
      BY <1>a, <2>b, <2>e DEF PaneInv, D!PanesMatchRegistry
    <3> QED
      BY <2>e, <3>1, <3>2 DEF PaneInv, D!PanesMatchRegistry
  <2>4. BalanceInv'
    <3> SUFFICES ASSUME ~cleared, NEW c \in Conn
                 PROVE  openConns'[c] = Cardinality(Sessions(items', uiq', connOf, c))
                                          + Cardinality(Opening(opener, c))
      BY DEF BalanceInv
    <3>1. openConns[c] = Cardinality(Sessions(items, uiq, connOf, c)) + Cardinality(Opening(opener, c))
      BY <1>a DEF BalanceInv
    <3>2. Cardinality(Sessions(items, uiq, connOf, c))
            = Cardinality(Sessions(items', uiq', connOf, c)) + (IF c = k THEN 1 ELSE 0)
      <4>1. /\ c = k => /\ Sessions(items, uiq, connOf, c) = Sessions(items', uiq', connOf, c) \cup {h}
                        /\ h \notin Sessions(items', uiq', connOf, c)
            /\ c # k => Sessions(items, uiq, connOf, c) = Sessions(items', uiq', connOf, c)
        BY <1>2, <2>b, <2>c, <2>d DEF Sessions
      <4>2. IsFiniteSet(Sessions(items', uiq', connOf, c))
        BY <1>a, <2>b, CountsFinite DEF DesktopTypes
      <4> QED
        BY <4>1, <4>2, OneMore
    <3>3. openConns'[c] = (IF c = k THEN D!Less(openConns[c]) ELSE openConns[c]) /\ openConns[c] \in Nat
      BY <1>a, <2>b, <2>c DEF DesktopTypes
    <3>4. Cardinality(Sessions(items', uiq', connOf, c)) \in Nat /\ Cardinality(Opening(opener, c)) \in Nat
      BY <1>a, <2>b, CountsFinite DEF DesktopTypes
    <3> QED
      BY <3>1, <3>2, <3>3, <3>4 DEF D!Less
  <2> QED
    BY <2>1, <2>2, <2>3, <2>4 DEF DesktopInv
<1> QED
  BY <1>1, <1>2

(* Everything is emptied.  Unless an open or an add was under way, nothing      *)
(* is reserved and nothing should be.                                           *)
LEMMA DisconnectKeeps ==
  ASSUME DesktopInv, D!disconnectAllSessions
  PROVE  DesktopInv'
<1>a. DesktopTypes /\ QueueInv /\ PaneInv /\ BalanceInv
  BY DEF DesktopInv
<1>b. /\ items' = {} /\ openConns' = [c \in Conn |-> 0]
      /\ panes' = [t \in Tab |-> {}] /\ active' = [t \in Tab |-> {}]
      /\ cleared' <=> (cleared \/ (\E o \in Opener : opener[o].pc = "open")
                               \/ (\E i \in DOMAIN uiq : uiq[i][1] # "remove"))
      /\ stranded' = stranded \cup {h \in items : tabOf[h] = NoTab}
      /\ UNCHANGED <<connOf, tabOf, opener, uiq>>
  BY DEF D!disconnectAllSessions, D!appVars
<1>1. DesktopTypes'
  <2>1. openConns' \in [Conn -> Nat] /\ stranded' \subseteq Handle
    BY <1>a, <1>b DEF DesktopTypes
  <2>2. panes' \in [Tab -> SUBSET Handle] /\ active' \in [Tab -> SUBSET Handle]
    BY <1>b
  <2> QED
    BY <1>a, <1>b, <2>1, <2>2 DEF DesktopTypes, Call
<1>2. QueueInv'
  BY <1>a, <1>b DEF QueueInv
<1>3. PaneInv'
  BY <1>b DEF PaneInv, D!PanesMatchRegistry
<1>4. BalanceInv'
  <2> SUFFICES ASSUME ~cleared', NEW c \in Conn
               PROVE  openConns'[c] = Cardinality(Sessions(items', uiq', connOf', c))
                                        + Cardinality(Opening(opener', c))
    BY DEF BalanceInv
  <2>1. Adding(uiq') = {}
    BY <1>b DEF Adding
  <2>2. Sessions(items', uiq', connOf', c) = {}
    BY <1>b, <2>1 DEF Sessions
  <2>3. Opening(opener', c) = {}
    BY <1>b DEF Opening
  <2>4. Cardinality({}) = 0
    BY FS_EmptySet
  <2> QED
    BY <1>b, <2>2, <2>3, <2>4
<1> QED
  BY <1>1, <1>2, <1>3, <1>4 DEF DesktopInv

-----------------------------------------------------------------------------
(* Every step                                                               *)

(* The tab strip shows tabs.                                                  *)
TabsShown == shown \subseteq Tab

LEMMA UnplacedShown ==
  ASSUME TabsShown, NEW h, D!Unplaced(h)
  PROVE  TabsShown'
  BY DEF TabsShown, D!Unplaced

LEMMA TabsShownStep ==
  ASSUME DesktopInv, TabsShown, D!Next
  PROVE  TabsShown'
<1>a. DesktopTypes
  BY DEF DesktopInv
<1>1. ASSUME UNCHANGED shown PROVE TabsShown'
  BY <1>1 DEF TabsShown
<1>2. ASSUME NEW h, D!Removed(h) PROVE TabsShown'
  BY <1>1, <1>2, UnplacedShown DEF D!Removed
<1>3. ASSUME D!User PROVE TabsShown'
  <2>1. ASSUME NEW o \in Opener, NEW c \in Conn,
               D!openSession(o, c) \/ D!openSessionInSplit(o, c) \/ D!openSessionInWindow(o, c)
        PROVE  TabsShown'
    BY <1>1, <2>1 DEF D!openSession, D!openSessionInSplit, D!openSessionInWindow, D!Begin, D!placeVars
  <2>2. ASSUME NEW o \in Opener, D!duplicateCurrentSession(o) \/ \E t \in Tab : D!reconnectCurrentSession(o, t)
        PROVE  TabsShown'
    BY <1>1, <2>2 DEF D!duplicateCurrentSession, D!reconnectCurrentSession, D!Begin, D!placeVars
  <2>3. ASSUME NEW h \in Handle, D!closeSession(h) \/ \E t \in Tab : D!setActive(t, h) PROVE TabsShown'
    BY <1>1, <1>2, <2>3 DEF D!closeSession, D!setActive
  <2>4. ASSUME NEW h \in Handle, D!reattachToMain(h) PROVE TabsShown'
    <3>1. D!NewTab \in D!FreeTabs /\ shown' = shown \cup {D!NewTab}
      BY <2>4 DEF D!reattachToMain, D!NewTab
    <3> QED
      BY <3>1 DEF TabsShown, D!FreeTabs
  <2>5. ASSUME NEW t \in Tab, D!OnClosed(t) \/ D!detachCurrentTab(t) PROVE TabsShown'
    BY <2>5, UnplacedShown DEF D!OnClosed, D!detachCurrentTab, TabsShown
  <2>6. ASSUME D!disconnectAllSessions PROVE TabsShown'
    BY <2>6 DEF D!disconnectAllSessions, TabsShown
  <2> QED
    BY <1>3, <2>1, <2>2, <2>3, <2>4, <2>5, <2>6 DEF D!User
<1>4. ASSUME NEW o \in Opener, D!OpenFail(o) \/ D!OpenOk(o) \/ D!Reopen(o) PROVE TabsShown'
  BY <1>1, <1>4 DEF D!OpenFail, D!OpenOk, D!Reopen, D!placeVars
<1>5. ASSUME D!UiAdd PROVE TabsShown'
  <2> DEFINE h == Head(uiq)[2]
  <2>1. uiq # <<>> /\ Head(uiq)[1] # "remove" /\ D!Placed(h)
    BY <1>5 DEF D!UiAdd
  <2>2. Head(uiq) \in Call
    BY <1>a, <2>1, FirstTaken DEF DesktopInv, QueueInv, DesktopTypes
  <2>3. tabOf[h] \in Tab \cup {NoTab}
    BY <1>a, <2>2, CallParts DEF DesktopTypes
  <2> HIDE DEF h
  <2> QED
    BY <2>1, <2>3 DEF D!Placed, TabsShown
<1>6. ASSUME D!UiRemove PROVE TabsShown'
  BY <1>2, <1>6 DEF D!UiRemove
<1>7. ASSUME NEW h \in Handle, D!SessionEnds(h) \/ D!RunEnds(h) PROVE TabsShown'
  BY <1>1, <1>7 DEF D!SessionEnds, D!RunEnds, D!placeVars
<1>8. ASSUME D!WatchList \/ D!WatchCompare PROVE TabsShown'
  BY <1>1, <1>8 DEF D!WatchList, D!WatchCompare, D!placeVars
<1> QED
  BY <1>3, <1>4, <1>5, <1>6, <1>7, <1>8 DEF D!Next

(* A pane's session has a connection.                                         *)
LEMMA PaneConn ==
  ASSUME DesktopInv, NEW t \in Tab, NEW h \in active[t]
  PROVE  h \in Handle /\ connOf[h] \in Conn
<1>1. h \in Handle
  BY DEF DesktopInv, DesktopTypes
<1>2. h \in panes[t]
  BY DEF DesktopInv, PaneInv
<1>3. h \in items \cup stranded
  BY <1>2 DEF DesktopInv, PaneInv, D!PanesMatchRegistry
<1> QED
  BY <1>1, <1>3 DEF DesktopInv, QueueInv

LEMMA StayKeeps ==
  ASSUME DesktopInv,
         UNCHANGED <<connOf, tabOf, openConns, items, panes, active, opener, uiq, cleared, stranded>>
  PROVE  DesktopInv'
  BY QueueKeeps DEF DesktopInv, DesktopTypes, QueueInv

LEMMA BegunKeeps ==
  ASSUME DesktopInv, NEW o \in Opener, NEW k \in Conn, NEW where \in Tab \cup {NoTab, "window"},
         NEW dup, D!Begin(o, k, where, dup)
  PROVE  DesktopInv'
<1>1. /\ opener[o].pc # "open" /\ openConns' = [openConns EXCEPT ![k] = @ + 1]
      /\ opener' = [opener EXCEPT ![o] = [pc |-> "open", conn |-> k, where |-> where]]
      /\ UNCHANGED <<connOf, tabOf, items, panes, active, uiq, cleared, stranded>>
  BY DEF D!Begin, D!reserveConn, D!appVars, D!placeVars, D!history
<1> QED
  BY <1>1, BeginKeeps

(* The three seconds of a reconnect are over.                                 *)
LEMMA ReopenKeeps ==
  ASSUME DesktopInv, NEW o \in Opener, D!Reopen(o)
  PROVE  DesktopInv'
<1> DEFINE k == opener[o].conn
<1>1. /\ opener[o].pc = "wait"
      /\ UNCHANGED <<connOf, tabOf, items, panes, active, uiq, cleared, stranded>>
  BY DEF D!Reopen, D!appVars, D!placeVars, D!history
<1>2. /\ k \in Conn /\ opener[o].where \in Tab \cup {NoTab, "window"}
      /\ opener[o] = [pc |-> opener[o].pc, conn |-> k, where |-> opener[o].where]
  BY <1>1, OpenerTyped
<1>3. CASE openConns' = [openConns EXCEPT ![k] = @ + 1] /\ opener' = [opener EXCEPT ![o].pc = "open"]
  <2>1. [opener[o] EXCEPT !.pc = "open"] = [pc |-> "open", conn |-> k, where |-> opener[o].where]
    BY <1>2
  <2>2. opener' = [opener EXCEPT ![o] = [pc |-> "open", conn |-> k, where |-> opener[o].where]]
    BY <1>3, <2>1
  <2> QED
    BY <1>1, <1>2, <1>3, <2>2, BeginKeeps
<1>4. CASE /\ opener' = [opener EXCEPT ![o] = [pc |-> "idle", conn |-> NoConn, where |-> NoTab]]
           /\ UNCHANGED openConns
  BY <1>1, <1>4, WaitKeeps
<1> QED
  BY <1>3, <1>4 DEF D!Reopen, D!reserveConn, D!Idle

LEMMA ReconnectKeeps ==
  ASSUME DesktopInv, NEW o \in Opener, NEW t \in Tab, D!reconnectCurrentSession(o, t)
  PROVE  DesktopInv'
<1>1. PICK h \in active[t] :
        /\ opener[o].pc = "idle"
        /\ opener' = [opener EXCEPT ![o] = [pc |-> "wait", conn |-> connOf[h], where |-> NoTab]]
        /\ UNCHANGED <<connOf, tabOf, openConns, items, panes, active, uiq, cleared, stranded>>
  BY DEF D!reconnectCurrentSession, D!appVars, D!placeVars, D!history
<1>2. connOf[h] \in Conn
  BY PaneConn
<1> QED
  BY <1>1, <1>2, WaitKeeps

LEMMA UserKeeps ==
  ASSUME DesktopInv, TabsShown, D!User
  PROVE  DesktopInv'
<1>1. ASSUME NEW o \in Opener, NEW c \in Conn,
             D!openSession(o, c) \/ D!openSessionInSplit(o, c) \/ D!openSessionInWindow(o, c)
      PROVE  DesktopInv'
  BY <1>1, BegunKeeps DEF D!openSession, D!openSessionInSplit, D!openSessionInWindow, TabsShown
<1>2. ASSUME NEW o \in Opener, D!duplicateCurrentSession(o) PROVE DesktopInv'
  <2>1. PICK t \in shown, h \in Handle : h \in active[t] /\ D!Begin(o, connOf[h], NoTab, TRUE)
    BY <1>2 DEF D!duplicateCurrentSession
  <2>2. connOf[h] \in Conn
    BY <2>1, PaneConn DEF TabsShown
  <2> QED
    BY <2>1, <2>2, BegunKeeps
<1>3. ASSUME NEW o \in Opener, NEW t \in Tab, D!reconnectCurrentSession(o, t) PROVE DesktopInv'
  BY <1>3, ReconnectKeeps
<1>4. ASSUME NEW h \in Handle, D!closeSession(h) PROVE DesktopInv'
  <2>1. D!Removed(h) /\ UNCHANGED <<connOf, tabOf, opener, cleared, stranded, uiq>>
    BY <1>4 DEF D!closeSession, D!appVars, D!history
  <2>2. uiq' \in Seq(Call) /\ AddedOnce(uiq') /\ Adding(uiq') = Adding(uiq)
    BY <2>1 DEF DesktopInv, DesktopTypes, QueueInv
  <2> QED
    BY <2>1, <2>2, RemovedKeeps
<1>5. ASSUME NEW h \in Handle, NEW t \in Tab, D!setActive(t, h) PROVE DesktopInv'
  BY <1>5, SetActiveKeeps
<1>6. ASSUME NEW t \in Tab, D!OnClosed(t) PROVE DesktopInv'
  BY <1>6, StayKeeps DEF D!OnClosed, D!appVars, D!history
<1> QED
  BY <1>1, <1>2, <1>3, <1>4, <1>5, <1>6, ReattachKeeps, DetachKeeps, DisconnectKeeps DEF D!User

(* Whatever a click, the queue, an open, a session's end or the watcher does.  *)
LEMMA DesktopStep ==
  ASSUME DesktopInv, TabsShown, D!Next
  PROVE  DesktopInv'
<1>a. uiq \in Seq(Call) /\ AddedOnce(uiq)
  BY DEF DesktopInv, DesktopTypes, QueueInv
<1>1. ASSUME D!UiRemove PROVE DesktopInv'
  <2>1. /\ uiq # <<>> /\ Head(uiq)[1] = "remove" /\ D!Removed(Head(uiq)[2]) /\ uiq' = Tail(uiq)
        /\ UNCHANGED <<connOf, tabOf, opener, cleared, stranded>>
    BY <1>1 DEF D!UiRemove, D!appVars, D!history
  <2>2. /\ Head(uiq) \in Call /\ uiq' \in Seq(Call) /\ AddedOnce(uiq') /\ Adding(uiq') = Adding(uiq)
    BY <1>a, <2>1, FirstTaken
  <2>3. Head(uiq)[2] \in Handle
    BY <2>2, CallParts
  <2> QED
    BY <2>1, <2>2, <2>3, RemovedKeeps
<1>2. ASSUME NEW h \in Handle, D!SessionEnds(h) PROVE DesktopInv'
  BY <1>2, StayKeeps DEF D!SessionEnds, D!placeVars, D!history
<1>3. ASSUME NEW gone \in SUBSET Handle, uiq' = D!Queued(gone),
             UNCHANGED <<connOf, tabOf, openConns, items, panes, active, opener, cleared, stranded>>
      PROVE  DesktopInv'
  <2>1. uiq' \in Seq(Call) /\ AddedOnce(uiq') /\ Adding(uiq') = Adding(uiq)
    BY <1>a, <1>3, QueuedRemoves
  <2> QED
    BY <1>3, <2>1, QueueKeeps
<1>4. ASSUME NEW h \in Handle, D!RunEnds(h) PROVE DesktopInv'
  <2>1. uiq' = D!Queued({h}) /\ {h} \in SUBSET Handle
    BY <1>4 DEF D!RunEnds
  <2>2. UNCHANGED <<connOf, tabOf, openConns, items, panes, active, opener, cleared, stranded>>
    BY <1>4 DEF D!RunEnds, D!appVars, D!placeVars, D!history
  <2> QED
    BY <1>3, <2>1, <2>2
<1>5. ASSUME D!WatchCompare PROVE DesktopInv'
  <2>1. uiq' = D!Queued(items \ UNION listed) /\ items \ UNION listed \in SUBSET Handle
    BY <1>5 DEF D!WatchCompare, DesktopInv, DesktopTypes
  <2>2. UNCHANGED <<connOf, tabOf, openConns, items, panes, active, opener, cleared, stranded>>
    BY <1>5 DEF D!WatchCompare, D!appVars, D!placeVars, D!history
  <2> QED
    BY <1>3, <2>1, <2>2
<1>6. ASSUME D!WatchList PROVE DesktopInv'
  BY <1>6, StayKeeps DEF D!WatchList, D!appVars, D!placeVars, D!history
<1> QED
  BY <1>1, <1>2, <1>4, <1>5, <1>6, UserKeeps, UiAddKeeps, OpenFailKeeps, OpenOkKeeps, ReopenKeeps
  DEF D!Next

-----------------------------------------------------------------------------
(* What the counts say                                                      *)

(* The adds of a connection in the queue, and the sessions they add.           *)
AddsOf(q, f, c) == {i \in DOMAIN q : q[i][1] # "remove" /\ f[q[i][2]] = c}
AddedOf(q, f, c) == {h \in Adding(q) : f[h] = c}

(* They are as many.                                                          *)
LEMMA AddsCounted ==
  ASSUME NEW q \in Seq(Call), AddedOnce(q), NEW f, NEW c
  PROVE  /\ IsFiniteSet(AddedOf(q, f, c))
         /\ Cardinality(AddsOf(q, f, c)) = Cardinality(AddedOf(q, f, c))
<1> DEFINE I == AddsOf(q, f, c)
           A == AddedOf(q, f, c)
           g == [i \in I |-> q[i][2]]
<1>1. \A i \in DOMAIN q : q[i][2] \in Handle
  BY CallParts
<1>2. \A i \in I : q[i][2] \in A
  BY <1>1 DEF Adding, AddsOf, AddedOf
<1>3. \A i, j \in I : q[i][2] = q[j][2] => i = j
  BY DEF AddedOnce, AddsOf
<1>4. \A h \in A : \E i \in I : q[i][2] = h
  BY DEF Adding, AddsOf, AddedOf
<1>5. IsFiniteSet(I)
  <2>1. DOMAIN q = 1 .. Len(q) /\ Len(q) \in Nat
    BY LenProperties
  <2>2. IsFiniteSet(1 .. Len(q))
    BY <2>1, FS_Interval
  <2>3. I \subseteq 1 .. Len(q)
    BY <2>1 DEF AddsOf
  <2> QED
    BY <2>2, <2>3, FS_Subset
<1> HIDE DEF I, A
<1>6. g \in Bijection(I, A)
  BY <1>2, <1>3, <1>4 DEF Bijection, Injection, Surjection, IsInjective
<1>7. ExistsBijection(I, A)
  BY <1>6 DEF ExistsBijection
<1>8. IsFiniteSet(A) /\ Cardinality(A) = Cardinality(I)
  BY <1>5, <1>7, FS_Bijection
<1> QED
  BY <1>8 DEF I, A

(* No session is counted twice.                                               *)
LEMMA CountsAgree ==
  ASSUME DesktopInv
  PROVE  D!PanesMatchRegistry /\ D!ReservationsBalanced
<1>a. DesktopTypes /\ QueueInv /\ PaneInv /\ BalanceInv
  BY DEF DesktopInv
<1>1. D!PanesMatchRegistry
  BY <1>a DEF PaneInv
<1>2. ASSUME ~cleared, NEW c \in Conn
      PROVE  openConns[c] = Cardinality({h \in items : connOf[h] = c})
               + Cardinality({o \in Opener : opener[o].pc = "open" /\ opener[o].conn = c})
               + Cardinality({i \in DOMAIN uiq : uiq[i][1] # "remove" /\ connOf[uiq[i][2]] = c})
  <2> DEFINE R == {h \in items : connOf[h] = c}
             A == AddedOf(uiq, connOf, c)
             O == {o \in Opener : opener[o].pc = "open" /\ opener[o].conn = c}
             I == AddsOf(uiq, connOf, c)
  <2>1. IsFiniteSet(A) /\ Cardinality(I) = Cardinality(A)
    BY <1>a, AddsCounted DEF DesktopTypes, QueueInv
  <2>2. Sessions(items, uiq, connOf, c) = R \cup A /\ Opening(opener, c) = O
    BY DEF Sessions, Opening, AddedOf
  <2>3. R \cap A = {}
    BY <1>a DEF QueueInv, AddedOf
  <2>4. IsFiniteSet(R)
    <3>1. R \subseteq Handle
      BY <1>a DEF DesktopTypes
    <3> QED
      BY <3>1, FS_Subset, DesktopAssumption
  <2>5. openConns[c] = Cardinality(R \cup A) + Cardinality(O)
    BY <1>2, <1>a, <2>2 DEF BalanceInv
  <2>6. Cardinality(O) \in Nat
    BY <2>2, <1>a, CountsFinite DEF DesktopTypes
  <2> HIDE DEF R, A, O, I
  <2>7. Cardinality(R \cup A) = Cardinality(R) + Cardinality(A) - Cardinality(R \cap A)
    BY <2>1, <2>4, FS_Union
  <2>8. Cardinality(R) \in Nat /\ Cardinality(A) \in Nat /\ Cardinality({}) = 0
    BY <2>1, <2>4, FS_CardinalityType, FS_EmptySet
  <2>9. openConns[c] = Cardinality(R) + Cardinality(O) + Cardinality(I)
    BY <2>1, <2>3, <2>5, <2>6, <2>7, <2>8
  <2> QED
    BY <2>9 DEF R, O, I, AddsOf
<1>3. D!ReservationsBalanced
  BY <1>2 DEF D!ReservationsBalanced, D!Cardinality, Cardinality
<1> QED
  BY <1>1, <1>3

LEMMA DesktopBegins == D!Init => DesktopInv /\ TabsShown
<1> SUFFICES ASSUME D!Init PROVE DesktopInv /\ TabsShown
  OBVIOUS
<1> USE DEF D!Init, D!Idle
<1>1. DesktopTypes
  <2>1. <<>> \in Seq(Call)
    OBVIOUS
  <2> QED
    BY <2>1 DEF DesktopTypes
<1>2. Adding(uiq) = {} /\ AddedOnce(uiq)
  BY DEF Adding, AddedOnce
<1>3. QueueInv
  BY <1>2 DEF QueueInv
<1>4. PaneInv
  BY DEF PaneInv, D!PanesMatchRegistry
<1>5. BalanceInv
  <2>1. \A c : Sessions(items, uiq, connOf, c) = {} /\ Opening(opener, c) = {}
    BY <1>2 DEF Sessions, Opening
  <2>2. Cardinality({}) = 0
    BY FS_EmptySet
  <2>3. \A c \in Conn : openConns[c] = 0
    OBVIOUS
  <2> HIDE DEF D!Init, D!Idle
  <2>4. \A c \in Conn : openConns[c] = Cardinality(Sessions(items, uiq, connOf, c))
                                          + Cardinality(Opening(opener, c))
    <3> TAKE c \in Conn
    <3>1. Cardinality(Sessions(items, uiq, connOf, c)) = 0 /\ Cardinality(Opening(opener, c)) = 0
      BY <2>1, <2>2
    <3> QED
      BY <2>3, <3>1
  <2> QED
    BY <2>4 DEF BalanceInv
<1> QED
  BY <1>1, <1>3, <1>4, <1>5 DEF DesktopInv, TabsShown

-----------------------------------------------------------------------------
(* The theorems                                                             *)

(* The desktop client alone: its panes are those of the registered sessions,   *)
(* and until a Disconnect all overtakes an open each connection has as many     *)
(* reservations as sessions, opens and queued adds (sessionRegistry).          *)
THEOREM DesktopAgrees == D!Spec => [](D!PanesMatchRegistry /\ D!ReservationsBalanced)
<1>1. D!Init => DesktopInv /\ TabsShown
  BY DesktopBegins
<1>2. DesktopInv /\ TabsShown /\ [D!Next]_D!vars => DesktopInv' /\ TabsShown'
  <2> SUFFICES ASSUME DesktopInv, TabsShown, [D!Next]_D!vars PROVE DesktopInv' /\ TabsShown'
    OBVIOUS
  <2>1. CASE D!Next
    BY <2>1, DesktopStep, TabsShownStep
  <2>2. CASE UNCHANGED D!vars
    BY <2>2, StayKeeps DEF D!vars, TabsShown
  <2> QED
    BY <2>1, <2>2
<1>3. DesktopInv => D!PanesMatchRegistry /\ D!ReservationsBalanced
  BY CountsAgree
<1> QED
  BY <1>1, <1>2, <1>3, PTL DEF D!Spec

(* In the composition the invariant holds in every part: the desktop's         *)
(* variables move in its own only.                                            *)
THEOREM DesktopInvariant == MCSpec => [](DesktopInv /\ TabsShown)
<1>1. MCInit => DesktopInv /\ TabsShown
  BY DesktopBegins DEF MCInit
<1>2. ASSUME DesktopInv, TabsShown, UNCHANGED desktopVars PROVE DesktopInv' /\ TabsShown'
  BY <1>2, StayKeeps DEF desktopVars, TabsShown
<1>3. DesktopInv /\ TabsShown
        /\ [MCNext]_<<hostsVars, clientVars, serverVars, sessionVars, desktopVars, telnetVars,
                      sftpVars, hostkeysVars, part>>
      => DesktopInv' /\ TabsShown'
  <2> SUFFICES ASSUME DesktopInv, TabsShown,
                      [MCNext]_<<hostsVars, clientVars, serverVars, sessionVars, desktopVars, telnetVars,
                                 sftpVars, hostkeysVars, part>>
               PROVE  DesktopInv' /\ TabsShown'
    OBVIOUS
  <2>1. D!Next \/ UNCHANGED desktopVars
    BY DEF MCNext
  <2> QED
    BY <1>2, <2>1, DesktopStep, TabsShownStep
<1> QED
  BY <1>1, <1>3, PTL DEF MCSpec

(* DesktopConsistent, that panes, registry and reservations agree whatever     *)
(* the user clicks while sessions open and end.                               *)
THEOREM PluginsDesktop == MCSpec => []DesktopConsistent
<1>1. DesktopInv => DesktopConsistent
  BY CountsAgree DEF DesktopConsistent
<1> QED
  BY <1>1, DesktopInvariant, PTL
=============================================================================
