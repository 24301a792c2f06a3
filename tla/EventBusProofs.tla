--------------------------- MODULE EventBusProofs ---------------------------
(***************************************************************************)
(* Proofs about the event bus, for any number of publishers, subscriptions  *)
(* and events and for every buffer size.                                    *)
(***************************************************************************)
EXTENDS EventBus, SequenceTheorems, TLAPS

(* Who may still close a channel.  At any time at most one of: the bus (the *)
(* subscription is in its map), the goroutine of Subscribe (it took it out   *)
(* of the map and has not closed it yet), Close (it took the whole map); and *)
(* while one of them may, the channel is open.  A fan-out only visits        *)
(* subscriptions that are in the map, which the read lock keeps there.       *)
OneCloser ==
  /\ \A s \in subs : gpc[s] = "select" /\ ~chClosed[s]
  /\ \A s \in closing : gpc[s] \in {"select", "exited"} /\ ~chClosed[s]
  /\ \A s \in Sub : gpc[s] = "none" => ~chClosed[s] /\ ch[s] = <<>>
  /\ \A s \in Sub : gpc[s] = "close" => ~chClosed[s]
  /\ closed => subs = {}
  /\ closing # {} => closed
  /\ \A p \in Pub : todo[p] \subseteq subs
  /\ \A p \in Pub : pubPc[p] = "idle" => todo[p] = {}

BusInv == TypeOK /\ OneCloser /\ NoPanic

(* The empty bus.                                                           *)
LEMMA InitBusInv == Init => BusInv
<1> SUFFICES ASSUME Init PROVE BusInv
  OBVIOUS
<1>a. <<>> \in Seq(Event) /\ Len(<<>>) = 0
  OBVIOUS
<1>b. ch \in [Sub -> Seq(Event)] /\ got \in [Sub -> Seq(Event)]
      /\ \A s \in Sub : Len(ch[s]) <= cap[s]
  BY <1>a DEF Init
<1>1. TypeOK
  BY <1>b DEF Init, TypeOK
<1>2. OneCloser /\ NoPanic
  BY DEF Init, OneCloser, NoPanic
<1> QED
  BY <1>1, <1>2 DEF BusInv

(* Every step keeps the types.  A channel grows only below its capacity.     *)
LEMMA TypeStep == BusInv /\ [Next]_vars => TypeOK'
<1> SUFFICES ASSUME BusInv, [Next]_vars
             PROVE  TypeOK'
  OBVIOUS
<1>a. TypeOK
  BY DEF BusInv
<1> USE DEF TypeOK, busVars, pubVars, subVars
<1>1. ASSUME NEW s \in Sub, NEW b \in Buffer, Subscribe(s, b)
      PROVE  TypeOK'
  <2>1. b \in Nat
    BY BusAssumption
  <2>2. ch[s] = <<>>
    BY <1>1 DEF BusInv, OneCloser, Subscribe
  <2>3. cap' \in [Sub -> Nat] /\ \A t \in Sub : Len(ch'[t]) <= cap'[t]
    <3>1. Len(ch[s]) = 0
      BY <2>2
    <3> QED
      BY <1>1, <1>a, <2>1, <3>1 DEF Subscribe
  <2>4. CASE closed
    BY <1>1, <1>a, <2>3, <2>4, ZenonT(40) DEF Subscribe, CloseChannel
  <2>5. CASE ~closed
    BY <1>1, <1>a, <2>3, <2>5 DEF Subscribe
  <2> QED
    BY <2>4, <2>5
<1>2. ASSUME NEW s \in Sub, CancelCtx(s)
      PROVE  TypeOK'
  BY <1>2, <1>a DEF CancelCtx
<1>3. ASSUME NEW s \in Sub, RemoveSub(s)
      PROVE  TypeOK'
  BY <1>3, <1>a DEF RemoveSub
<1>4. ASSUME NEW s \in Sub, RemoveSubClose(s)
      PROVE  TypeOK'
  BY <1>4, <1>a DEF RemoveSubClose, CloseChannel
<1>5. ASSUME NEW s \in Sub, Receive(s)
      PROVE  TypeOK'
  <2>1. Head(ch[s]) \in Event /\ Tail(ch[s]) \in Seq(Event) /\ Len(Tail(ch[s])) <= cap[s]
    BY <1>5, <1>a DEF Receive
  <2> QED
    BY <1>5, <1>a, <2>1 DEF Receive
<1>6. ASSUME NEW p \in Pub, PublishBegin(p)
      PROVE  TypeOK'
  BY <1>6, <1>a DEF PublishBegin
<1>7. ASSUME NEW p \in Pub, NEW s \in Sub, Send(p, s)
      PROVE  TypeOK'
  <2>1. <<p, current[p]>> \in Event
    BY <1>a DEF Event
  <2>2. CASE Enqueue(p, s)
    <3>1. Append(ch[s], <<p, current[p]>>) \in Seq(Event)
          /\ Len(Append(ch[s], <<p, current[p]>>)) <= cap[s]
      BY <2>1, <2>2, <1>a DEF Enqueue
    <3> QED
      BY <1>7, <1>a, <2>2, <3>1 DEF Send, Enqueue
  <2>3. CASE HandOver(p, s)
    <3>1. Append(got[s], <<p, current[p]>>) \in Seq(Event)
      BY <2>1, <1>a
    <3> QED
      BY <1>7, <1>a, <2>3, <3>1 DEF Send, HandOver
  <2>4. CASE Drop(p, s)
    BY <1>7, <1>a, <2>4 DEF Send, Drop
  <2>5. CASE SendOnClosed(s)
    BY <1>7, <1>a, <2>5 DEF Send, SendOnClosed
  <2> QED
    BY <1>7, <2>2, <2>3, <2>4, <2>5 DEF Send
<1>8. ASSUME NEW p \in Pub, PublishEnd(p)
      PROVE  TypeOK'
  BY <1>8, <1>a DEF PublishEnd
<1>9. CASE CloseBegin \/ CloseDone \/ CloseReturn
  BY <1>9, <1>a DEF CloseBegin, CloseDone, CloseReturn
<1>10. ASSUME NEW s \in Sub, CloseNext(s)
       PROVE  TypeOK'
  BY <1>10, <1>a DEF CloseNext, CloseChannel
<1>11. CASE UNCHANGED vars
  BY <1>11, <1>a DEF vars
<1> QED
  BY <1>1, <1>2, <1>3, <1>4, <1>5, <1>6, <1>7, <1>8, <1>9, <1>10, <1>11 DEF Next

(* Every step keeps one closer per channel, and therefore no panic.          *)
LEMMA OneCloserStep == BusInv /\ [Next]_vars => OneCloser' /\ NoPanic'
<1> SUFFICES ASSUME BusInv, [Next]_vars
             PROVE  OneCloser' /\ NoPanic'
  OBVIOUS
<1>a. TypeOK /\ OneCloser /\ NoPanic
  BY DEF BusInv
<1> USE DEF TypeOK, OneCloser, NoPanic, busVars, pubVars, subVars
<1>1. ASSUME NEW s \in Sub, NEW b \in Buffer, Subscribe(s, b)
      PROVE  OneCloser' /\ NoPanic'
  <2>1. s \notin subs /\ s \notin closing /\ \A p \in Pub : todo[p] = {}
    BY <1>1, <1>a DEF Subscribe, WriteLockFree
  <2>2. CASE closed
    BY <1>1, <1>a, <2>1, <2>2, ZenonT(40) DEF Subscribe, CloseChannel
  <2>3. CASE ~closed
    BY <1>1, <1>a, <2>1, <2>3 DEF Subscribe
  <2> QED
    BY <2>2, <2>3
<1>2. ASSUME NEW s \in Sub, CancelCtx(s)
      PROVE  OneCloser' /\ NoPanic'
  BY <1>2, <1>a DEF CancelCtx
<1>3. ASSUME NEW s \in Sub, RemoveSub(s)
      PROVE  OneCloser' /\ NoPanic'
  BY <1>3, <1>a DEF RemoveSub, WriteLockFree
<1>4. ASSUME NEW s \in Sub, RemoveSubClose(s)
      PROVE  OneCloser' /\ NoPanic'
  BY <1>4, <1>a DEF RemoveSubClose, CloseChannel
<1>5. ASSUME NEW s \in Sub, Receive(s)
      PROVE  OneCloser' /\ NoPanic'
  BY <1>5, <1>a DEF Receive
<1>6. ASSUME NEW p \in Pub, PublishBegin(p)
      PROVE  OneCloser' /\ NoPanic'
  BY <1>6, <1>a DEF PublishBegin
<1>7. ASSUME NEW p \in Pub, NEW s \in Sub, Send(p, s)
      PROVE  OneCloser' /\ NoPanic'
  <2>1. s \in subs /\ gpc[s] = "select" /\ ~chClosed[s]
    BY <1>7, <1>a DEF Send
  <2>2. \A t \in Sub : gpc[t] = "none" => ch'[t] = ch[t]
    BY <1>7, <2>1, <1>a DEF Send, Enqueue, HandOver, Drop, SendOnClosed
  <2>3. panicked' = panicked
    BY <1>7, <2>1 DEF Send, Enqueue, HandOver, Drop, SendOnClosed
  <2> QED
    BY <1>7, <1>a, <2>2, <2>3 DEF Send
<1>8. ASSUME NEW p \in Pub, PublishEnd(p)
      PROVE  OneCloser' /\ NoPanic'
  BY <1>8, <1>a DEF PublishEnd
<1>9. CASE CloseBegin \/ CloseDone \/ CloseReturn
  BY <1>9, <1>a DEF CloseBegin, CloseDone, CloseReturn, WriteLockFree
<1>10. ASSUME NEW s \in Sub, CloseNext(s)
       PROVE  OneCloser' /\ NoPanic'
  BY <1>10, <1>a DEF CloseNext, CloseChannel
<1>11. CASE UNCHANGED vars
  BY <1>11, <1>a DEF vars
<1> QED
  BY <1>1, <1>2, <1>3, <1>4, <1>5, <1>6, <1>7, <1>8, <1>9, <1>10, <1>11 DEF Next

(* The invariant of the bus.                                                 *)
THEOREM BusInvariant == Spec => []BusInv
<1>1. BusInv /\ [Next]_vars => BusInv'
  BY TypeStep, OneCloserStep DEF BusInv
<1> QED
  BY <1>1, InitBusInv, PTL DEF Spec

(* The variables keep their types and no channel exceeds its buffer.         *)
THEOREM BusTypes == Spec => []TypeOK
<1>1. BusInv => TypeOK
  BY DEF BusInv
<1> QED
  BY <1>1, BusInvariant, PTL

(* Close, cancelled contexts and fan-outs never close a channel twice nor    *)
(* send on a closed one.                                                     *)
THEOREM BusNeverPanics == Spec => []NoPanic
<1>1. BusInv => NoPanic
  BY DEF BusInv
<1> QED
  BY <1>1, BusInvariant, PTL

-----------------------------------------------------------------------------
(* Order of delivery                                                         *)

(* No event in a stream is newer than its publisher's current one, and while *)
(* the fan-out has still to visit s, the current one is not in s's stream.   *)
StreamsBehind ==
  /\ \A p \in Pub : current[p] <= published
  /\ \A s \in Sub : \A i \in 1 .. Len(Stream(s)) :
       /\ Stream(s)[i][2] <= current[Stream(s)[i][1]]
       /\ s \in todo[Stream(s)[i][1]] => Stream(s)[i][2] < current[Stream(s)[i][1]]

OrderInv == BusInv /\ StreamsBehind /\ DeliveredOnceInOrder

(* Receiving moves the head of the channel and leaves the stream as it was.  *)
LEMMA ReceiveKeeps ==
  ASSUME NEW S, NEW a \in Seq(S), NEW b \in Seq(S), b # <<>>
  PROVE  Append(a, Head(b)) \o Tail(b) = a \o b
<1>1. Head(b) \in S /\ Tail(b) \in Seq(S) /\ Len(Tail(b)) = Len(b) - 1 /\ Len(b) \in Nat \ {0}
      /\ \A i \in 1 .. Len(Tail(b)) : Tail(b)[i] = b[i + 1]
  BY HeadTailProperties, EmptySeq
<1>2. Append(a, Head(b)) \in Seq(S) /\ Len(Append(a, Head(b))) = Len(a) + 1
      /\ \A i \in 1 .. Len(a) + 1 :
           Append(a, Head(b))[i] = IF i <= Len(a) THEN a[i] ELSE b[1]
  BY <1>1
<1>3. a \o b \in Seq(S) /\ Append(a, Head(b)) \o Tail(b) \in Seq(S)
  BY <1>1, <1>2, ConcatProperties
<1>4. Len(a \o b) = Len(Append(a, Head(b)) \o Tail(b))
  BY <1>1, <1>2, ConcatProperties
<1>5. ASSUME NEW i \in 1 .. Len(a \o b)
      PROVE  (Append(a, Head(b)) \o Tail(b))[i] = (a \o b)[i]
  <2>1. (a \o b)[i] = IF i <= Len(a) THEN a[i] ELSE b[i - Len(a)]
    BY ConcatProperties
  <2>2. (Append(a, Head(b)) \o Tail(b))[i] =
          IF i <= Len(a) + 1 THEN Append(a, Head(b))[i] ELSE Tail(b)[i - (Len(a) + 1)]
    BY <1>1, <1>2, ConcatProperties
  <2> QED
    BY <1>1, <1>2, <2>1, <2>2
<1> QED
  BY <1>3, <1>4, <1>5, SeqEqual

(* Appending to the second part of a concatenation appends to the whole.     *)
LEMMA AppendToConcat ==
  ASSUME NEW S, NEW a \in Seq(S), NEW b \in Seq(S), NEW e \in S
  PROVE  a \o Append(b, e) = Append(a \o b, e)
<1>1. Append(b, e) \in Seq(S) /\ Len(Append(b, e)) = Len(b) + 1
      /\ \A i \in 1 .. Len(b) + 1 : Append(b, e)[i] = IF i <= Len(b) THEN b[i] ELSE e
  OBVIOUS
<1>2. a \o b \in Seq(S) /\ Len(a \o b) = Len(a) + Len(b)
  BY ConcatProperties
<1>3. a \o Append(b, e) \in Seq(S) /\ Append(a \o b, e) \in Seq(S)
      /\ Len(a \o Append(b, e)) = Len(a) + Len(b) + 1
      /\ Len(Append(a \o b, e)) = Len(a) + Len(b) + 1
  BY <1>1, <1>2, ConcatProperties
<1>4. ASSUME NEW i \in 1 .. Len(a) + Len(b) + 1
      PROVE  (a \o Append(b, e))[i] = Append(a \o b, e)[i]
  <2>1. (a \o Append(b, e))[i] = IF i <= Len(a) THEN a[i] ELSE Append(b, e)[i - Len(a)]
    BY <1>1, ConcatProperties
  <2>2. Append(a \o b, e)[i] = IF i <= Len(a) + Len(b) THEN (a \o b)[i] ELSE e
    BY <1>2
  <2>3. i <= Len(a) + Len(b) => (a \o b)[i] = IF i <= Len(a) THEN a[i] ELSE b[i - Len(a)]
    BY ConcatProperties
  <2> QED
    BY <1>1, <2>1, <2>2, <2>3
<1> QED
  BY <1>3, <1>4, SeqEqual

(* Sending puts the event at the end of the stream.                          *)
LEMMA SendAppends ==
  ASSUME BusInv, NEW p \in Pub, NEW s \in Sub, Send(p, s), NEW t \in Sub
  PROVE  /\ Stream(t) \in Seq(Event)
         /\ \/ Stream(t)' = Stream(t)
            \/ t = s /\ Stream(t)' = Append(Stream(t), <<p, current[p]>>)
<1>a. TypeOK /\ s \in todo[p] /\ ~chClosed[s]
  BY DEF BusInv, OneCloser, Send, TypeOK
<1>b. ch[t] \in Seq(Event) /\ got[t] \in Seq(Event) /\ <<p, current[p]>> \in Event
  BY <1>a DEF TypeOK, Event
<1>1. Stream(t) \in Seq(Event)
  BY <1>b DEF Stream
<1>2. CASE Enqueue(p, s)
  <2>1. got' = got /\ ch' = [ch EXCEPT ![s] = Append(ch[s], <<p, current[p]>>)]
    BY <1>2 DEF Enqueue
  <2>2. got[t] \o Append(ch[t], <<p, current[p]>>)
          = Append(got[t] \o ch[t], <<p, current[p]>>)
    <3> DEFINE e == <<p, current[p]>>
               a == got[t]
               b == ch[t]
    <3>1. a \in Seq(Event) /\ b \in Seq(Event) /\ e \in Event
      BY <1>b
    <3> HIDE DEF e, a, b
    <3>2. a \o Append(b, e) = Append(a \o b, e)
      BY <3>1, AppendToConcat
    <3> QED
      BY <3>2 DEF e, a, b
  <2> QED
    BY <1>a, <1>1, <2>1, <2>2 DEF Stream, TypeOK
<1>3. CASE HandOver(p, s)
  <2>1. ch' = ch /\ got' = [got EXCEPT ![s] = Append(got[s], <<p, current[p]>>)]
    BY <1>3 DEF HandOver
  <2>2. ch[s] = <<>>
    BY <1>3, <1>a DEF HandOver, TypeOK
  <2>3. t = s => Append(got[s], <<p, current[p]>>) \o ch[s]
                   = Append(got[s] \o ch[s], <<p, current[p]>>)
    <3>1. ASSUME t = s
          PROVE  Append(got[s], <<p, current[p]>>) \in Seq(Event)
      BY <3>1, <1>b
    <3> QED
      BY <1>b, <2>2, <3>1, ConcatEmptySeq
  <2> QED
    BY <1>a, <1>1, <2>1, <2>3 DEF Stream, TypeOK
<1>4. CASE Drop(p, s) \/ SendOnClosed(s)
  BY <1>4, <1>1 DEF Drop, SendOnClosed, Stream
<1> QED
  BY <1>2, <1>3, <1>4 DEF Send

(* Steps that leave the streams alone and finish or start no delivery.       *)
LEMMA OtherStepsKeepStreams ==
  ASSUME OrderInv, \A t \in Sub : Stream(t)' = Stream(t),
         UNCHANGED <<published, current, todo>>
  PROVE  StreamsBehind' /\ DeliveredOnceInOrder'
BY DEF OrderInv, StreamsBehind, DeliveredOnceInOrder

(* Every step keeps the order.                                               *)
LEMMA OrderStep == OrderInv /\ [Next]_vars => StreamsBehind' /\ DeliveredOnceInOrder'
<1> SUFFICES ASSUME OrderInv, [Next]_vars
             PROVE  StreamsBehind' /\ DeliveredOnceInOrder'
  OBVIOUS
<1>a. TypeOK /\ StreamsBehind /\ DeliveredOnceInOrder /\ BusInv
  BY DEF OrderInv, BusInv
<1>b. \A t \in Sub : Stream(t) \in Seq(Event)
  BY <1>a DEF TypeOK, Stream
<1> USE DEF busVars, pubVars, subVars
<1>1. ASSUME NEW p \in Pub, PublishBegin(p)
      PROVE  StreamsBehind' /\ DeliveredOnceInOrder'
  <2>1. \A t \in Sub : Stream(t)' = Stream(t)
    BY <1>1 DEF PublishBegin, Stream
  <2>2. DeliveredOnceInOrder'
    BY <2>1, <1>a DEF DeliveredOnceInOrder
  <2>3. published' = published + 1 /\ current' = [current EXCEPT ![p] = published + 1]
        /\ published \in Nat /\ current \in [Pub -> Nat]
    BY <1>1, <1>a DEF PublishBegin, TypeOK
  <2>4. \A q \in Pub : current'[q] <= published'
    BY <2>3, <1>a DEF StreamsBehind
  <2>5. ASSUME NEW t \in Sub, NEW i \in 1 .. Len(Stream(t))
        PROVE  /\ Stream(t)[i][2] <= current'[Stream(t)[i][1]]
               /\ t \in todo'[Stream(t)[i][1]] => Stream(t)[i][2] < current'[Stream(t)[i][1]]
    <3> DEFINE e == Stream(t)[i]
    <3>1. e \in Event
      BY <1>b
    <3>2. e[1] \in Pub /\ e[2] \in Nat
      BY <3>1 DEF Event
    <3>3. e[2] <= current[e[1]] /\ (t \in todo[e[1]] => e[2] < current[e[1]])
          /\ current[e[1]] <= published
      BY <3>2, <1>a DEF StreamsBehind
    <3> HIDE DEF e
    <3>4. CASE e[1] = p
      BY <3>2, <3>3, <3>4, <2>3 DEF e
    <3>5. CASE e[1] # p
      <4>1. todo'[e[1]] = todo[e[1]] /\ current'[e[1]] = current[e[1]]
        BY <3>2, <3>5, <1>1, <1>a DEF PublishBegin, TypeOK
      <4> QED
        BY <3>3, <4>1 DEF e
    <3> QED
      BY <3>4, <3>5
  <2> QED
    BY <2>1, <2>2, <2>4, <2>5 DEF StreamsBehind
<1>2. ASSUME NEW p \in Pub, NEW s \in Sub, Send(p, s)
      PROVE  StreamsBehind' /\ DeliveredOnceInOrder'
  <2>1. current' = current /\ published' = published /\ current \in [Pub -> Nat]
        /\ s \in todo[p] /\ todo' = [todo EXCEPT ![p] = todo[p] \ {s}]
        /\ todo \in [Pub -> SUBSET Sub]
    BY <1>2, <1>a DEF Send, TypeOK
  <2>2. \A q \in Pub : todo'[q] \subseteq todo[q]
    BY <2>1
  <2>3. ASSUME NEW t \in Sub
        PROVE  /\ \A i \in 1 .. Len(Stream(t)') :
                    /\ Stream(t)'[i][2] <= current[Stream(t)'[i][1]]
                    /\ t \in todo'[Stream(t)'[i][1]]
                         => Stream(t)'[i][2] < current[Stream(t)'[i][1]]
               /\ \A i, j \in 1 .. Len(Stream(t)') :
                    i < j /\ Stream(t)'[i][1] = Stream(t)'[j][1]
                      => Stream(t)'[i][2] < Stream(t)'[j][2]
    <3> DEFINE st == Stream(t)
               e == <<p, current[p]>>
    <3>1. \A i \in 1 .. Len(st) : st[i] \in Event
      BY <1>b
    <3>2. \A i \in 1 .. Len(st) : st[i][1] \in Pub /\ st[i][2] \in Nat
      BY <3>1 DEF Event
    <3>3. \A i \in 1 .. Len(st) :
             /\ st[i][2] <= current[st[i][1]]
             /\ t \in todo[st[i][1]] => st[i][2] < current[st[i][1]]
      BY <1>a DEF StreamsBehind
    <3>4. \A i, j \in 1 .. Len(st) : i < j /\ st[i][1] = st[j][1] => st[i][2] < st[j][2]
      BY <1>a DEF DeliveredOnceInOrder
    <3>5. CASE Stream(t)' = st
      BY <3>2, <3>3, <3>4, <3>5, <2>2
    <3>6. CASE t = s /\ Stream(t)' = Append(st, e)
      <4>1. Len(st) \in Nat /\ Len(Append(st, e)) = Len(st) + 1
            /\ \A i \in 1 .. Len(st) + 1 : Append(st, e)[i] = IF i <= Len(st) THEN st[i] ELSE e
        BY <1>b
      <4>2. e[1] = p /\ e[2] = current[p] /\ current[p] \in Nat
        BY <2>1
      <4>3. s \notin todo'[p]
        BY <2>1
      <4> HIDE DEF st, e
      <4> QED
        BY <3>2, <3>3, <3>4, <3>6, <4>1, <4>2, <4>3, <2>1, <2>2
    <3> QED
      BY <3>5, <3>6, <1>2, <1>a, SendAppends
  <2>4. \A q \in Pub : current'[q] <= published'
    BY <2>1, <1>a DEF StreamsBehind
  <2> QED
    BY <2>1, <2>3, <2>4 DEF StreamsBehind, DeliveredOnceInOrder
<1>3. ASSUME NEW s \in Sub, Receive(s)
      PROVE  StreamsBehind' /\ DeliveredOnceInOrder'
  <2>1. \A t \in Sub : Stream(t)' = Stream(t)
    <3>1. Append(got[s], Head(ch[s])) \o Tail(ch[s]) = got[s] \o ch[s]
      <4>1. got[s] \in Seq(Event) /\ ch[s] \in Seq(Event) /\ ch[s] # <<>>
        BY <1>3, <1>a DEF Receive, TypeOK
      <4> QED
        BY <4>1, ReceiveKeeps
    <3> QED
      BY <3>1, <1>3, <1>a DEF Receive, Stream, TypeOK
  <2> QED
    BY <1>3, <2>1, OtherStepsKeepStreams DEF Receive
<1>4. ASSUME UNCHANGED <<published, current, todo, got, ch>>
      PROVE  StreamsBehind' /\ DeliveredOnceInOrder'
  <2>1. \A t \in Sub : Stream(t)' = Stream(t)
    BY <1>4 DEF Stream
  <2> QED
    BY <1>4, <2>1, OtherStepsKeepStreams
<1>5. CASE UNCHANGED vars
  BY <1>4, <1>5 DEF vars
<1>6. ASSUME NEW s \in Sub, NEW b \in Buffer, Subscribe(s, b)
      PROVE  StreamsBehind' /\ DeliveredOnceInOrder'
  BY <1>4, <1>6 DEF Subscribe
<1>7. ASSUME NEW s \in Sub, CancelCtx(s) \/ RemoveSub(s) \/ RemoveSubClose(s) \/ CloseNext(s)
      PROVE  StreamsBehind' /\ DeliveredOnceInOrder'
  BY <1>4, <1>7 DEF CancelCtx, RemoveSub, RemoveSubClose, CloseNext
<1>8. ASSUME NEW p \in Pub, PublishEnd(p)
      PROVE  StreamsBehind' /\ DeliveredOnceInOrder'
  BY <1>4, <1>8 DEF PublishEnd
<1>9. CASE CloseBegin \/ CloseDone \/ CloseReturn
  BY <1>4, <1>9 DEF CloseBegin, CloseDone, CloseReturn
<1> QED
  BY <1>1, <1>2, <1>3, <1>5, <1>6, <1>7, <1>8, <1>9 DEF Next

(* Fan-outs of any number of publishers interleave freely under the read     *)
(* lock; each subscriber still sees every publisher's events in order, once. *)
THEOREM BusKeepsOrder == Spec => []DeliveredOnceInOrder
<1>1. Init => OrderInv
  <2> SUFFICES ASSUME Init PROVE OrderInv
    OBVIOUS
  <2>1. \A s \in Sub : Stream(s) = <<>>
    BY DEF Init, Stream
  <2>2. StreamsBehind /\ DeliveredOnceInOrder
    BY <2>1 DEF Init, StreamsBehind, DeliveredOnceInOrder
  <2> QED
    BY <2>2, InitBusInv DEF OrderInv
<1>2. OrderInv /\ [Next]_vars => OrderInv'
  BY OrderStep, TypeStep, OneCloserStep DEF OrderInv, BusInv
<1>3. OrderInv => DeliveredOnceInOrder
  BY DEF OrderInv
<1> QED
  BY <1>1, <1>2, <1>3, PTL DEF Spec
-----------------------------------------------------------------------------
(* Who closes a channel                                                      *)

(* An open channel of a subscription is in the map, in Close's hands, or in   *)
(* the hands of the goroutine that took it out of the map; and how far Close  *)
(* is says what it has done.                                                 *)
CloserInv ==
  /\ \A s \in Sub :
       gpc[s] # "none" /\ ~chClosed[s] => s \in subs \/ s \in closing \/ gpc[s] = "close"
  /\ closed <=> closePc # "idle"
  /\ closing # {} => closePc \in {"done", "closing"}
  /\ done <=> closePc \in {"closing", "returned"}

(* Every step keeps a closer for every open channel.                          *)
LEMMA CloserStep == BusInv /\ CloserInv /\ [Next]_vars => CloserInv'
<1> SUFFICES ASSUME BusInv, CloserInv, [Next]_vars
             PROVE  CloserInv'
  OBVIOUS
<1>a. TypeOK /\ OneCloser
  BY DEF BusInv
<1>b. gpc \in [Sub -> {"none", "select", "close", "exited"}] /\ chClosed \in [Sub -> BOOLEAN]
  BY <1>a DEF TypeOK
<1> USE DEF CloserInv, busVars, pubVars, subVars
<1>1. ASSUME NEW s \in Sub, NEW b \in Buffer, Subscribe(s, b)
      PROVE  CloserInv'
  <2>1. CASE closed
    BY <1>1, <1>b, <2>1 DEF Subscribe, CloseChannel
  <2>2. CASE ~closed
    BY <1>1, <1>b, <2>2 DEF Subscribe
  <2> QED
    BY <2>1, <2>2
<1>2. ASSUME NEW s \in Sub, RemoveSub(s)
      PROVE  CloserInv'
  <2>1. /\ gpc[s] = "select" /\ subs' = subs \ {s}
        /\ gpc' = [gpc EXCEPT ![s] = IF s \in subs /\ ~closed THEN "close" ELSE "exited"]
        /\ UNCHANGED <<closed, done, chClosed, closePc, closing>>
    BY <1>2 DEF RemoveSub
  <2>2. s \in subs => ~closed
    BY <1>a DEF OneCloser
  <2>3. gpc'[s] = (IF s \in subs THEN "close" ELSE "exited")
        /\ \A t \in Sub \ {s} : gpc'[t] = gpc[t]
    BY <1>b, <2>1, <2>2
  <2>4. ASSUME NEW t \in Sub, gpc'[t] # "none", ~chClosed'[t]
        PROVE  t \in subs' \/ t \in closing' \/ gpc'[t] = "close"
    <3>1. CASE t = s
      BY <2>1, <2>3, <2>4, <3>1
    <3>2. CASE t # s
      BY <2>1, <2>3, <2>4, <3>2
    <3> QED
      BY <3>1, <3>2
  <2> QED
    BY <2>1, <2>4
<1>3. ASSUME NEW s \in Sub, RemoveSubClose(s)
      PROVE  CloserInv'
  BY <1>3, <1>b DEF RemoveSubClose, CloseChannel
<1>4. ASSUME NEW s \in Sub, CloseNext(s)
      PROVE  CloserInv'
  BY <1>4, <1>b DEF CloseNext, CloseChannel
<1>5. CASE CloseBegin
  BY <1>5 DEF CloseBegin
<1>6. CASE CloseDone
  BY <1>6 DEF CloseDone
<1>7. CASE CloseReturn
  BY <1>7 DEF CloseReturn
<1>8. ASSUME UNCHANGED <<subs, closed, done, closePc, closing, gpc, chClosed>>
      PROVE  CloserInv'
  BY <1>8
<1>9. ASSUME NEW s \in Sub, CancelCtx(s) \/ Receive(s)
      PROVE  CloserInv'
  BY <1>8, <1>9 DEF CancelCtx, Receive
<1>10. ASSUME NEW p \in Pub, PublishBegin(p) \/ PublishEnd(p) \/ \E s \in Sub : Send(p, s)
       PROVE  CloserInv'
  BY <1>8, <1>10 DEF PublishBegin, PublishEnd, Send
<1>11. CASE UNCHANGED vars
  BY <1>8, <1>11 DEF vars
<1> QED
  BY <1>1, <1>2, <1>3, <1>4, <1>5, <1>6, <1>7, <1>9, <1>10, <1>11 DEF Next

(* removeSub and Close share the closing of the channels between them: none   *)
(* is left open with nobody to close it, and when Close has returned the only *)
(* open ones are those a goroutine took out of the map before Close took the  *)
(* rest, and is about to close.                                              *)
NoChannelForgotten ==
  /\ \A s \in Sub :
       gpc[s] = "exited" /\ ~chClosed[s] => s \in closing /\ closePc \in {"done", "closing"}
  /\ closePc = "returned" =>
       \A s \in Sub : gpc[s] # "none" => chClosed[s] \/ gpc[s] = "close"

(* What safety has to say of EveryChannelCloses.                              *)
THEOREM BusForgetsNoChannel == Spec => []NoChannelForgotten
<1>1. Init => CloserInv
  BY DEF Init, CloserInv
<1>2. BusInv /\ CloserInv => NoChannelForgotten
  <2> SUFFICES ASSUME BusInv, CloserInv PROVE NoChannelForgotten
    OBVIOUS
  <2>1. ASSUME NEW s \in Sub, gpc[s] = "exited", ~chClosed[s]
        PROVE  s \in closing /\ closePc \in {"done", "closing"}
    BY <2>1 DEF BusInv, OneCloser, CloserInv
  <2>2. ASSUME closePc = "returned", NEW s \in Sub, gpc[s] # "none"
        PROVE  chClosed[s] \/ gpc[s] = "close"
    BY <2>2 DEF BusInv, OneCloser, CloserInv
  <2> QED
    BY <2>1, <2>2 DEF NoChannelForgotten
<1> QED
  BY <1>1, <1>2, CloserStep, BusInvariant, PTL DEF Spec
=============================================================================
