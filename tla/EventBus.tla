------------------------------ MODULE EventBus ------------------------------
(***************************************************************************)
(* The publish/subscribe bus of internal/eventbus/bus.go.                  *)
(*                                                                         *)
(* Publishers hold the read lock for the whole fan-out, so several fan-outs *)
(* run at once and interleave send by send; Subscribe, removeSub and Close *)
(* take the write lock, which is free when no fan-out is running.  A       *)
(* channel is closed after the write lock is released, by the goroutine    *)
(* that Subscribe started or by Close: closing a closed channel, or        *)
(* sending on one, is a panic.                                             *)
(*                                                                         *)
(* An event is <<p, k>>: publisher p's, the k-th of the bus.  A            *)
(* subscription is used once.  Stats only reads and is left out.          *)
(***************************************************************************)
EXTENDS Naturals, Sequences

CONSTANTS
  Pub,        \* the goroutines that call Publish
  Sub,        \* the subscriptions
  Buffer,     \* the buffer sizes subscribers ask for
  MaxEvents   \* bound: events published on the bus

ASSUME BusAssumption == Buffer \subseteq Nat /\ MaxEvents \in Nat

VARIABLES
  subs,       \* Bus.subs
  closed,     \* Bus.closed
  done,       \* Bus.done is closed
  ch,         \* the contents of every subscription's channel
  cap,        \* its buffer size
  chClosed,   \* its channel is closed
  dropped,    \* subscription.dropped; Bus.dropped is their sum
  ctxDone,    \* the context given to Subscribe is cancelled
  gpc,        \* the goroutine of Subscribe: none, select, close or exited
  pubPc,      \* idle or sending (the publisher holds the read lock)
  todo,       \* the subscriptions its range loop has still to visit
  published,  \* Bus.published
  current,    \* the number of the event each publisher is sending
  closePc,    \* Close: idle, done, closing or returned
  closing,    \* the subscriptions Close has still to close
  got,        \* history: what each subscriber has received
  panicked    \* a closed channel was closed again or sent on

vars == <<subs, closed, done, ch, cap, chClosed, dropped, ctxDone, gpc, pubPc,
          todo, published, current, closePc, closing, got, panicked>>
busVars == <<subs, closed, done, closePc, closing>>
pubVars == <<pubPc, todo, published, current>>
subVars == <<ch, cap, chClosed, dropped, ctxDone, gpc, got>>

Event == Pub \X Nat

WriteLockFree == \A p \in Pub : pubPc[p] = "idle"

Init ==
  /\ subs = {} /\ closed = FALSE /\ done = FALSE
  /\ ch = [s \in Sub |-> <<>>]
  /\ cap = [s \in Sub |-> 0]
  /\ chClosed = [s \in Sub |-> FALSE]
  /\ dropped = [s \in Sub |-> 0]
  /\ ctxDone = [s \in Sub |-> FALSE]
  /\ gpc = [s \in Sub |-> "none"]
  /\ pubPc = [p \in Pub |-> "idle"]
  /\ todo = [p \in Pub |-> {}]
  /\ published = 0
  /\ current = [p \in Pub |-> 0]
  /\ closePc = "idle" /\ closing = {}
  /\ got = [s \in Sub |-> <<>>]
  /\ panicked = FALSE

-----------------------------------------------------------------------------
(* Subscribers                                                             *)

\* close(s.ch)
CloseChannel(s) ==
  /\ chClosed' = [chClosed EXCEPT ![s] = TRUE]
  /\ panicked' = (panicked \/ chClosed[s])

\* Subscribe.  On a closed bus the channel comes back closed and no goroutine
\* is started.
Subscribe(s, buffer) ==
  /\ gpc[s] = "none"
  /\ WriteLockFree
  /\ cap' = [cap EXCEPT ![s] = buffer]
  /\ \/ /\ closed
        /\ CloseChannel(s)
        /\ gpc' = [gpc EXCEPT ![s] = "exited"]
        /\ UNCHANGED subs
     \/ /\ ~closed
        /\ subs' = subs \cup {s}
        /\ gpc' = [gpc EXCEPT ![s] = "select"]
        /\ UNCHANGED <<chClosed, panicked>>
  /\ UNCHANGED <<closed, done, ch, dropped, ctxDone, closePc, closing, got>>
  /\ UNCHANGED pubVars

\* The subscriber's context is cancelled.
CancelCtx(s) ==
  /\ gpc[s] # "none" /\ ~ctxDone[s]
  /\ ctxDone' = [ctxDone EXCEPT ![s] = TRUE]
  /\ UNCHANGED <<ch, cap, chClosed, dropped, gpc, got, panicked>>
  /\ UNCHANGED busVars /\ UNCHANGED pubVars

\* Mutant: removeSub closes the channel whether or not Close took the map.
RemoveSubUnchecked(s) ==
  /\ gpc[s] = "select"
  /\ ctxDone[s] \/ done
  /\ WriteLockFree
  /\ subs' = subs \ {s}
  /\ gpc' = [gpc EXCEPT ![s] = "close"]
  /\ UNCHANGED <<closed, done, ch, cap, chClosed, dropped, ctxDone, closePc,
                 closing, got, panicked>>
  /\ UNCHANGED pubVars

\* The goroutine wakes and runs removeSub up to its Unlock.
RemoveSub(s) ==
  /\ gpc[s] = "select"
  /\ ctxDone[s] \/ done
  /\ WriteLockFree
  /\ subs' = subs \ {s}
  /\ gpc' = [gpc EXCEPT ![s] = IF s \in subs /\ ~closed THEN "close" ELSE "exited"]
  /\ UNCHANGED <<closed, done, ch, cap, chClosed, dropped, ctxDone, closePc,
                 closing, got, panicked>>
  /\ UNCHANGED pubVars

\* removeSub closes the channel, outside the lock.
RemoveSubClose(s) ==
  /\ gpc[s] = "close"
  /\ CloseChannel(s)
  /\ gpc' = [gpc EXCEPT ![s] = "exited"]
  /\ UNCHANGED <<ch, cap, dropped, ctxDone, got>>
  /\ UNCHANGED busVars /\ UNCHANGED pubVars

\* The subscriber receives; a closed channel still hands out its buffer.
Receive(s) ==
  /\ ch[s] # <<>>
  /\ got' = [got EXCEPT ![s] = Append(@, Head(ch[s]))]
  /\ ch' = [ch EXCEPT ![s] = Tail(@)]
  /\ UNCHANGED <<cap, chClosed, dropped, ctxDone, gpc, panicked>>
  /\ UNCHANGED busVars /\ UNCHANGED pubVars

-----------------------------------------------------------------------------
(* Publishers                                                              *)

\* Publish: take the read lock, return if the bus is closed, count, start the
\* range over the subscribers.
PublishBegin(p) ==
  /\ pubPc[p] = "idle"
  /\ published < MaxEvents
  /\ ~closed
  /\ published' = published + 1
  /\ current' = [current EXCEPT ![p] = published']
  /\ todo' = [todo EXCEPT ![p] = subs]
  /\ pubPc' = [pubPc EXCEPT ![p] = "sending"]
  /\ UNCHANGED <<ch, cap, chClosed, dropped, ctxDone, gpc, got, panicked>>
  /\ UNCHANGED busVars

\* Mutant: the channel takes any number of events.
EnqueueUnbounded(p, s) ==
  /\ ~chClosed[s]
  /\ ch' = [ch EXCEPT ![s] = Append(@, <<p, current[p]>>)]
  /\ UNCHANGED <<dropped, got, panicked>>

\* One iteration's select.  An unbuffered channel takes the event when its
\* subscriber is waiting in a receive.
Enqueue(p, s) ==
  /\ ~chClosed[s] /\ Len(ch[s]) < cap[s]
  /\ ch' = [ch EXCEPT ![s] = Append(@, <<p, current[p]>>)]
  /\ UNCHANGED <<dropped, got, panicked>>

HandOver(p, s) ==
  /\ ~chClosed[s] /\ cap[s] = 0
  /\ got' = [got EXCEPT ![s] = Append(@, <<p, current[p]>>)]
  /\ UNCHANGED <<ch, dropped, panicked>>

Drop(p, s) ==
  /\ ~chClosed[s] /\ Len(ch[s]) = cap[s]
  /\ dropped' = [dropped EXCEPT ![s] = @ + 1]
  /\ UNCHANGED <<ch, got, panicked>>

SendOnClosed(s) ==
  /\ chClosed[s]
  /\ panicked' = TRUE
  /\ UNCHANGED <<ch, dropped, got>>

\* Mutant: the select has no default, so a full channel blocks the publisher.
SendBlocking(p, s) ==
  /\ s \in todo[p]
  /\ Enqueue(p, s) \/ SendOnClosed(s)
  /\ todo' = [todo EXCEPT ![p] = @ \ {s}]
  /\ UNCHANGED <<cap, chClosed, ctxDone, gpc, pubPc, published, current>>
  /\ UNCHANGED busVars

\* Mutant: the loop visits a subscriber again after it took the event.
SendAgain(p, s) ==
  /\ s \in todo[p]
  /\ Enqueue(p, s) \/ HandOver(p, s) \/ Drop(p, s) \/ SendOnClosed(s)
  /\ todo' = [todo EXCEPT ![p] = IF dropped' = dropped THEN @ ELSE @ \ {s}]
  /\ UNCHANGED <<cap, chClosed, ctxDone, gpc, pubPc, published, current>>
  /\ UNCHANGED busVars

Send(p, s) ==
  /\ s \in todo[p]
  /\ Enqueue(p, s) \/ HandOver(p, s) \/ Drop(p, s) \/ SendOnClosed(s)
  /\ todo' = [todo EXCEPT ![p] = @ \ {s}]
  /\ UNCHANGED <<cap, chClosed, ctxDone, gpc, pubPc, published, current>>
  /\ UNCHANGED busVars

\* Publish returns and releases the read lock.
PublishEnd(p) ==
  /\ pubPc[p] = "sending" /\ todo[p] = {}
  /\ pubPc' = [pubPc EXCEPT ![p] = "idle"]
  /\ UNCHANGED <<todo, published, current, panicked>>
  /\ UNCHANGED busVars /\ UNCHANGED subVars

-----------------------------------------------------------------------------
(* Close                                                                   *)

\* Mutant: Close leaves the channels to the goroutines it wakes.
CloseBeginOnlyMark ==
  /\ ~closed
  /\ WriteLockFree
  /\ closed' = TRUE
  /\ closing' = {}
  /\ subs' = {}
  /\ closePc' = "done"
  /\ UNCHANGED <<done, panicked>>
  /\ UNCHANGED pubVars /\ UNCHANGED subVars

\* Close under the lock.  A second Close returns at once.
CloseBegin ==
  /\ ~closed
  /\ WriteLockFree
  /\ closed' = TRUE
  /\ closing' = subs
  /\ subs' = {}
  /\ closePc' = "done"
  /\ UNCHANGED <<done, panicked>>
  /\ UNCHANGED pubVars /\ UNCHANGED subVars

\* close(b.done)
CloseDone ==
  /\ closePc = "done"
  /\ done' = TRUE
  /\ closePc' = "closing"
  /\ UNCHANGED <<subs, closed, closing, panicked>>
  /\ UNCHANGED pubVars /\ UNCHANGED subVars

CloseNext(s) ==
  /\ closePc = "closing" /\ s \in closing
  /\ CloseChannel(s)
  /\ closing' = closing \ {s}
  /\ UNCHANGED <<subs, closed, done, closePc, ch, cap, dropped, ctxDone, gpc, got>>
  /\ UNCHANGED pubVars

CloseReturn ==
  /\ closePc = "closing" /\ closing = {}
  /\ closePc' = "returned"
  /\ UNCHANGED <<subs, closed, done, closing, panicked>>
  /\ UNCHANGED pubVars /\ UNCHANGED subVars

Next ==
  \/ \E s \in Sub, b \in Buffer : Subscribe(s, b)
  \/ \E s \in Sub : CancelCtx(s)
  \/ \E s \in Sub : RemoveSub(s)
  \/ \E s \in Sub : RemoveSubClose(s)
  \/ \E s \in Sub : Receive(s)
  \/ \E p \in Pub : PublishBegin(p)
  \/ \E p \in Pub, s \in Sub : Send(p, s)
  \/ \E p \in Pub : PublishEnd(p)
  \/ CloseBegin \/ CloseDone
  \/ \E s \in Sub : CloseNext(s)
  \/ CloseReturn

\* Goroutines and callers that have started keep running.  removeSub waits for
\* the write lock; sync.RWMutex keeps new readers out while a writer waits, so
\* it gets it: strong fairness.  Nobody is obliged to receive, to publish, to
\* cancel or to close.
Fairness ==
  /\ \A p \in Pub : WF_vars(\E s \in Sub : Send(p, s)) /\ WF_vars(PublishEnd(p))
  /\ \A s \in Sub : SF_vars(RemoveSub(s)) /\ WF_vars(RemoveSubClose(s)) /\ WF_vars(CloseNext(s))
  /\ WF_vars(CloseDone) /\ WF_vars(CloseReturn)

Spec == Init /\ [][Next]_vars
FairSpec == Spec /\ Fairness

-----------------------------------------------------------------------------
(* Properties                                                              *)

\* Type invariant; a channel never holds more than its buffer.
TypeOK ==
  /\ subs \subseteq Sub /\ closed \in BOOLEAN /\ done \in BOOLEAN
  /\ ch \in [Sub -> Seq(Event)]
  /\ cap \in [Sub -> Nat]
  /\ \A s \in Sub : Len(ch[s]) <= cap[s]
  /\ chClosed \in [Sub -> BOOLEAN]
  /\ dropped \in [Sub -> Nat]
  /\ ctxDone \in [Sub -> BOOLEAN]
  /\ gpc \in [Sub -> {"none", "select", "close", "exited"}]
  /\ pubPc \in [Pub -> {"idle", "sending"}]
  /\ todo \in [Pub -> SUBSET Sub]
  /\ published \in Nat
  /\ current \in [Pub -> Nat]
  /\ closePc \in {"idle", "done", "closing", "returned"}
  /\ closing \subseteq Sub
  /\ got \in [Sub -> Seq(Event)]
  /\ panicked \in BOOLEAN

\* A subscriber's cancelled context, Close and any number of fan-outs race for a
\* channel: it is never closed twice, and no Publish sends on it once closed.
NoPanic == ~panicked

\* What a subscriber has seen or can still receive.
Stream(s) == got[s] \o ch[s]

\* However fan-outs interleave, a subscriber sees each event at most once and
\* the events of one publisher in the order they were published.
DeliveredOnceInOrder ==
  \A s \in Sub : \A i, j \in 1 .. Len(Stream(s)) :
    i < j /\ Stream(s)[i][1] = Stream(s)[j][1] => Stream(s)[i][2] < Stream(s)[j][2]

\* Subscribe's promise: the channel is closed once the context is cancelled or
\* the bus closed, whoever of the goroutine and Close gets to it first.
EveryChannelCloses ==
  \A s \in Sub : (gpc[s] # "none" /\ (ctxDone[s] \/ closed)) ~> chClosed[s]

\* Publish never waits for a subscriber, even if none ever receives.
PublishReturns == \A p \in Pub : (pubPc[p] = "sending") ~> (pubPc[p] = "idle")
=============================================================================
