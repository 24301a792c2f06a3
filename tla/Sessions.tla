------------------------------ MODULE Sessions ------------------------------
(***************************************************************************)
(* The live sessions of the application: internal/app/sessions.go, and the *)
(* closeAll that Shutdown of internal/app/app.go starts with.              *)
(*                                                                         *)
(* A session has three goroutines' worth of state: the caller that opens   *)
(* it, the goroutine that runs Session.Start and winds up afterwards, and  *)
(* fanOut, which reads the output pipe and hands every chunk to the        *)
(* subscribers.  Callers close sessions and subscribe to them at any time. *)
(* One action is what a goroutine does between two points at which another *)
(* one can see it.  Session.Start itself is the plugin's: it writes output,*)
(* may close its stdout, and returns on its own or after a cancellation.   *)
(***************************************************************************)
EXTENDS Naturals, FiniteSets

CONSTANTS
  Session,    \* session handles
  Sub,        \* calls of SubscribeOutput
  Closer,     \* goroutines that call CloseSession; Shutdown is one more
  Cap,        \* capacity of a subscriber's channel
  MaxChunks   \* bound: chunks a session writes

ASSUME SessionsAssumption ==
  /\ Cap \in Nat \ {0}
  /\ MaxChunks \in Nat
  /\ "shutdown" \notin Closer

VARIABLES
  openPc,     \* openSessionInternal: new, credential, open, publish, opened or failed
  material,   \* the credential: none, held or zeroized
  sessions,   \* sessionManager.sessions
  runPc,      \* the run goroutine: none, start, remove, publish, pipes, done or ended
  cancelled,  \* sessions whose context is cancelled and whose sess.Close was called
  closed,     \* sessions whose entry.closed is set
  written,    \* chunks written by Start
  pipe,       \* sessions with a chunk in the output pipe
  outClosed,  \* sessions whose output pipe is closed for writing
  fanPc,      \* fanOut: none, read, snapshot, pick, send, close or ended
  fanLeft,    \* subscribers fanOut has yet to serve or to close
  fanCur,     \* the subscriber whose mu fanOut holds for reading, as a set
  subs,       \* entry.subs
  subPc,      \* a subscription: idle, got, watch, close or gone
  target,     \* the session a subscription is for, as a set
  ctxDone,    \* subscriptions whose context is cancelled
  queued,     \* chunks in a subscription's channel
  chClosed,   \* subscriptions whose channel is closed
  closePc,    \* CloseSession: idle, got or wait
  closing,    \* the session a CloseSession is for, as a set
  shutPc,     \* closeAll: idle, closing or returned
  shutLeft,   \* sessions of closeAll's snapshot not closed yet
  published,  \* events published: <<"opened", s>>, <<"closed", s>>
  waited,     \* history: sessions a CloseSession returned nil for, having waited
  skipped,    \* history: subscriptions a chunk passed by, neither full nor cancelled
  panicked    \* a send on a closed channel, or a second close of one

openVars == <<openPc, material>>
runVars == <<runPc, cancelled, closed, written, pipe, outClosed>>
fanVars == <<fanPc, fanLeft, fanCur>>
subVars == <<subPc, target, ctxDone>>
chVars == <<queued, chClosed, skipped, panicked>>
closeVars == <<closePc, closing, waited>>
shutVars == <<shutPc, shutLeft>>

vars == <<openVars, sessions, runVars, fanVars, subs, subVars, chVars, closeVars, shutVars,
          published>>

Caller == Closer \cup {"shutdown"}

Init ==
  /\ openPc = [s \in Session |-> "new"]
  /\ material = [s \in Session |-> "none"]
  /\ sessions = {} /\ cancelled = {} /\ closed = {} /\ pipe = {} /\ outClosed = {}
  /\ runPc = [s \in Session |-> "none"]
  /\ written = [s \in Session |-> 0]
  /\ fanPc = [s \in Session |-> "none"]
  /\ fanLeft = [s \in Session |-> {}] /\ fanCur = [s \in Session |-> {}]
  /\ subs = [s \in Session |-> {}]
  /\ subPc = [u \in Sub |-> "idle"] /\ target = [u \in Sub |-> {}]
  /\ ctxDone = {} /\ chClosed = {} /\ skipped = {} /\ panicked = FALSE
  /\ queued = [u \in Sub |-> 0]
  /\ closePc = [c \in Caller |-> "idle"] /\ closing = [c \in Caller |-> {}]
  /\ shutPc = "idle" /\ shutLeft = {}
  /\ published = {} /\ waited = {}

-----------------------------------------------------------------------------
(* openSessionInternal                                                     *)

\* The connection is looked up and resolved: refused, or with the caller's
\* secret, with a credential to resolve, or with none.  A secret the caller of a
\* refused open brought along is not taken over: it stays the caller's.
OpenResolve(s) ==
  /\ openPc[s] = "new"
  /\ \E next \in {"failed", "credential", "open"} :
       /\ openPc' = [openPc EXCEPT ![s] = next]
       /\ \E m \in (IF next = "open" THEN {"none", "held"} ELSE {"none"}) :
            material' = [material EXCEPT ![s] = m]
  /\ UNCHANGED <<sessions, runVars, fanVars, subs, subVars, chVars, closeVars, shutVars,
                 published>>

\* credH.Resolve returns the material, or an error and the open fails.
OpenCredential(s) ==
  /\ openPc[s] = "credential"
  /\ \/ /\ openPc' = [openPc EXCEPT ![s] = "open"]
        /\ material' = [material EXCEPT ![s] = "held"]
     \/ /\ openPc' = [openPc EXCEPT ![s] = "failed"]
        /\ UNCHANGED material
  /\ UNCHANGED <<sessions, runVars, fanVars, subs, subVars, chVars, closeVars, shutVars,
                 published>>

\* Material.Zeroize, when there is any.  It wipes the app's material; the copy
\* that adaptMaterial made for the plugin is the plugin's.
Zeroized(m) == IF m = "held" THEN "zeroized" ELSE m

\* Mutant: the error path forgets the material.
OpenFailedKeeps(s) ==
  /\ openPc[s] = "open"
  /\ openPc' = [openPc EXCEPT ![s] = "failed"]
  /\ UNCHANGED <<material, sessions, runVars, fanVars, subs, subVars, chVars, closeVars,
                 shutVars, published>>

\* protoH.Open failed, under the canonical protocol id as well.
OpenFailed(s) ==
  /\ openPc[s] = "open"
  /\ openPc' = [openPc EXCEPT ![s] = "failed"]
  /\ material' = [material EXCEPT ![s] = Zeroized(@)]
  /\ UNCHANGED <<sessions, runVars, fanVars, subs, subVars, chVars, closeVars, shutVars,
                 published>>

\* protoH.Open succeeded: the entry goes into the map and the two goroutines
\* are started.  Nothing asks whether the app is shutting down.
OpenEntry(s) ==
  /\ openPc[s] = "open"
  /\ openPc' = [openPc EXCEPT ![s] = "publish"]
  /\ sessions' = sessions \cup {s}
  /\ runPc' = [runPc EXCEPT ![s] = "start"]
  /\ fanPc' = [fanPc EXCEPT ![s] = "read"]
  /\ UNCHANGED <<material, cancelled, closed, written, pipe, outClosed, fanLeft, fanCur,
                 subs, subVars, chVars, closeVars, shutVars, published>>

\* SessionOpened, while the goroutines already run.
OpenPublish(s) ==
  /\ openPc[s] = "publish"
  /\ openPc' = [openPc EXCEPT ![s] = "opened"]
  /\ published' = published \cup {<<"opened", s>>}
  /\ UNCHANGED <<material, sessions, runVars, fanVars, subs, subVars, chVars, closeVars,
                 shutVars>>

-----------------------------------------------------------------------------
(* The goroutine that runs the session                                     *)

\* Start writes a chunk; Write returns when fanOut has read it.
StartWrites(s) ==
  /\ runPc[s] = "start" /\ s \notin pipe \cup outClosed
  /\ written[s] < MaxChunks
  /\ written' = [written EXCEPT ![s] = @ + 1]
  /\ pipe' = pipe \cup {s}
  /\ UNCHANGED <<openVars, sessions, runPc, cancelled, closed, outClosed, fanVars, subs,
                 subVars, chVars, closeVars, shutVars, published>>

\* Start closes its stdout, as protocol.Session asks it to before it returns.
StartClosesOutput(s) ==
  /\ runPc[s] = "start" /\ s \notin pipe \cup outClosed
  /\ outClosed' = outClosed \cup {s}
  /\ UNCHANGED <<openVars, sessions, runPc, cancelled, closed, written, pipe, fanVars, subs,
                 subVars, chVars, closeVars, shutVars, published>>

\* Start returns, on its own or cancelled, and sess.Close is called.
RunReturn(s) ==
  /\ runPc[s] = "start" /\ s \notin pipe
  /\ runPc' = [runPc EXCEPT ![s] = "remove"]
  /\ cancelled' = cancelled \cup {s}
  /\ UNCHANGED <<openVars, sessions, closed, written, pipe, outClosed, fanVars, subs,
                 subVars, chVars, closeVars, shutVars, published>>

\* removeAndPublish: the entry leaves the map and the material is zeroized.
RunRemove(s) ==
  /\ runPc[s] = "remove"
  /\ runPc' = [runPc EXCEPT ![s] = "publish"]
  /\ sessions' = sessions \ {s}
  /\ material' = [material EXCEPT ![s] = Zeroized(@)]
  /\ UNCHANGED <<openPc, cancelled, closed, written, pipe, outClosed, fanVars, subs,
                 subVars, chVars, closeVars, shutVars, published>>

\* removeAndPublish: SessionClosed.
RunPublish(s) ==
  /\ runPc[s] = "publish"
  /\ runPc' = [runPc EXCEPT ![s] = "pipes"]
  /\ published' = published \cup {<<"closed", s>>}
  /\ UNCHANGED <<openVars, sessions, cancelled, closed, written, pipe, outClosed, fanVars,
                 subs, subVars, chVars, closeVars, shutVars>>

\* Mutant: nobody closes the pipe fanOut reads.
RunPipesLeftOpen(s) ==
  /\ runPc[s] = "pipes"
  /\ runPc' = [runPc EXCEPT ![s] = "done"]
  /\ UNCHANGED <<openVars, sessions, cancelled, closed, written, pipe, outClosed, fanVars,
                 subs, subVars, chVars, closeVars, shutVars, published>>

\* The deferred closes of the pipes, which end fanOut.
RunPipes(s) ==
  /\ runPc[s] = "pipes"
  /\ runPc' = [runPc EXCEPT ![s] = "done"]
  /\ outClosed' = outClosed \cup {s}
  /\ UNCHANGED <<openVars, sessions, cancelled, closed, written, pipe, fanVars, subs,
                 subVars, chVars, closeVars, shutVars, published>>

\* The deferred close(entry.done).
RunDone(s) ==
  /\ runPc[s] = "done"
  /\ runPc' = [runPc EXCEPT ![s] = "ended"]
  /\ UNCHANGED <<openVars, sessions, cancelled, closed, written, pipe, outClosed, fanVars,
                 subs, subVars, chVars, closeVars, shutVars, published>>

\* Mutant: done is closed before removeAndPublish.
DoneEarly(s) == runPc[s] \in {"remove", "publish", "pipes", "done", "ended"}

\* entry.done is closed.
Done(s) == runPc[s] = "ended"

-----------------------------------------------------------------------------
(* fanOut                                                                  *)

\* Mutant: the channel is closed without the lock.
CloseSubUnlocked(u) ==
  /\ chClosed' = chClosed \cup {u}
  /\ UNCHANGED <<queued, skipped, panicked>>

\* subscriber.close, under closeOnce and the write lock of subscriber.mu, which
\* waits for a send under way.
CloseSub(u) ==
  /\ \A s \in Session : u \notin fanCur[s]
  /\ chClosed' = chClosed \cup {u}
  /\ UNCHANGED <<queued, skipped, panicked>>

\* Read returns a chunk, and the writer goes on.
FanRead(s) ==
  /\ fanPc[s] = "read" /\ s \in pipe
  /\ fanPc' = [fanPc EXCEPT ![s] = "snapshot"]
  /\ pipe' = pipe \ {s}
  /\ UNCHANGED <<openVars, sessions, runPc, cancelled, closed, written, outClosed, fanLeft,
                 fanCur, subs, subVars, chVars, closeVars, shutVars, published>>

\* The subscribers are copied under subsMu.
FanSnapshot(s) ==
  /\ fanPc[s] = "snapshot"
  /\ fanPc' = [fanPc EXCEPT ![s] = "pick"]
  /\ fanLeft' = [fanLeft EXCEPT ![s] = subs[s]]
  /\ UNCHANGED <<openVars, sessions, runVars, fanCur, subs, subVars, chVars, closeVars,
                 shutVars, published>>

\* trySend: RLock, and nothing to do for a subscriber that was closed.
FanLock(s, u) ==
  /\ fanPc[s] = "pick" /\ u \in fanLeft[s] /\ u \notin chClosed
  /\ fanPc' = [fanPc EXCEPT ![s] = "send"]
  /\ fanCur' = [fanCur EXCEPT ![s] = {u}]
  /\ UNCHANGED <<openVars, sessions, runVars, fanLeft, subs, subVars, chVars, closeVars,
                 shutVars, published>>

FanSkip(s, u) ==
  /\ fanPc[s] = "pick" /\ u \in fanLeft[s] \cap chClosed
  /\ fanLeft' = [fanLeft EXCEPT ![s] = @ \ {u}]
  /\ skipped' = IF u \in ctxDone THEN skipped ELSE skipped \cup {u}
  /\ UNCHANGED <<openVars, sessions, runVars, fanPc, fanCur, subs, subVars, queued, chClosed,
                 panicked, closeVars, shutVars, published>>

\* trySend: the select, and RUnlock.  A full channel or a cancelled context may
\* drop the chunk.
FanSend(s, u) ==
  /\ fanPc[s] = "send" /\ u \in fanCur[s]
  /\ panicked' = (panicked \/ u \in chClosed)
  /\ \/ /\ queued[u] < Cap
        /\ queued' = [queued EXCEPT ![u] = @ + 1]
     \/ /\ queued[u] = Cap \/ u \in ctxDone
        /\ UNCHANGED queued
  /\ fanPc' = [fanPc EXCEPT ![s] = "pick"]
  /\ fanCur' = [fanCur EXCEPT ![s] = {}]
  /\ fanLeft' = [fanLeft EXCEPT ![s] = @ \ {u}]
  /\ UNCHANGED <<openVars, sessions, runVars, subs, subVars, chClosed, skipped, closeVars,
                 shutVars, published>>

\* Every subscriber was served.
FanNext(s) ==
  /\ fanPc[s] = "pick" /\ fanLeft[s] = {}
  /\ fanPc' = [fanPc EXCEPT ![s] = "read"]
  /\ UNCHANGED <<openVars, sessions, runVars, fanLeft, fanCur, subs, subVars, chVars,
                 closeVars, shutVars, published>>

\* Read returns EOF: fanOut takes the list of subscribers away.
FanEOF(s) ==
  /\ fanPc[s] = "read" /\ s \notin pipe /\ s \in outClosed
  /\ fanPc' = [fanPc EXCEPT ![s] = "close"]
  /\ fanLeft' = [fanLeft EXCEPT ![s] = subs[s]]
  /\ subs' = [subs EXCEPT ![s] = {}]
  /\ UNCHANGED <<openVars, sessions, runVars, fanCur, subVars, chVars, closeVars, shutVars,
                 published>>

FanClose(s, u) ==
  /\ fanPc[s] = "close" /\ u \in fanLeft[s]
  /\ CloseSub(u)
  /\ fanLeft' = [fanLeft EXCEPT ![s] = @ \ {u}]
  /\ UNCHANGED <<openVars, sessions, runVars, fanPc, fanCur, subs, subVars, closeVars,
                 shutVars, published>>

FanEnd(s) ==
  /\ fanPc[s] = "close" /\ fanLeft[s] = {}
  /\ fanPc' = [fanPc EXCEPT ![s] = "ended"]
  /\ UNCHANGED <<openVars, sessions, runVars, fanLeft, fanCur, subs, subVars, chVars,
                 closeVars, shutVars, published>>

-----------------------------------------------------------------------------
(* SubscribeOutput                                                         *)

\* The entry is looked up; an unknown handle is an error.
SubGet(u, s) ==
  /\ subPc[u] = "idle" /\ s \in sessions
  /\ subPc' = [subPc EXCEPT ![u] = "got"]
  /\ target' = [target EXCEPT ![u] = {s}]
  /\ UNCHANGED <<openVars, sessions, runVars, fanVars, subs, ctxDone, chVars, closeVars,
                 shutVars, published>>

\* The subscriber is appended, and its goroutine started.
SubAppend(u, s) ==
  /\ subPc[u] = "got" /\ s \in target[u]
  /\ subPc' = [subPc EXCEPT ![u] = "watch"]
  /\ subs' = [subs EXCEPT ![s] = @ \cup {u}]
  /\ UNCHANGED <<openVars, sessions, runVars, fanVars, target, ctxDone, chVars, closeVars,
                 shutVars, published>>

\* The caller cancels the subscription's context.
SubCancel(u) ==
  /\ subPc[u] \in {"got", "watch"} /\ u \notin ctxDone
  /\ ctxDone' = ctxDone \cup {u}
  /\ UNCHANGED <<openVars, sessions, runVars, fanVars, subs, subPc, target, chVars, closeVars,
                 shutVars, published>>

\* The caller takes a chunk.
SubReceive(u) ==
  /\ subPc[u] # "idle" /\ queued[u] > 0
  /\ queued' = [queued EXCEPT ![u] = @ - 1]
  /\ UNCHANGED <<openVars, sessions, runVars, fanVars, subs, subVars, chClosed, skipped,
                 panicked, closeVars, shutVars, published>>

\* Mutant: the goroutine does not watch entry.done.
SubWakeDeaf(u, s) ==
  /\ subPc[u] = "watch" /\ s \in target[u]
  /\ u \in ctxDone \/ u \in chClosed
  /\ subPc' = [subPc EXCEPT ![u] = "close"]
  /\ subs' = [subs EXCEPT ![s] = @ \ {u}]
  /\ UNCHANGED <<openVars, sessions, runVars, fanVars, target, ctxDone, chVars, closeVars,
                 shutVars, published>>

\* The subscription's goroutine wakes up and takes the subscriber off the list.
SubWake(u, s) ==
  /\ subPc[u] = "watch" /\ s \in target[u]
  /\ u \in ctxDone \/ u \in chClosed \/ Done(s)
  /\ subPc' = [subPc EXCEPT ![u] = "close"]
  /\ subs' = [subs EXCEPT ![s] = @ \ {u}]
  /\ UNCHANGED <<openVars, sessions, runVars, fanVars, target, ctxDone, chVars, closeVars,
                 shutVars, published>>

SubClose(u) ==
  /\ subPc[u] = "close"
  /\ CloseSub(u)
  /\ subPc' = [subPc EXCEPT ![u] = "gone"]
  /\ UNCHANGED <<openVars, sessions, runVars, fanVars, subs, target, ctxDone, closeVars,
                 shutVars, published>>

-----------------------------------------------------------------------------
(* CloseSession and closeAll                                               *)

\* The entry is looked up, by a caller or by closeAll for one of its snapshot;
\* an unknown handle is an error, which closeAll ignores.
CloseGet(c, s) ==
  /\ closePc[c] = "idle" /\ s \in sessions
  /\ c = "shutdown" => s \in shutLeft
  /\ closePc' = [closePc EXCEPT ![c] = "got"]
  /\ closing' = [closing EXCEPT ![c] = {s}]
  /\ shutLeft' = IF c = "shutdown" THEN shutLeft \ {s} ELSE shutLeft
  /\ UNCHANGED <<openVars, sessions, runVars, fanVars, subs, subVars, chVars, waited, shutPc,
                 published>>

ShutdownSkip(s) ==
  /\ shutPc = "closing" /\ closePc["shutdown"] = "idle"
  /\ s \in shutLeft \ sessions
  /\ shutLeft' = shutLeft \ {s}
  /\ UNCHANGED <<openVars, sessions, runVars, fanVars, subs, subVars, chVars, closeVars,
                 shutPc, published>>

\* Another CloseSession has set entry.closed: nil at once, without waiting.
CloseAlready(c, s) ==
  /\ closePc[c] = "got" /\ s \in closing[c] \cap closed
  /\ closePc' = [closePc EXCEPT ![c] = "idle"]
  /\ closing' = [closing EXCEPT ![c] = {}]
  /\ UNCHANGED <<openVars, sessions, runVars, fanVars, subs, subVars, chVars, waited,
                 shutVars, published>>

\* The compare-and-swap, cancel, sess.Close and inW.Close.
CloseBegin(c, s) ==
  /\ closePc[c] = "got" /\ s \in closing[c] \ closed
  /\ closed' = closed \cup {s}
  /\ cancelled' = cancelled \cup {s}
  /\ closePc' = [closePc EXCEPT ![c] = "wait"]
  /\ UNCHANGED <<openVars, sessions, runPc, written, pipe, outClosed, fanVars, subs, subVars,
                 chVars, closing, waited, shutVars, published>>

\* entry.done is closed: nil.
CloseDone(c, s) ==
  /\ closePc[c] = "wait" /\ s \in closing[c] /\ Done(s)
  /\ closePc' = [closePc EXCEPT ![c] = "idle"]
  /\ closing' = [closing EXCEPT ![c] = {}]
  /\ waited' = waited \cup {s}
  /\ UNCHANGED <<openVars, sessions, runVars, fanVars, subs, subVars, chVars, shutVars,
                 published>>

\* The caller's context is done first.
CloseGiveUp(c) ==
  /\ closePc[c] = "wait"
  /\ closePc' = [closePc EXCEPT ![c] = "idle"]
  /\ closing' = [closing EXCEPT ![c] = {}]
  /\ UNCHANGED <<openVars, sessions, runVars, fanVars, subs, subVars, chVars, waited,
                 shutVars, published>>

\* closeAll takes a snapshot of the map.
ShutdownSnapshot ==
  /\ shutPc = "idle"
  /\ shutPc' = "closing"
  /\ shutLeft' = sessions
  /\ UNCHANGED <<openVars, sessions, runVars, fanVars, subs, subVars, chVars, closeVars,
                 published>>

ShutdownReturn ==
  /\ shutPc = "closing" /\ shutLeft = {} /\ closePc["shutdown"] = "idle"
  /\ shutPc' = "returned"
  /\ UNCHANGED <<openVars, sessions, runVars, fanVars, subs, subVars, chVars, closeVars,
                 shutLeft, published>>

-----------------------------------------------------------------------------

Open(s) == \/ OpenResolve(s) \/ OpenCredential(s) \/ OpenFailed(s) \/ OpenEntry(s)
           \/ OpenPublish(s)
Start(s) == StartWrites(s) \/ StartClosesOutput(s) \/ RunReturn(s)
Run(s) == RunRemove(s) \/ RunPublish(s) \/ RunPipes(s) \/ RunDone(s)
FanOut(s) ==
  \/ FanRead(s) \/ FanSnapshot(s) \/ FanNext(s) \/ FanEOF(s) \/ FanEnd(s)
  \/ \E u \in Sub : FanLock(s, u) \/ FanSkip(s, u) \/ FanSend(s, u) \/ FanClose(s, u)
Subscribe(u) ==
  \/ \E s \in Session : SubGet(u, s) \/ SubAppend(u, s)
  \/ SubCancel(u) \/ SubReceive(u)
Watch(u) == SubClose(u) \/ \E s \in Session : SubWake(u, s)
CloseSession(c) ==
  \/ \E s \in Session : CloseGet(c, s) \/ CloseAlready(c, s) \/ CloseBegin(c, s) \/ CloseDone(c, s)
  \/ CloseGiveUp(c)
CloseAll == ShutdownSnapshot \/ ShutdownReturn \/ \E s \in Session : ShutdownSkip(s)

Next ==
  \/ \E s \in Session : Open(s) \/ Start(s) \/ Run(s) \/ FanOut(s)
  \/ \E u \in Sub : Subscribe(u) \/ Watch(u)
  \/ \E c \in Caller : CloseSession(c)
  \/ CloseAll

Spec == Init /\ [][Next]_vars

\* The application's goroutines keep running, and so does a call that has begun.
\* Start returns once it is cancelled, as protocol.Session demands; it need not
\* return otherwise.  A subscriber has received nothing by right, and no context
\* has to expire.
Fairness ==
  /\ \A s \in Session :
       /\ WF_vars(OpenCredential(s) \/ OpenFailed(s) \/ OpenEntry(s) \/ OpenPublish(s))
       /\ WF_vars(s \in cancelled /\ RunReturn(s))
       /\ WF_vars(Run(s))
       /\ WF_vars(FanOut(s))
  /\ \A u \in Sub : WF_vars(Watch(u)) /\ WF_vars(\E s \in Session : SubAppend(u, s))
  /\ \A c \in Caller :
       WF_vars(\E s \in Session : CloseAlready(c, s) \/ CloseBegin(c, s) \/ CloseDone(c, s))
  /\ WF_vars(ShutdownReturn \/ \E s \in Session : ShutdownSkip(s) \/ CloseGet("shutdown", s))

FairSpec == Spec /\ Fairness

-----------------------------------------------------------------------------
(* Properties                                                              *)

\* Type invariant; a channel never holds more than its capacity.
TypeOK ==
  /\ openPc \in [Session -> {"new", "credential", "open", "publish", "opened", "failed"}]
  /\ material \in [Session -> {"none", "held", "zeroized"}]
  /\ sessions \subseteq Session /\ cancelled \subseteq Session /\ closed \subseteq Session
  /\ pipe \subseteq Session /\ outClosed \subseteq Session
  /\ shutLeft \subseteq Session /\ waited \subseteq Session
  /\ runPc \in [Session -> {"none", "start", "remove", "publish", "pipes", "done", "ended"}]
  /\ written \in [Session -> 0 .. MaxChunks]
  /\ fanPc \in [Session -> {"none", "read", "snapshot", "pick", "send", "close", "ended"}]
  /\ fanLeft \in [Session -> SUBSET Sub] /\ fanCur \in [Session -> SUBSET Sub]
  /\ subs \in [Session -> SUBSET Sub]
  /\ subPc \in [Sub -> {"idle", "got", "watch", "close", "gone"}]
  /\ target \in [Sub -> SUBSET Session]
  /\ ctxDone \subseteq Sub /\ chClosed \subseteq Sub /\ skipped \subseteq Sub
  /\ queued \in [Sub -> 0 .. Cap]
  /\ closePc \in [Caller -> {"idle", "got", "wait"}]
  /\ closing \in [Caller -> SUBSET Session]
  /\ shutPc \in {"idle", "closing", "returned"}
  /\ published \subseteq {"opened", "closed"} \X Session
  /\ panicked \in BOOLEAN

\* fanOut's end of stream and the subscription's own goroutine both close the
\* channel, and both may do so while a chunk is sent: the process never panics.
NoPanic == ~panicked

\* A CloseSession that returned nil after its wait leaves nothing behind: the
\* session is out of the map, its credential is wiped, the plugin was told to
\* close and SessionClosed was published.
CloseWaits ==
  \A s \in waited :
    /\ s \notin sessions
    /\ material[s] # "held"
    /\ s \in cancelled
    /\ <<"closed", s>> \in published

\* The app's material is in memory only while its session is being opened or is
\* running: the failure of the open and the end of the session both wipe it.
SecretsWiped ==
  \A s \in Session :
    material[s] = "held" => openPc[s] = "open" \/ runPc[s] \in {"start", "remove"}

\* A subscription ends with its session, even one that was looked up before the
\* session ended and appended after fanOut took the list away: the channel is
\* closed and the goroutine gone.
SubscriptionsEnd ==
  \A u \in Sub : (subPc[u] # "idle" /\ \E s \in target[u] : Done(s))
                    ~> (u \in chClosed /\ subPc[u] = "gone")

\* A closed session winds up: its goroutine and its fanOut end, and everyone
\* waiting for it returns.
ClosedSessionsEnd ==
  \A s \in Session :
    s \in closed ~> (Done(s) /\ fanPc[s] = "ended" /\ \A c \in Caller : s \notin closing[c])

\* sessions.go: SubscribeOutput "returns a channel that receives every byte slice
\* emitted by the session", dropped only for slow subscribers.  The goroutine
\* woken by entry.done may close the channel while fanOut still holds a chunk.
EveryChunkArrives == skipped = {}
=============================================================================
