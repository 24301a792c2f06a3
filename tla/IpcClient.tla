----------------------------- MODULE IpcClient -----------------------------
(***************************************************************************)
(* host/plugin/ipc/client.go: calls that share one connection, the map of  *)
(* requests in flight, the goroutine that reads answers, and the server's  *)
(* goroutine for this connection (handleConn).                             *)
(*                                                                         *)
(* A frame is a request id and, in an answer, whether it carries an error. *)
(* The socket holds at most Buffer frames a direction; a writer waits when *)
(* it is full.  WriteFrame is one step: writers of a side are serialised.  *)
(***************************************************************************)
EXTENDS Naturals, Sequences

CONSTANTS
  Caller,
  Buffer,    \* frames a direction of the socket holds
  MaxCalls   \* bound: calls of all callers

VARIABLES
  nextID,    \* Client.nextID
  inflight,  \* keys of Client.inflight
  closed,    \* Client.inflight is nil
  ch,        \* the channel of each request: at most one frame
  pc,        \* of each caller: idle, write or wait
  id,        \* its request
  last,      \* its last call: how many it made, and what the last one returned
  conn,      \* the connection: up or down
  out, in,   \* frames under way to the server and to the client
  reader,    \* readLoop: read, deliver, failing or gone
  hand,      \* the frame it delivers
  pending,   \* the requests it has to fail
  handler,   \* handleConn: read, reply or gone
  job,       \* the request it is at
  owner,     \* history: whose call each request is
  served     \* history: requests dispatched

sideVars == <<conn, out, in>>
serverVars == <<handler, job, served>>
readVars == <<reader, hand, pending>>
mapVars == <<nextID, inflight, closed, ch, owner>>
callVars == <<pc, id, last>>
vars == <<sideVars, serverVars, readVars, mapVars, callVars>>

NoFrame == [id |-> 0, ok |-> FALSE]

Init ==
  /\ nextID = 1 /\ inflight = {} /\ closed = FALSE /\ ch = <<>> /\ owner = <<>>
  /\ pc = [c \in Caller |-> "idle"] /\ id = [c \in Caller |-> 0]
  /\ last = [c \in Caller |-> [no |-> 0, st |-> "idle"]]
  /\ conn = "up" /\ out = <<>> /\ in = <<>>
  /\ reader = "read" /\ hand = NoFrame /\ pending = {}
  /\ handler = "read" /\ job = 0 /\ served = {}

-----------------------------------------------------------------------------
(* call                                                                    *)

Returns(c, how) ==
  /\ pc' = [pc EXCEPT ![c] = "idle"]
  /\ id' = [id EXCEPT ![c] = 0]
  /\ last' = [last EXCEPT ![c].st = how]

\* The request gets an id and a channel, unless the connection is known to be lost.
CallBegin(c) ==
  /\ pc[c] = "idle" /\ nextID <= MaxCalls /\ ~closed
  /\ nextID' = nextID + 1
  /\ inflight' = inflight \cup {nextID}
  /\ ch' = Append(ch, <<>>)
  /\ owner' = Append(owner, <<c, last[c].no + 1>>)
  /\ pc' = [pc EXCEPT ![c] = "write"]
  /\ id' = [id EXCEPT ![c] = nextID]
  /\ last' = [last EXCEPT ![c] = [no |-> @.no + 1, st |-> "waiting"]]
  /\ UNCHANGED <<closed, sideVars, serverVars, readVars>>

Write(c) ==
  /\ pc[c] = "write" /\ conn = "up" /\ Len(out) < Buffer
  /\ out' = Append(out, id[c])
  /\ pc' = [pc EXCEPT ![c] = "wait"]
  /\ UNCHANGED <<conn, in, id, last, serverVars, readVars, mapVars>>

\* The request is taken out of the map.
Abandon(c) == inflight' = inflight \ {id[c]}

WriteFailed(c) ==
  /\ pc[c] = "write"
  /\ Abandon(c)
  /\ Returns(c, "failed")
  /\ UNCHANGED <<nextID, closed, ch, owner, sideVars, serverVars, readVars>>

\* What a frame on the caller's channel means to it.
Taken(c) ==
  LET frame == ch[id[c]][1]
  IN  IF ~frame.ok THEN "failed" ELSE IF frame.id = id[c] THEN "answered" ELSE "crossed"

Receive(c) ==
  /\ pc[c] = "wait" /\ ch[id[c]] # <<>>
  /\ ch' = [ch EXCEPT ![id[c]] = <<>>]
  /\ Returns(c, Taken(c))
  /\ UNCHANGED <<nextID, inflight, closed, owner, sideVars, serverVars, readVars>>

\* The caller's context is done first.
GiveUp(c) ==
  /\ pc[c] = "wait"
  /\ Abandon(c)
  /\ Returns(c, "failed")
  /\ UNCHANGED <<nextID, closed, ch, owner, sideVars, serverVars, readVars>>

-----------------------------------------------------------------------------
(* readLoop                                                                *)

\* Mutant: an answer goes to any request in flight.
RoutedToAny(frame) == IF inflight = {} THEN 0 ELSE CHOOSE i \in inflight : \A j \in inflight : i <= j

\* The request an answer belongs to, 0 when nobody waits for it.
Routed(frame) == IF frame.id \in inflight THEN frame.id ELSE 0

\* A frame is read, and its request leaves the map.
Read ==
  /\ reader = "read" /\ in # <<>>
  /\ in' = Tail(in)
  /\ inflight' = inflight \ {Routed(Head(in))}
  /\ IF Routed(Head(in)) = 0
     THEN UNCHANGED readVars
     ELSE /\ reader' = "deliver" /\ hand' = Head(in) /\ pending' = {Routed(Head(in))}
  /\ UNCHANGED <<nextID, closed, ch, owner, conn, out, serverVars, callVars>>

Sent(i, frame) == ch[i] = <<>> /\ ch' = [ch EXCEPT ![i] = <<frame>>]

\* The send on the request's channel would block if a frame were in it.
Deliver ==
  /\ reader = "deliver"
  /\ \E i \in pending : Sent(i, hand)
  /\ reader' = "read" /\ hand' = NoFrame /\ pending' = {}
  /\ UNCHANGED <<nextID, inflight, closed, owner, sideVars, serverVars, callVars>>

\* Mutant: the requests in flight are forgotten.
OrphansForgotten == {}

\* The requests that wait for an answer when the connection is lost.
Orphans == inflight

\* ReadFrame fails: the connection is down, or a frame is malformed or too long.
ReadFailed ==
  /\ reader = "read"
  /\ reader' = "failing" /\ pending' = Orphans
  /\ inflight' = {} /\ closed' = TRUE
  /\ UNCHANGED <<nextID, ch, owner, hand, sideVars, serverVars, callVars>>

FailNext ==
  /\ reader = "failing"
  /\ \/ \E i \in pending : Sent(i, NoFrame) /\ pending' = pending \ {i} /\ UNCHANGED reader
     \/ pending = {} /\ reader' = "gone" /\ UNCHANGED <<pending, ch>>
  /\ UNCHANGED <<nextID, inflight, closed, owner, hand, sideVars, serverVars, callVars>>

-----------------------------------------------------------------------------
(* The server's side of the connection                                     *)

HandleRead ==
  /\ handler = "read" /\ conn = "up" /\ out # <<>>
  /\ job' = Head(out) /\ out' = Tail(out)
  /\ served' = served \cup {job'}
  /\ handler' = "reply"
  /\ UNCHANGED <<conn, in, readVars, mapVars, callVars>>

\* dispatch's answer or its error is written.
HandleReply ==
  /\ handler = "reply" /\ conn = "up" /\ Len(in) < Buffer
  /\ \E ok \in BOOLEAN : in' = Append(in, [id |-> job, ok |-> ok])
  /\ handler' = "read" /\ job' = 0
  /\ UNCHANGED <<conn, out, served, readVars, mapVars, callVars>>

\* A read or a write failed: handleConn closes the connection.
HandleExit ==
  /\ handler # "gone" /\ conn = "down"
  /\ handler' = "gone" /\ job' = 0
  /\ UNCHANGED <<served, sideVars, readVars, mapVars, callVars>>

\* Client.Close, the server's Stop or the death of either process.
ConnDown ==
  /\ conn = "up"
  /\ conn' = "down" /\ out' = <<>>
  /\ \E n \in 0 .. Len(in) : in' = SubSeq(in, 1, n)
  /\ UNCHANGED <<serverVars, readVars, mapVars, callVars>>

Reader == Read \/ Deliver \/ FailNext \/ (conn = "down" /\ ReadFailed)

Next ==
  \/ \E c \in Caller :
       CallBegin(c) \/ Write(c) \/ WriteFailed(c) \/ Receive(c) \/ GiveUp(c)
  \/ Read \/ Deliver \/ ReadFailed \/ FailNext
  \/ HandleRead \/ HandleReply \/ HandleExit \/ ConnDown

\* The reader of the socket runs, and a caller takes the answer it waits for.
Fairness ==
  /\ WF_vars(Reader)
  /\ \A c \in Caller : WF_vars(Receive(c))

Spec == Init /\ [][Next]_vars /\ Fairness

-----------------------------------------------------------------------------
(* Properties                                                              *)

\* The client implements Calls: a caller takes an answer only from the request it
\* waits for, after the server has dispatched it, however late the answers to calls
\* it gave up arrive.
Abstract == INSTANCE Calls WITH
  call <- last,
  handled <- {owner[i] : i \in served}
ImplementsCalls == Abstract!Spec

\* readLoop: when the connection is lost or the reader stops for another reason,
\* every call that waits for an answer returns.
LostConnectionFailsCalls ==
  \A c \in Caller :
    (pc[c] = "wait" /\ (conn = "down" \/ closed)) ~> pc[c] # "wait"
=============================================================================
