----------------------------- MODULE IpcServer -----------------------------
(***************************************************************************)
(* host/plugin/ipc/server.go: the goroutine that accepts, a goroutine per  *)
(* connection, Serve, which ends with its context, and Stop.               *)
(***************************************************************************)
EXTENDS Naturals

CONSTANTS Conn

VARIABLES
  listening,  \* the listener is open
  conns,      \* Server.conns
  state,      \* of each connection: none, dialled, accepted, open, closed or done
  acceptor,   \* the accepting goroutine: accept, insert or exited
  serve,      \* Serve: run, close, join, drain, returned or, without its context, ended
  stop        \* Stop: idle, close or returned

vars == <<listening, conns, state, acceptor, serve, stop>>

Init ==
  /\ listening = TRUE /\ conns = {} /\ state = [k \in Conn |-> "none"]
  /\ acceptor = "accept" /\ serve = "run" /\ stop = "idle"

Dial(k) ==
  /\ listening /\ state[k] = "none"
  /\ state' = [state EXCEPT ![k] = "dialled"]
  /\ UNCHANGED <<listening, conns, acceptor, serve, stop>>

Accept(k) ==
  /\ acceptor = "accept" /\ listening /\ state[k] = "dialled"
  /\ state' = [state EXCEPT ![k] = "accepted"]
  /\ acceptor' = "insert"
  /\ UNCHANGED <<listening, conns, serve, stop>>

\* The connection is entered, and its goroutine starts.
Insert(k) ==
  /\ acceptor = "insert" /\ state[k] = "accepted"
  /\ conns' = conns \cup {k}
  /\ state' = [state EXCEPT ![k] = "open"]
  /\ acceptor' = "accept"
  /\ UNCHANGED <<listening, serve, stop>>

AcceptFailed ==
  /\ acceptor = "accept" /\ ~listening
  /\ acceptor' = "exited"
  /\ UNCHANGED <<listening, conns, state, serve, stop>>

\* handleConn: the peer is gone, or the server has closed the connection.
HandleEnd(k) ==
  /\ state[k] = "open"
  /\ state' = [state EXCEPT ![k] = "closed"]
  /\ UNCHANGED <<listening, conns, acceptor, serve, stop>>

\* Its deferred function takes it out of the map.
HandleForget(k) ==
  /\ state[k] = "closed"
  /\ conns' = conns \ {k}
  /\ state' = [state EXCEPT ![k] = "done"]
  /\ UNCHANGED <<listening, acceptor, serve, stop>>

\* Serve's context is cancelled: the listener is closed.
ServeCancelled ==
  /\ serve = "run"
  /\ serve' = "join" /\ listening' = FALSE
  /\ UNCHANGED <<conns, state, acceptor, stop>>

\* Somebody else closed the listener: Serve returns at once.
ServeEnded ==
  /\ serve = "run" /\ acceptor = "exited"
  /\ serve' = "ended" /\ listening' = FALSE
  /\ UNCHANGED <<conns, state, acceptor, stop>>

\* Mutant: Serve does not wait for the accepting goroutine.
ServeJoinSkipped ==
  /\ serve = "join"
  /\ serve' = "drain"
  /\ UNCHANGED <<listening, conns, state, acceptor, stop>>

\* The accepting goroutine has ended.
ServeJoin ==
  /\ serve = "join" /\ acceptor = "exited"
  /\ serve' = "drain"
  /\ UNCHANGED <<listening, conns, state, acceptor, stop>>

CloseAll == state' = [k \in Conn |-> IF k \in conns /\ state[k] = "open" THEN "closed" ELSE state[k]]

\* All connections have ended, or three seconds have passed and the rest is closed.
ServeDrained ==
  /\ serve = "drain"
  /\ serve' = "returned"
  /\ CloseAll
  /\ UNCHANGED <<listening, conns, acceptor, stop>>

StopListener ==
  /\ stop = "idle"
  /\ stop' = "close" /\ listening' = FALSE
  /\ UNCHANGED <<conns, state, acceptor, serve>>

StopConns ==
  /\ stop = "close"
  /\ stop' = "returned"
  /\ CloseAll
  /\ UNCHANGED <<listening, conns, acceptor, serve>>

Next ==
  \/ \E k \in Conn : Dial(k) \/ Accept(k) \/ Insert(k) \/ HandleEnd(k) \/ HandleForget(k)
  \/ AcceptFailed \/ ServeCancelled \/ ServeEnded \/ ServeJoin \/ ServeDrained
  \/ StopListener \/ StopConns

Spec == Init /\ [][Next]_vars

\* Serve: "active connections are given 3 seconds to drain before being
\* force-closed".  When a cancelled Serve has returned no connection it accepted is
\* open, one that was being accepted at the cancellation included, and Stop at the
\* same time notwithstanding.
ServeClosesConnections ==
  serve = "returned" => \A k \in Conn : state[k] \notin {"accepted", "open"}
=============================================================================
