---------------------------- MODULE PluginSession ----------------------------
(***************************************************************************)
(* One session of a protocol plugin as the session manager drives it: the  *)
(* Open of plugins/protocol-*/module.go, the Start and Close of their      *)
(* session.go behind the safeSession of host/protocol/host.go, the run     *)
(* goroutine and CloseSession of internal/app/sessions.go.                 *)
(*                                                                         *)
(* Start reads the stdin pipe of the manager, into which nobody writes:    *)
(* input takes the other way, SendInput.  The pipe only ends, when         *)
(* CloseSession closes it or when the run goroutine is through with Start. *)
(* rdp, vnc, tn5250 and mosh check their settings in Open and refuse Start;*)
(* powershell refuses Open.                                                *)
(***************************************************************************)
EXTENDS Naturals, Sequences

CONSTANT Kind   \* the kinds of session looked at

Refusing == {"rdp", "vnc", "tn5250", "mosh"}
Kinds == {"ssh", "sftp", "telnet", "rlogin", "rawsocket", "serial", "http", "powershell"}
           \union Refusing

VARIABLES
  kind,      \* the plugin of this session
  step,      \* steps of Open that succeeded
  opening,   \* Open: run, failed or ok
  held,      \* what the plugin holds open
  cancelled, \* the session's context is cancelled
  eof,       \* the stdin pipe is closed
  remote,    \* the other end is up
  start,     \* Session.Start: idle, login, run, join or returned
  running,   \* the goroutines of the session
  once,      \* the session's closeOnce is used
  wrapped,   \* safeSession.closed
  runner,    \* the manager's run goroutine: idle, start, close or ended
  closer     \* CloseSession: idle, cancel, close, stdin, wait or returned

vars == <<kind, step, opening, held, cancelled, eof, remote, start, running, once,
          wrapped, runner, closer>>

openVars == <<step, opening>>
mgrVars == <<wrapped, runner, closer>>
envVars == <<cancelled, eof, remote>>

TypeOK ==
  /\ kind \in Kind
  /\ step \in 0 .. 6
  /\ opening \in {"run", "failed", "ok"}
  /\ held \subseteq {"agent", "client", "channel", "conn", "port", "idle"}
  /\ cancelled \in BOOLEAN /\ eof \in BOOLEAN /\ remote \in BOOLEAN
  /\ start \in {"idle", "login", "run", "join", "returned"}
  /\ running \subseteq {"out", "err", "in", "wait", "watch", "lines", "fetch", "keepalive"}
  /\ once \in BOOLEAN /\ wrapped \in BOOLEAN
  /\ runner \in {"idle", "start", "close", "ended"}
  /\ closer \in {"idle", "cancel", "close", "stdin", "wait", "returned"}

Init ==
  /\ kind \in Kind
  /\ step = 0 /\ opening = "run" /\ held = {}
  /\ cancelled = FALSE /\ eof = FALSE /\ remote = TRUE
  /\ start = "idle" /\ running = {} /\ once = FALSE
  /\ wrapped = FALSE /\ runner = "idle" /\ closer = "idle"

-----------------------------------------------------------------------------
(* Open                                                                     *)

\* A step of Open is the set of what it may leave open when it succeeds; any step
\* may fail.  Settings are read and checked first: nothing is open yet.
Target == {{}}
ResolveTelnet == {{}}
ResolveRlogin == {{}}

\* Only one of the auth methods of ssh dials the agent, whose socket the session owns.
AgentSocket == {"agent"}
BuildAuth == {AgentSocket, {}}
BuildHostKeys == {{}}

\* dialContext closes the connection itself when the handshake fails or is cancelled.
DialClient == {{"client"}}
NewChannel == {{"channel"}}
RequestShell == {{}}

DialTCP == {{"conn"}}
BuildHandshake == {{}}
Handshake == {{}}
OpenPort == {{"port"}}
Unsupported == {}

SshOpen == <<Target, BuildAuth, BuildHostKeys, DialClient, NewChannel, RequestShell>>
SshDial == <<Target, BuildAuth, BuildHostKeys, DialClient>>
SftpOpen == SshDial \o <<NewChannel>>
TelnetOpen == <<ResolveTelnet, DialTCP>>
RloginOpen == <<ResolveRlogin, BuildHandshake, DialTCP, Handshake>>
RawsocketOpen == <<Target, DialTCP>>
SerialOpen == <<Target, OpenPort>>
HttpOpen == <<Target>>
RdpOpen == <<Target>>
VncOpen == <<Target>>
Tn5250Open == <<Target>>
MoshOpen == <<Target>>
PowershellOpen == <<Unsupported>>

Steps ==
  CASE kind = "ssh" -> SshOpen
    [] kind = "sftp" -> SftpOpen
    [] kind = "telnet" -> TelnetOpen
    [] kind = "rlogin" -> RloginOpen
    [] kind = "rawsocket" -> RawsocketOpen
    [] kind = "serial" -> SerialOpen
    [] kind = "http" -> HttpOpen
    [] kind = "rdp" -> RdpOpen
    [] kind = "vnc" -> VncOpen
    [] kind = "tn5250" -> Tn5250Open
    [] kind = "mosh" -> MoshOpen
    [] kind = "powershell" -> PowershellOpen

OpenStep ==
  /\ opening = "run" /\ step < Len(Steps)
  /\ step' = step + 1
  /\ \E gained \in Steps[step + 1] : held' = held \union gained
  /\ UNCHANGED <<kind, opening, start, running, once, mgrVars, envVars>>

\* Every error path closes what the steps before it opened: the agent's socket when
\* the host key callback or the dial fails, the client and the channel after that.
\* mutant: the error path of the host key callback forgets the agent's socket
ReleasedLate == IF step = 2 THEN {} ELSE held
Released == held

OpenFail ==
  /\ opening = "run" /\ step < Len(Steps)
  /\ opening' = "failed"
  /\ held' = held \ Released
  /\ UNCHANGED <<kind, step, start, running, once, mgrVars, envVars>>

\* The session exists; ssh starts its keepalive, and the manager its goroutine.
OpenOk ==
  /\ opening = "run" /\ step = Len(Steps)
  /\ opening' = "ok"
  /\ runner' = "start"
  /\ running' = IF kind = "ssh" THEN {"keepalive"} ELSE {}
  /\ UNCHANGED <<kind, step, held, start, once, wrapped, closer, envVars>>

-----------------------------------------------------------------------------
(* Close of the session, through its once                                   *)

\* What the once of each plugin closes; the plugins that hold nothing close nothing,
\* and Close of http cancels the fetch that is under way.
SshClose == {"channel", "client", "agent"}
SftpClose == {"channel", "client", "agent"}
TelnetClose == {"conn"}
RloginClose == {"conn"}
RawsocketClose == {"conn"}
SerialClose == {"port"}

Closes ==
  CASE kind = "ssh" -> SshClose
    [] kind = "sftp" -> SftpClose
    [] kind = "telnet" -> TelnetClose
    [] kind = "rlogin" -> RloginClose
    [] kind = "rawsocket" -> RawsocketClose
    [] kind = "serial" -> SerialClose
    [] OTHER -> {}

\* What the transport of an http session may leave open: each fetch and each probe has
\* one of its own, which keeps the connection of a finished answer for a next request.
\* None comes, and nobody closes the idle connection but the server.
KeptAlive == IF kind = "http" THEN {"idle"} ELSE {}

CloseInner ==
  /\ once' = TRUE
  /\ held' = IF once THEN held ELSE held \ Closes

\* safeSession.Close: the first call goes through, a later one returns at once.
CloseWrapped ==
  /\ wrapped' = TRUE
  /\ IF wrapped THEN UNCHANGED <<once, held>> ELSE CloseInner

\* The transport of the session is gone for whoever reads it.
Down == held \intersect {"client", "conn", "port"} = {} \/ ~remote

-----------------------------------------------------------------------------
(* Start                                                                    *)

\* For each plugin the goroutines Start begins with, what ends its wait, and the
\* goroutines it joins before it returns.  ssh waits for the context, for the remote
\* shell or for Close, and joins its copiers; the plugins with two copiers wait for
\* the first of them and join the other; sftp reads lines until the context, Close
\* or the end of stdin; http waits for its answer.
Loop(spawns, leaves, joins) == [spawns |-> spawns, leaves |-> leaves, joins |-> joins]

SshStart ==
  Loop({"out", "err", "in", "wait"}, cancelled \/ once \/ "wait" \notin running,
       {"out", "err", "in"})

SftpStart == Loop({"watch", "lines"}, cancelled \/ once \/ "lines" \notin running, {})

TelnetStart == Loop({"watch", "in", "out"}, {"in", "out"} \ running # {}, {"in", "out"})

RloginStart == Loop({"watch", "in", "out"}, {"in", "out"} \ running # {}, {"in", "out"})

RawsocketStart == Loop({"watch", "in", "out"}, {"in", "out"} \ running # {}, {"in", "out"})

SerialStart == Loop({"watch", "in", "out"}, {"in", "out"} \ running # {}, {"in", "out"})

HttpStart == Loop({"watch", "fetch"}, "fetch" \notin running, {})

Start ==
  CASE kind = "ssh" -> SshStart
    [] kind = "sftp" -> SftpStart
    [] kind = "telnet" -> TelnetStart
    [] kind = "rlogin" -> RloginStart
    [] kind = "rawsocket" -> RawsocketStart
    [] kind = "serial" -> SerialStart
    [] kind = "http" -> HttpStart

\* Telnet with a password first waits for the prompts, with only the watcher
\* running; http does nothing after a Close; the plugins without a transport refuse.
StartBegin ==
  /\ runner = "start" /\ start = "idle"
  /\ \/ /\ kind \in Refusing \/ (kind = "http" /\ once)
        /\ start' = "returned" /\ UNCHANGED running
     \/ /\ kind \notin Refusing /\ ~(kind = "http" /\ once)
        /\ start' = "run" /\ running' = running \union Start.spawns
     \/ kind = "telnet" /\ start' = "login" /\ running' = {"watch"}
  /\ UNCHANGED <<kind, openVars, held, once, mgrVars, envVars>>

\* doPasswordLogin: both prompts came, or Start returns: the read failed, the context
\* was cancelled.
LoginDone ==
  /\ start = "login" /\ ~Down
  /\ start' = "run" /\ running' = running \union {"in", "out"}
  /\ UNCHANGED <<kind, openVars, held, once, mgrVars, envVars>>

\* Or no prompt was among the first 8192 bytes.
LoginFailed ==
  /\ start = "login"
  /\ start' = "returned"
  /\ UNCHANGED <<kind, openVars, held, running, once, mgrVars, envVars>>

\* A goroutine ends.  A reader of the remote ends with the transport, the one that
\* copies stdin only with stdin, and the one that reads lines once it can hand over
\* the end of stdin; the fetch ends with the answer, or because it was cancelled by
\* the context or by Close, and may leave its connection open; the keepalive stops
\* with the session, or fails.
Ends(g) ==
  CASE g \in {"out", "err", "wait"} -> Down
    [] g \in {"in", "lines"} -> eof
    [] g = "fetch" -> TRUE
    [] g = "keepalive" -> once \/ Down
    [] g = "watch" -> IF kind \in {"sftp", "http"} THEN once \/ start = "returned"
                                                   ELSE start = "returned"

GoroutineEnds(g) ==
  /\ g \in running /\ Ends(g)
  /\ running' = running \ {g}
  /\ held' \in {held, held \union (IF g = "fetch" THEN KeptAlive ELSE {})}
  /\ UNCHANGED <<kind, openVars, start, once, mgrVars, envVars>>

\* External: the server drops an idle connection.
DropIdle ==
  /\ "idle" \in held
  /\ held' = held \ {"idle"}
  /\ UNCHANGED <<kind, openVars, start, running, once, mgrVars, envVars>>

\* The goroutine that watches the context closes the session; rawsocket's closes
\* the connection past the session's once; http's cancels the fetch.
WatchFires ==
  /\ "watch" \in running /\ cancelled /\ start # "returned"
  /\ running' = running \ {"watch"}
  /\ CASE kind = "rawsocket" -> held' = {} /\ UNCHANGED once
       [] kind = "http" -> UNCHANGED <<held, once>>
       [] OTHER -> CloseInner
  /\ UNCHANGED <<kind, openVars, start, mgrVars, envVars>>

\* Start closes the session; http only cancels its own context.
StartClose ==
  /\ start = "run" /\ Start.leaves
  /\ start' = "join"
  /\ IF kind = "http" THEN UNCHANGED <<once, held>> ELSE CloseInner
  /\ UNCHANGED <<kind, openVars, running, mgrVars, envVars>>

StartReturn ==
  /\ start = "join" /\ Start.joins \intersect running = {}
  /\ start' = "returned"
  /\ UNCHANGED <<kind, openVars, held, running, once, mgrVars, envVars>>

-----------------------------------------------------------------------------
(* The manager                                                              *)

\* The run goroutine closes the session, then the pipes, which ends a reader of
\* stdin that Start left behind.
RunClose ==
  /\ runner = "start" /\ start = "returned"
  /\ runner' = "close"
  /\ CloseWrapped
  /\ UNCHANGED <<kind, openVars, start, running, closer, envVars>>

RunEnd ==
  /\ runner = "close"
  /\ runner' = "ended"
  /\ eof' = TRUE
  /\ UNCHANGED <<kind, openVars, held, start, running, once, wrapped, closer, cancelled, remote>>

\* CloseSession, once the session is opened and not removed yet: cancel, Close of
\* the session, Close of the stdin pipe, and the wait for the run goroutine.
CloseBegin ==
  /\ closer = "idle" /\ runner \in {"start", "close"}
  /\ closer' = "cancel"
  /\ UNCHANGED <<kind, openVars, held, start, running, once, wrapped, runner, envVars>>

CloseCancel ==
  /\ closer = "cancel"
  /\ closer' = "close"
  /\ cancelled' = TRUE
  /\ UNCHANGED <<kind, openVars, held, start, running, once, wrapped, runner, eof, remote>>

CloseSess ==
  /\ closer = "close"
  /\ closer' = "stdin"
  /\ CloseWrapped
  /\ UNCHANGED <<kind, openVars, start, running, runner, envVars>>

\* mutant: CloseSession leaves the stdin pipe to the run goroutine
CloseStdinLater ==
  /\ closer = "stdin"
  /\ closer' = "wait"
  /\ UNCHANGED <<kind, openVars, held, start, running, once, wrapped, runner, envVars>>

CloseStdin ==
  /\ closer = "stdin"
  /\ closer' = "wait"
  /\ eof' = TRUE
  /\ UNCHANGED <<kind, openVars, held, start, running, once, wrapped, runner, cancelled, remote>>

\* The wait ends with the run goroutine, or with the caller's own context.
CloseReturn ==
  /\ closer = "wait"
  /\ closer' = "returned"
  /\ UNCHANGED <<kind, openVars, held, start, running, once, wrapped, runner, envVars>>

\* External: the remote host, or the line to it, goes away.
RemoteDown ==
  /\ remote /\ opening # "run"
  /\ remote' = FALSE
  /\ UNCHANGED <<kind, openVars, held, start, running, once, mgrVars, cancelled, eof>>

Goroutine == \E g \in running : GoroutineEnds(g)
Opening == OpenStep \/ OpenFail \/ OpenOk
Starting == StartBegin \/ LoginDone \/ LoginFailed \/ StartClose \/ StartReturn
Closing == CloseCancel \/ CloseSess \/ CloseStdin \/ CloseReturn

Next ==
  Opening \/ Starting \/ Goroutine \/ WatchFires \/ RunClose \/ RunEnd
    \/ CloseBegin \/ Closing \/ RemoteDown \/ DropIdle

\* Every goroutine that can go on does so; nothing makes the user close a session,
\* the remote go away, an answer arrive or a server send its prompts or anything else.
Fairness ==
  /\ WF_vars(StartBegin \/ ((Down \/ cancelled) /\ LoginFailed) \/ StartClose \/ StartReturn)
  /\ \A g \in {"out", "err", "in", "wait", "watch", "lines", "keepalive"} :
       WF_vars(GoroutineEnds(g))
  /\ WF_vars((cancelled \/ once) /\ GoroutineEnds("fetch"))
  /\ WF_vars(WatchFires)
  /\ WF_vars(RunClose) /\ WF_vars(RunEnd)
  /\ WF_vars(Closing)

Spec == Init /\ [][Next]_vars /\ Fairness

-----------------------------------------------------------------------------

\* A failed Open keeps nothing open, and neither does a session once the run
\* goroutine is through with it: the sockets and the port are released on every
\* error path of Open and by whichever of the four callers of Close comes first.  Only
\* a session of http may leave something: an idle connection that its server keeps.
ResourcesReleased ==
  /\ opening = "failed" => held = {}
  /\ runner \in {"close", "ended"} => held \subseteq KeptAlive

\* A session that CloseSession has begun to close winds up: its Start returns, the
\* run goroutine ends, and every goroutine the plugin started is gone.
CloseWindsUp ==
  closer # "idle" ~> (runner = "ended" /\ running = {})
=============================================================================
