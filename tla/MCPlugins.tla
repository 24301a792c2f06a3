----------------------------- MODULE MCPlugins -----------------------------
(* The hosts of the plugins, the connection to a plugin in another process,   *)
(* the protocol plugins, and the desktop client that shows their sessions.    *)
(* One of them runs in each behaviour (part).  Client, session and desktop    *)
(* else rest in an initial state, in which nothing that is fair is enabled;   *)
(* the variables of the other parts are Off.                                  *)
(*                                                                            *)
(* Hosts: two callers and two modules that carry one id; the clock passes the *)
(* failure window and the quarantine.  Client: two callers on a socket that   *)
(* holds one frame a direction.  Server: three connections.  Session: every   *)
(* plugin.  Desktop: a connection with a terminal and one without, two tabs,  *)
(* two sessions.  Telnet: two items of the peer, one frame of ours, a width   *)
(* with a byte 255.  Sftp: two paths, files of up to two pieces, three lines. *)
(* Host keys: one more key than opens.                                        *)
EXTENDS Naturals, Sequences, FiniteSets

CONSTANT Off
CONSTANTS Module, Caller, None, Threshold, Window, QuarantineFor, MaxNow
CONSTANTS Buffer, MaxCalls
CONSTANT Link
CONSTANT Kind
CONSTANTS Conn, External, Handle, Tab, Opener, NoTab, NoConn
CONSTANTS Bytes, Options, MaxItems, MaxFrames, Widths
CONSTANTS Path, Home, Piece, MaxPieces, MaxCmds
CONSTANTS Dialer, HostKey

VARIABLES plugins, registering, front, life, hostPc, arg, failedAt, now, failures,
  firstFailAt, until, shut, overlap, log
hostsVars == <<plugins, registering, front, life, hostPc, arg, failedAt, now, failures,
               firstFailAt, until, shut, overlap, log>>
H == INSTANCE Hosts WITH pc <- hostPc

\* None is no module; one failure at least makes a quarantine.
ASSUME HostsAssumption ==
  /\ None \notin Module
  /\ Threshold \in Nat \ {0} /\ Window \in Nat /\ QuarantineFor \in Nat
  /\ MaxNow \in Nat \ {0}

VARIABLES nextID, inflight, closed, ch, callPc, id, last, conn, out, in, reader, hand,
  pending, handler, job, owner, served
clientVars == <<nextID, inflight, closed, ch, callPc, id, last, conn, out, in, reader,
                hand, pending, handler, job, owner, served>>
C == INSTANCE IpcClient WITH pc <- callPc

\* The bound is a number.
ASSUME ClientAssumption == MaxCalls \in Nat

VARIABLES listening, conns, state, acceptor, serve, stop
serverVars == <<listening, conns, state, acceptor, serve, stop>>
S == INSTANCE IpcServer WITH Conn <- Link

VARIABLES kind, step, opening, held, cancelled, eof, remote, start, running, once,
  wrapped, runner, closer
sessionVars == <<kind, step, opening, held, cancelled, eof, remote, start, running,
                 once, wrapped, runner, closer>>
P == INSTANCE PluginSession

\* The plugins looked at are plugins of the repository.
ASSUME SessionAssumption == Kind \subseteq P!Kinds

VARIABLES alive, connOf, tabOf, windowed, openConns, items, panes, active, shown,
  opener, uiq, run, listed, cleared, stranded
desktopVars == <<alive, connOf, tabOf, windowed, openConns, items, panes, active, shown,
                 opener, uiq, run, listed, cleared, stranded>>
D == INSTANCE Desktop

\* Sessions and opens are countable, and what stands for none is none.
ASSUME DesktopAssumption ==
  /\ IsFiniteSet(Handle) /\ IsFiniteSet(Opener)
  /\ NoTab \notin Tab /\ NoConn \notin Conn

VARIABLES incoming, sent, meant, asked, mode, sbOpt, sbBuf, put, reply, size, wire,
  typed, frames
telnetVars == <<incoming, sent, meant, asked, mode, sbOpt, sbBuf, put, reply, size,
                wire, typed, frames>>
T == INSTANCE Telnet WITH items <- sent, out <- put

\* Bytes, options and window sizes are numbers.
ASSUME TelnetAssumption == Bytes \subseteq Nat /\ Options \subseteq Nat /\ Widths \subseteq Nat

VARIABLES fs, cwd, cmds, copy, stopped, hungUp, ended, report
sftpVars == <<fs, cwd, cmds, copy, stopped, hungUp, ended, report>>
F == INSTANCE Sftp WITH cancelled <- stopped, closed <- hungUp

\* The home directory has a path; the bound is a number.
ASSUME SftpAssumption == Home \in Path /\ MaxPieces \in Nat

VARIABLES at, policy, base, key, file, locked
hostkeysVars == <<at, policy, base, key, file, locked>>
N == INSTANCE KnownHosts

\* Somebody dials, and not without end.
ASSUME DialerAssumption == IsFiniteSet(Dialer) /\ Dialer # {}

VARIABLE part

MCInit ==
  /\ part \in {"hosts", "client", "server", "session", "desktop", "telnet", "sftp", "hostkeys"}
  /\ IF part = "hosts" THEN H!Init
     ELSE /\ plugins = Off /\ registering = Off /\ front = Off /\ life = Off
          /\ hostPc = Off /\ arg = Off /\ failedAt = Off /\ now = Off /\ failures = Off
          /\ firstFailAt = Off /\ until = Off /\ shut = Off /\ overlap = Off
          /\ log = Off
  /\ C!Init
  /\ IF part = "server" THEN S!Init
     ELSE /\ listening = Off /\ conns = Off /\ state = Off /\ acceptor = Off
          /\ serve = Off /\ stop = Off
  /\ P!Init
  /\ part # "session" => kind = "http"
  /\ D!Init
  /\ IF part = "telnet" THEN T!Init
     ELSE /\ incoming = Off /\ sent = Off /\ meant = Off /\ asked = Off /\ mode = Off
          /\ sbOpt = Off /\ sbBuf = Off /\ put = Off /\ reply = Off /\ size = Off
          /\ wire = Off /\ typed = Off /\ frames = Off
  /\ IF part = "sftp" THEN F!Init
     ELSE /\ fs = Off /\ cwd = Off /\ cmds = Off /\ copy = Off /\ stopped = Off
          /\ hungUp = Off /\ ended = Off /\ report = Off
  /\ IF part = "hostkeys" THEN N!Init
     ELSE /\ at = Off /\ policy = Off /\ base = Off /\ key = Off /\ file = Off
          /\ locked = Off

MCNext ==
  /\ IF part = "hosts" THEN H!Next ELSE UNCHANGED hostsVars
  /\ IF part = "client" THEN C!Next ELSE UNCHANGED clientVars
  /\ IF part = "server" THEN S!Next ELSE UNCHANGED serverVars
  /\ IF part = "session" THEN P!Next ELSE UNCHANGED sessionVars
  /\ IF part = "desktop" THEN D!Next ELSE UNCHANGED desktopVars
  /\ IF part = "telnet" THEN T!Next ELSE UNCHANGED telnetVars
  /\ IF part = "sftp" THEN F!Next ELSE UNCHANGED sftpVars
  /\ IF part = "hostkeys" THEN N!Next ELSE UNCHANGED hostkeysVars
  /\ UNCHANGED part

MCSpec ==
  /\ MCInit
  /\ [][MCNext]_<<hostsVars, clientVars, serverVars, sessionVars, desktopVars, telnetVars,
                 sftpVars, hostkeysVars, part>>
  /\ C!Fairness /\ P!Fairness /\ D!Fairness

-----------------------------------------------------------------------------

\* The hosts' maps account for every module, and a module that is found is live.
HostsConsistent == part = "hosts" => H!ModulesAccounted /\ H!FrontIsLive
\* A quarantine has its failures, none recorded as of after the window.
QuarantineEarned == [][part = "hosts" => H!Earned]_hostsVars
\* The client implements Calls.
ImplementsCalls == C!ImplementsCalls
\* A lost connection fails every call that waits.
LostConnectionFailsCalls == C!LostConnectionFailsCalls
\* A cancelled Serve leaves no connection open.
ServeClosesConnections == part = "server" => S!ServeClosesConnections
\* No plugin keeps a socket or a port after a failed Open or a finished session, but
\* for http's idle connections.
ResourcesReleased == P!ResourcesReleased
\* A session that is closed winds up, its goroutines included.
CloseWindsUp == P!CloseWindsUp
\* Panes, registry and reservations of the desktop client agree.
DesktopConsistent == D!PanesMatchRegistry /\ D!ReservationsBalanced
\* The entry of a session that has ended leaves the desktop's registry.
EndedSessionsLeave == D!EndedSessionsLeave
\* Both ends of a telnet connection understand each other.
StreamsIntact == part = "telnet" => T!StreamsIntact
\* A copy that is reported is whole.
ReportedCopiesAreWhole == part = "sftp" => F!ReportedCopiesAreWhole
\* Keys of a host are recorded, and another one is refused.
HostKeysTrusted == part = "hostkeys" => N!HostKeysTrusted
=============================================================================
