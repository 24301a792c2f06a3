------------------------------- MODULE Hosts -------------------------------
(***************************************************************************)
(* The hosts of host/: the plugin host, which runs Init and Shutdown of a  *)
(* module outside its lock, and on top of it the protocol or the           *)
(* credential host, which keeps a map of its own and writes it after       *)
(* Register and before Unregister of the plugin host; the credential       *)
(* host's counting of failures and its quarantine; and the part of         *)
(* App.Shutdown that unregisters plugins.                                  *)
(*                                                                         *)
(* One plugin id: all maps are keyed by id and nothing crosses ids.  What  *)
(* a host refuses without a change of state (a manifest, an approval, a    *)
(* duplicate, an unknown or a quarantined provider) is stuttering.         *)
(***************************************************************************)
EXTENDS Naturals, Sequences

CONSTANTS
  Module,         \* module objects that carry the id
  Caller,         \* goroutines that call the hosts
  None,
  Threshold,      \* failureThreshold
  Window,         \* failureWindow
  QuarantineFor,  \* quarantineFor
  MaxNow          \* bound: the clock

VARIABLES
  plugins,      \* plugin host: the loaded module
  registering,  \* plugin host: an Init of the id is running
  front,        \* protocol host's modules, credential host's providers
  life,         \* of each module: new, init, live, stopping, dead or failed
  pc,           \* of each caller: idle, init, publish, unregister, stop, resolve, record
                \* or open
  arg,          \* the module its call is about
  now,          \* the clock of the credential host
  failedAt,     \* of each caller: the clock when its Resolve failed, until it is recorded
  failures,     \* failed Resolves counted
  firstFailAt,  \* the clock the first of them was recorded with, 0 for none
  until,        \* end of the quarantine, 0 for none
  shut,         \* history: App.Shutdown has unregistered the plugins
  overlap,      \* history: a Register was about to write front during an Unregister
  log           \* history: the clocks the failures were recorded with since the count was
                \* last cleared, in the order of the recordings

hostVars == <<plugins, registering, life>>
failVars == <<failures, firstFailAt, until, log>>
callVars == <<pc, arg, failedAt>>
vars == <<hostVars, front, failVars, callVars, now, shut, overlap>>

Init ==
  /\ plugins = None /\ registering = FALSE /\ front = None
  /\ life = [m \in Module |-> "new"]
  /\ pc = [c \in Caller |-> "idle"] /\ arg = [c \in Caller |-> None]
  /\ failedAt = [c \in Caller |-> 0]
  /\ now = 1 /\ failures = 0 /\ firstFailAt = 0 /\ until = 0 /\ log = <<>>
  /\ shut = FALSE /\ overlap = FALSE

Goes(c, where, m) ==
  /\ pc' = [pc EXCEPT ![c] = where] /\ arg' = [arg EXCEPT ![c] = m]
  /\ failedAt' = [failedAt EXCEPT ![c] = IF where = "record" THEN now ELSE 0]
Returns(c) == Goes(c, "idle", None)

-----------------------------------------------------------------------------
(* Register                                                                *)

\* Mutant: the id is not reserved while Init runs.
RegisterBeginUnreserved(c, m) ==
  /\ pc[c] = "idle" /\ life[m] = "new"
  /\ plugins = None
  /\ registering' = TRUE
  /\ life' = [life EXCEPT ![m] = "init"]
  /\ Goes(c, "init", m)
  /\ UNCHANGED <<plugins, front, failVars, now, shut, overlap>>

\* The checks are passed and the id is reserved; Init runs.
RegisterBegin(c, m) ==
  /\ pc[c] = "idle" /\ life[m] = "new"
  /\ plugins = None /\ ~registering
  /\ registering' = TRUE
  /\ life' = [life EXCEPT ![m] = "init"]
  /\ Goes(c, "init", m)
  /\ UNCHANGED <<plugins, front, failVars, now, shut, overlap>>

\* Init returned an error, panicked or ran into its timeout.
InitFailed(c) ==
  /\ pc[c] = "init"
  /\ registering' = FALSE
  /\ life' = [life EXCEPT ![arg[c]] = "failed"]
  /\ Returns(c)
  /\ UNCHANGED <<plugins, front, failVars, now, shut, overlap>>

Unregistering == \E c \in Caller : pc[c] = "unregister"

\* Init is done: the module is entered, unless the id has been taken meanwhile.
InitDone(c) ==
  /\ pc[c] = "init"
  /\ registering' = FALSE
  /\ life' = [life EXCEPT ![arg[c]] = "live"]
  /\ plugins' = IF plugins = None THEN arg[c] ELSE plugins
  /\ IF plugins = None THEN Goes(c, "publish", arg[c]) ELSE Returns(c)
  /\ overlap' = (overlap \/ Unregistering)
  /\ UNCHANGED <<front, failVars, now, shut>>

\* The specialised host enters the module into its own map.
RegisterPublish(c) ==
  /\ pc[c] = "publish"
  /\ front' = arg[c]
  /\ Returns(c)
  /\ UNCHANGED <<hostVars, failVars, now, shut, overlap>>

-----------------------------------------------------------------------------
(* Unregister                                                              *)

ClearFailures == failures' = 0 /\ firstFailAt' = 0 /\ log' = <<>>
ClearAll == ClearFailures /\ until' = 0

\* The specialised host forgets the module and what it counted for it.
UnregisterFront(c) ==
  /\ pc[c] = "idle"
  /\ front' = None
  /\ ClearAll
  /\ Goes(c, "unregister", None)
  /\ overlap' = (overlap \/ \E o \in Caller : pc[o] = "publish")
  /\ UNCHANGED <<hostVars, now, shut>>

\* The plugin host drops the module and calls its Shutdown, or knows none.
Dropped(c) ==
  \/ /\ plugins # None
     /\ plugins' = None
     /\ life' = [life EXCEPT ![plugins] = "stopping"]
     /\ Goes(c, "stop", plugins)
  \/ /\ plugins = None
     /\ Returns(c)
     /\ UNCHANGED <<plugins, life>>

UnregisterHost(c) ==
  /\ pc[c] = "unregister"
  /\ Dropped(c)
  /\ UNCHANGED <<registering, front, failVars, now, shut, overlap>>

\* Shutdown returned, with an error or without.
ShutdownDone(c) ==
  /\ pc[c] = "stop"
  /\ life' = [life EXCEPT ![arg[c]] = "dead"]
  /\ Returns(c)
  /\ UNCHANGED <<plugins, registering, front, failVars, now, shut, overlap>>

\* App.Shutdown unregisters what the plugin host lists, with the plugin host: the
\* maps of the specialised hosts stay as they are.
AppShutdown(c) ==
  /\ pc[c] = "idle" /\ ~shut /\ plugins # None
  /\ shut' = TRUE
  /\ Dropped(c)
  /\ UNCHANGED <<registering, front, failVars, now, overlap>>

-----------------------------------------------------------------------------
(* Calls into a module                                                     *)

\* protocol.Host.Open: the module is looked up and asked for a session.
OpenLookup(c) ==
  /\ pc[c] = "idle" /\ front # None
  /\ Goes(c, "open", front)
  /\ UNCHANGED <<hostVars, front, failVars, now, shut, overlap>>

\* It has one, or failed and was reported.
OpenDone(c) ==
  /\ pc[c] = "open"
  /\ Returns(c)
  /\ UNCHANGED <<hostVars, front, failVars, now, shut, overlap>>

Quarantined == until # 0 /\ now < until
Expired == until # 0 /\ now >= until

\* isQuarantinedLocked forgets a quarantine that is over.
Expire == IF Expired THEN ClearAll ELSE UNCHANGED failVars

\* credential.Host.Resolve: the provider is looked up and called.
ResolveBegin(c) ==
  /\ pc[c] = "idle" /\ front # None /\ ~Quarantined
  /\ Expire
  /\ Goes(c, "resolve", front)
  /\ UNCHANGED <<hostVars, front, now, shut, overlap>>

\* recordSuccess leaves a quarantine that began meanwhile.
ResolveOk(c) ==
  /\ pc[c] = "resolve"
  /\ ClearFailures
  /\ Returns(c)
  /\ UNCHANGED <<hostVars, front, until, now, shut, overlap>>

\* recordFailure reads the clock before it takes the lock.
ResolveFailed(c) ==
  /\ pc[c] = "resolve"
  /\ Goes(c, "record", arg[c])
  /\ UNCHANGED <<hostVars, front, failVars, now, shut, overlap>>

\* Mutant: the count goes on after the window.
CountedForever(t) == failures + 1

\* The window begins with the first failure; one read before it is counted as well.
Counted(t) == IF firstFailAt = 0 \/ t > firstFailAt + Window THEN 1 ELSE failures + 1

\* recordFailure under the lock, whatever became of the provider since the call began
\* and of the clock since it was read.
RecordFailure(c) ==
  LET t == failedAt[c] IN
  /\ pc[c] = "record"
  /\ IF Counted(t) >= Threshold
     THEN ClearFailures /\ until' = t + QuarantineFor
     ELSE /\ failures' = Counted(t)
          /\ firstFailAt' = IF Counted(t) = 1 THEN t ELSE firstFailAt
          /\ log' = Append(log, t)
          /\ UNCHANGED until
  /\ Returns(c)
  /\ UNCHANGED <<hostVars, front, now, shut, overlap>>

\* Host.Quarantined looks, and forgets a quarantine that is over.
CheckQuarantine ==
  /\ Expired /\ ClearAll
  /\ UNCHANGED <<hostVars, front, callVars, now, shut, overlap>>

Reinstate ==
  /\ until # 0 \/ failures # 0
  /\ ClearAll
  /\ UNCHANGED <<hostVars, front, callVars, now, shut, overlap>>

\* The clock moves on.
Tick ==
  /\ now < MaxNow
  /\ now' = now + 1
  /\ UNCHANGED <<hostVars, front, failVars, callVars, shut, overlap>>

Next ==
  \/ \E c \in Caller, m \in Module : RegisterBegin(c, m)
  \/ \E c \in Caller :
       \/ InitFailed(c) \/ InitDone(c) \/ RegisterPublish(c)
       \/ UnregisterFront(c) \/ UnregisterHost(c) \/ ShutdownDone(c) \/ AppShutdown(c)
       \/ OpenLookup(c) \/ OpenDone(c)
       \/ ResolveBegin(c) \/ ResolveOk(c) \/ ResolveFailed(c)
       \/ RecordFailure(c)
  \/ CheckQuarantine \/ Reinstate \/ Tick

Spec == Init /\ [][Next]_vars

-----------------------------------------------------------------------------
(* Properties                                                              *)

\* Type invariant.
TypeOK ==
  /\ plugins \in Module \cup {None} /\ front \in Module \cup {None}
  /\ registering \in BOOLEAN /\ shut \in BOOLEAN /\ overlap \in BOOLEAN
  /\ life \in [Module -> {"new", "init", "live", "stopping", "dead", "failed"}]
  /\ pc \in [Caller -> {"idle", "init", "publish", "unregister", "stop", "resolve", "record",
                      "open"}]
  /\ arg \in [Caller -> Module \cup {None}]
  /\ failedAt \in [Caller -> 0 .. MaxNow]
  /\ \A c \in Caller : pc[c] = "record" => failedAt[c] # 0
  /\ now \in 1 .. MaxNow /\ failures \in 0 .. Threshold - 1
  /\ firstFailAt \in 0 .. MaxNow /\ until \in 0 .. MaxNow + QuarantineFor
  /\ log \in Seq(1 .. MaxNow)

\* Host.Register: "a concurrent Register call with the same ID cannot also pass the
\* dup check and run Init".  A module whose Init succeeded is the one that is loaded,
\* until its Shutdown is called: none is initialised and then lost, whatever
\* Registers and Unregisters run beside each other.
ModulesAccounted ==
  /\ \A m \in Module : life[m] = "live" <=> plugins = m
  /\ \A m, n \in Module : life[m] = "init" /\ life[n] = "init" => m = n

\* A module that Open or Resolve finds has been initialised and not shut down, but
\* for two cases: a Register and an Unregister of the id overlapped, and
\* App.Shutdown, which goes past the specialised hosts.
FrontIsLive ==
  front # None /\ ~overlap /\ ~shut => life[front] = "live"

\* A provider is quarantined only when Threshold failures in a row have been recorded,
\* none of them later than Window after the first, with no success, no Reinstate and
\* no Unregister in between; QuarantineFor is counted from the last.  Recorded in the
\* order in which they happened, they lie within one window.  A failure that is
\* recorded late may have happened any time before the first: the code counts it.
Earned ==
  until' \notin {0, until} =>
    LET all == Append(log, until' - QuarantineFor)
        first == Len(all) - Threshold + 1
    IN  /\ first >= 1
        /\ \A i \in first .. Len(all) : all[i] <= all[first] + Window
QuarantineEarned == [][Earned]_vars
=============================================================================
