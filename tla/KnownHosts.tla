----------------------------- MODULE KnownHosts -----------------------------
(***************************************************************************)
(* The host key check of the ssh plugin, plugins/protocol-ssh/module.go:   *)
(* buildHostKeyCallback reads the known_hosts file before the dial, the    *)
(* callback compares the key the server presents during the handshake with *)
(* what was read then, and under "accept-new" appendKnownHost adds the key *)
(* of an unknown host to the file under an advisory lock.  The file is     *)
(* seen for one host, as the set of its keys.                              *)
(***************************************************************************)
EXTENDS Naturals, FiniteSets

CONSTANTS
  Dialer,   \* opens that may run at the same time
  HostKey   \* keys a server may present

Policy == {"off", "strict", "accept-new"}

VARIABLES
  at,       \* at[d]: idle, dial, check, open, append, accepted or refused
  policy,   \* policy[d]: strict_host_key_checking of the connection
  base,     \* base[d]: the keys read when the callback was built
  key,      \* key[d]: the key the server presented, as a set of at most one
  file,     \* the host's keys in the known_hosts file
  locked    \* the dialers that hold the lock on the file

vars == <<at, policy, base, key, file, locked>>

Init ==
  /\ at = [d \in Dialer |-> "idle"]
  /\ policy \in [Dialer -> Policy]
  /\ base = [d \in Dialer |-> {}]
  /\ key = [d \in Dialer |-> {}]
  /\ file \in {{}} \union {{k} : k \in HostKey}
  /\ locked = {}

Goto(d, from, to) == at[d] = from /\ at' = [at EXCEPT ![d] = to]

\* buildHostKeyCallback reads the file; "off" does not look at it.
BuildCallback(d) ==
  /\ Goto(d, "idle", "dial")
  /\ base' = [base EXCEPT ![d] = IF policy[d] = "off" THEN {} ELSE file]
  /\ UNCHANGED <<policy, key, file, locked>>

\* resolveKnownHostsPath refuses a path, or the file cannot be made or read.
BuildFailed(d) ==
  /\ policy[d] # "off"
  /\ Goto(d, "idle", "refused")
  /\ UNCHANGED <<policy, base, key, file, locked>>

\* External: the server presents its key.
Present(d) ==
  /\ Goto(d, "dial", "check")
  /\ \E k \in HostKey : key' = [key EXCEPT ![d] = {k}]
  /\ UNCHANGED <<policy, base, file, locked>>

\* The callback: a key that was read is right; of an unknown host the key is
\* appended under "accept-new"; any other key is refused.
\* mutant: a KeyError counts as an unknown host, also when the host has other keys
VerdictAppendAny(d) ==
  IF policy[d] = "off" \/ key[d] \subseteq base[d] THEN "accepted"
  ELSE IF policy[d] = "accept-new" THEN "open"
  ELSE "refused"

Verdict(d) ==
  IF policy[d] = "off" \/ key[d] \subseteq base[d] THEN "accepted"
  ELSE IF policy[d] = "accept-new" /\ base[d] = {} THEN "open"
  ELSE "refused"

Check(d) ==
  /\ Goto(d, "check", Verdict(d))
  /\ UNCHANGED <<policy, base, key, file, locked>>

\* appendKnownHost: the file is opened, then locked.
LockFile(d) ==
  /\ Goto(d, "open", "append")
  /\ locked = {}
  /\ locked' = {d}
  /\ UNCHANGED <<policy, base, key, file>>

AppendKnownHost(d) ==
  /\ Goto(d, "append", "accepted")
  /\ file' = file \union key[d]
  /\ locked' = locked \ {d}
  /\ UNCHANGED <<policy, base, key>>

AppendFailed(d) ==
  /\ Goto(d, "open", "refused") \/ Goto(d, "append", "refused")
  /\ locked' = locked \ {d}
  /\ UNCHANGED <<policy, base, key, file>>

\* The next open of the dialer, of a connection with any policy.
Again(d) ==
  /\ Goto(d, "accepted", "idle") \/ Goto(d, "refused", "idle")
  /\ \E p \in Policy : policy' = [policy EXCEPT ![d] = p]
  /\ base' = [base EXCEPT ![d] = {}]
  /\ key' = [key EXCEPT ![d] = {}]
  /\ UNCHANGED <<file, locked>>

Next ==
  \E d \in Dialer :
    \/ BuildCallback(d) \/ BuildFailed(d) \/ Present(d) \/ Check(d)
    \/ LockFile(d) \/ AppendKnownHost(d) \/ AppendFailed(d) \/ Again(d)

Spec == Init /\ [][Next]_vars

-----------------------------------------------------------------------------

TypeOK ==
  /\ at \in [Dialer -> {"idle", "dial", "check", "open", "append", "accepted", "refused"}]
  /\ policy \in [Dialer -> Policy]
  /\ base \in [Dialer -> SUBSET HostKey]
  /\ key \in [Dialer -> SUBSET HostKey]
  /\ file \subseteq HostKey
  /\ locked \subseteq Dialer

\* A host has more than one key in the file only through opens that had all read the
\* file while it had none: a key that differs from what an open found recorded is
\* refused, so of the opens that follow one another all accept the first one's key.
\* Every key a checking open has accepted is in the file.
HostKeysTrusted ==
  /\ \A d \in Dialer :
       at[d] = "accepted" /\ policy[d] # "off" =>
         key[d] \subseteq file /\ (base[d] = {} \/ key[d] \subseteq base[d])
  /\ Cardinality(file) <= Cardinality(Dialer)
=============================================================================
