----------------------------- MODULE TokenVault -----------------------------
(***************************************************************************)
(* The credential providers that run a command line tool and keep the      *)
(* session token it hands out: plugins/credential-1password/provider.go    *)
(* and plugins/credential-bitwarden/provider.go.  Bitwarden's runs its     *)
(* tool under the provider's mutex; 1Password's takes the mutex only to    *)
(* read or to write the token, and its operations overlap.  Each command   *)
(* may fail: wrong passphrase, a tool that cannot run, a context that is   *)
(* over.  What the tool prints about an entry is left out.                 *)
(***************************************************************************)
EXTENDS Naturals

CONSTANTS
  Client,    \* callers of the provider
  MaxTokens  \* bound: sessions the tool opens

VARIABLES
  provider,  \* "1password" or "bitwarden"
  token,     \* sessionToken, session: a number, 0 for none
  live,      \* sessions the tool accepts
  issued,    \* how many the tool has opened
  at,        \* each caller: idle, store, signout or read
  env,       \* the token a caller's command was given, or has printed
  stored,    \* history: tokens the provider has held
  retired,   \* history: those it had held when a Lock began that has returned
  due,       \* history: `stored' when the caller's Lock began
  before     \* history: `retired' when the caller's Resolve began

vars == <<provider, token, live, issued, at, env, stored, retired, due, before>>
histories == <<due, before>>
callVars == <<at, env, histories>>

Init ==
  /\ provider \in {"1password", "bitwarden"}
  /\ token = 0 /\ live = {} /\ issued = 0
  /\ at = [c \in Client |-> "idle"] /\ env = [c \in Client |-> 0]
  /\ stored = {} /\ retired = {}
  /\ due = [c \in Client |-> {}] /\ before = [c \in Client |-> {}]

\* A call goes on with a token in hand, or returns.
Goes(c, label, t) == at' = [at EXCEPT ![c] = label] /\ env' = [env EXCEPT ![c] = t]
Returns(c) == Goes(c, "idle", 0)

\* The tool opens a session; it ends one on request, or on its own.
Opened == issued < MaxTokens /\ issued' = issued + 1 /\ live' = live \union {issued'}
Expire ==
  /\ \E t \in live : live' = live \ {t}
  /\ UNCHANGED <<provider, token, issued, callVars, stored, retired>>

-----------------------------------------------------------------------------
(* 1Password                                                               *)

\* Unlock runs op signin, then stores what it printed.
UnlockRun(c) ==
  /\ provider = "1password" /\ at[c] = "idle"
  /\ Opened
  /\ Goes(c, "store", issued')
  /\ UNCHANGED <<provider, token, stored, retired, histories>>

UnlockStore(c) ==
  /\ at[c] = "store"
  /\ token' = env[c] /\ stored' = stored \union {env[c]}
  /\ Returns(c)
  /\ UNCHANGED <<provider, live, issued, retired, histories>>

\* The token as it is now, for a command that then runs without the mutex.
runOp(c, label) ==
  /\ provider = "1password" /\ at[c] = "idle"
  /\ Goes(c, label, token)

LockRun(c) ==
  /\ runOp(c, "signout")
  /\ due' = [due EXCEPT ![c] = stored]
  /\ UNCHANGED <<provider, token, live, issued, stored, retired, before>>

\* op signout ends the session or fails; either way the token is forgotten, the one
\* an Unlock stored meanwhile too.
LockClear(c) ==
  /\ at[c] = "signout"
  /\ live' \in {live, live \ {env[c]}}
  /\ token' = 0
  /\ retired' = retired \union due[c]
  /\ Returns(c)
  /\ UNCHANGED <<provider, issued, stored, histories>>

\* Resolve, and List and State likewise: the tool is asked also without a token, and
\* gives the entry if it knows the session it is asked in.
ReadRun(c) ==
  /\ runOp(c, "read")
  /\ before' = [before EXCEPT ![c] = retired]
  /\ UNCHANGED <<provider, token, live, issued, stored, retired, due>>

-----------------------------------------------------------------------------
(* Bitwarden                                                               *)

MutexFree == provider = "bitwarden" /\ \A c \in Client : at[c] = "idle"

Unlock ==
  /\ MutexFree
  /\ Opened
  /\ token' = issued' /\ stored' = stored \union {issued'}
  /\ UNCHANGED <<provider, callVars, retired>>

Lock ==
  /\ MutexFree
  /\ live' \in {live, live \ {token}}
  /\ token' = 0
  /\ retired' = retired \union stored
  /\ UNCHANGED <<provider, issued, callVars, stored>>

\* Resolve and List: ErrLocked without a token, else the tool is asked.
Resolve(c) ==
  /\ MutexFree /\ token # 0
  /\ Goes(c, "read", token)
  /\ before' = [before EXCEPT ![c] = retired]
  /\ UNCHANGED <<provider, token, live, issued, stored, retired, due>>

\* The tool has answered either provider: an entry, or an error, which may say that
\* the session is over.  The token is kept in each case.
Answered(c) ==
  /\ at[c] = "read"
  /\ Returns(c)
  /\ UNCHANGED <<provider, token, live, issued, stored, retired, histories>>

-----------------------------------------------------------------------------

Next ==
  \/ \E c \in Client :
       \/ UnlockRun(c) \/ UnlockStore(c) \/ LockRun(c) \/ LockClear(c) \/ ReadRun(c)
       \/ Resolve(c) \/ Answered(c)
  \/ Unlock \/ Lock \/ Expire

Spec == Init /\ [][Next]_vars

\* Lock: "forgets any cached session token regardless of the CLI's exit status".  A
\* token the provider held when a Lock began is out of use once that Lock has
\* returned, whatever Unlocks and Locks overlap with it: no Resolve that begins later
\* asks the tool with it, and Bitwarden's never had one under way.
TokensForgotten ==
  /\ token \notin retired
  /\ \A c \in Client :
       at[c] = "read" => env[c] \notin (IF provider = "bitwarden" THEN retired ELSE before[c])
=============================================================================
