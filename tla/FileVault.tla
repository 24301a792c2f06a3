----------------------------- MODULE FileVault ------------------------------
(***************************************************************************)
(* The encrypted credential file (plugins/credential-file/provider.go and  *)
(* format.go).  The provider works under its mutex, so an operation is one *)
(* step.  The key is abstracted to the passphrase it is derived from: a    *)
(* file opens with the passphrase it was sealed with.                      *)
(***************************************************************************)
CONSTANTS
  Id,      \* entry ids
  Value,   \* secrets
  Pass,    \* passphrases
  None

VARIABLES
  file,    \* the vault file: [pass, entries], or None
  mem,     \* Provider.vault with its key; None while locked
  want     \* history: what each id may hold after the calls so far

vars == <<file, mem, want>>

Empty == [i \in Id |-> None]

\* vault and the key it is sealed with.
Vault == [pass : Pass, entries : [Id -> Value \union {None}]]

Init == file = None /\ mem = None /\ want = [i \in Id |-> {None}]

\* Unlock: without a file the vault is new; a file that cannot be read, or was
\* sealed with another passphrase, leaves the provider as it was.
\* mutant: a file that cannot be read counts as one that does not exist
UnlockAnyError(p) ==
  /\ \/ mem' = [pass |-> p, entries |-> Empty]
     \/ file # None /\ file.pass = p /\ mem' = file
  /\ UNCHANGED <<file, want>>
Unlock(p) ==
  /\ \/ file = None /\ mem' = [pass |-> p, entries |-> Empty]
     \/ file # None /\ file.pass = p /\ mem' = file
     \/ file # None /\ UNCHANGED mem
  /\ UNCHANGED <<file, want>>

\* Lock, and the end of the program, which also forgets the key.
Lock ==
  /\ mem' = None
  /\ UNCHANGED <<file, want>>

\* saveLocked: sealed with the key and salt at hand, written beside the file and
\* renamed over it.  The write may fail, and the sync of the directory after it may.
saveLocked(i, v) ==
  \/ file' = mem' /\ want' = [want EXCEPT ![i] = {v}]
  \/ file' \in {file, mem'} /\ want' = [want EXCEPT ![i] = @ \union {v}]

\* Put replaces the entry with the id or appends one, then saves; Delete takes the
\* entry out, then saves.  The change stays in memory when the save fails.
Put(i, v) ==
  /\ mem # None
  /\ mem' = [mem EXCEPT !.entries[i] = v]
  /\ saveLocked(i, v)

Delete(i) ==
  /\ mem # None /\ mem.entries[i] # None
  /\ mem' = [mem EXCEPT !.entries[i] = None]
  /\ saveLocked(i, None)

Next ==
  \/ Lock
  \/ \E p \in Pass : Unlock(p)
  \/ \E i \in Id : Delete(i) \/ \E v \in Value : Put(i, v)

Spec == Init /\ [][Next]_vars

\* Resolve: the entry with the id while unlocked, None for ErrLocked and ErrNotFound.
Resolve(i) == IF mem = None THEN None ELSE mem.entries[i]

-----------------------------------------------------------------------------

\* The file holds, and an unlocked provider resolves, for each id the secret of the
\* last Put or Delete that succeeded, or of one that failed after it: no Unlock with
\* another passphrase, failed save, lock or restart in between loses a secret.
SecretsKept ==
  \A i \in Id :
    /\ (IF file = None THEN None ELSE file.entries[i]) \in want[i]
    /\ mem # None => Resolve(i) \in want[i]
=============================================================================
