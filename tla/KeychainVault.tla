--------------------------- MODULE KeychainVault ----------------------------
(***************************************************************************)
(* The OS keychain provider (plugins/credential-keychain/provider.go and   *)
(* index.go): a secret per id in the keychain, and an index of the ids in  *)
(* memory and in keychain-index.json.  Its operations run under a mutex.   *)
(***************************************************************************)
CONSTANTS Id   \* entry ids

VARIABLES
  secrets,   \* ids with a secret in the OS keychain
  index,     \* Provider.index
  indexFile, \* keychain-index.json
  loaded,    \* history: Unlock has loaded the index, and no Lock came since
  blind,     \* history: an index was saved that had not been loaded
  unsaved    \* history: ids whose Put failed to save the index

vars == <<secrets, index, indexFile, loaded, blind, unsaved>>

Init ==
  /\ secrets = {} /\ index = {} /\ indexFile = {}
  /\ loaded = FALSE /\ blind = FALSE /\ unsaved = {}

\* Unlock reads the index, then probes the keychain; Lock empties it in memory, and
\* so does the end of the program.
Unlock ==
  /\ index' = indexFile /\ loaded' = TRUE
  /\ UNCHANGED <<secrets, indexFile, blind, unsaved>>

Lock ==
  /\ index' = {} /\ loaded' = FALSE
  /\ UNCHANGED <<secrets, indexFile, blind, unsaved>>

\* Neither Put nor Delete asks whether the index was loaded; the file gets the one
\* in memory.  The keychain comes first, then the save, which may fail.
persistLocked(failed) ==
  \/ /\ indexFile' = index'
     /\ blind' = (blind \/ ~loaded)
     /\ unsaved' = unsaved \ index'
  \/ UNCHANGED <<indexFile, blind>> /\ unsaved' = unsaved \union failed

Put(i) ==
  /\ secrets' = secrets \union {i}
  /\ index' = index \union {i}
  /\ persistLocked({i})
  /\ UNCHANGED loaded

Delete(i) ==
  /\ i \in index \union secrets
  /\ secrets' = secrets \ {i}
  /\ index' = index \ {i}
  /\ persistLocked({})
  /\ UNCHANGED loaded

Next ==
  \/ Unlock \/ Lock
  \/ \E i \in Id : Put(i) \/ Delete(i)

Spec == Init /\ [][Next]_vars

\* Resolve of an id asks the keychain, also without a row; List shows the index.
Resolve(i) == i \in secrets
List == index

-----------------------------------------------------------------------------

\* As long as nothing was stored before the index was loaded, a secret whose Put
\* succeeded is found again by List after the next Unlock, and List of an unlocked
\* provider shows it: no failed save, Lock or Delete of another one orphans it.
SecretsListed ==
  ~blind =>
    /\ secrets \subseteq indexFile \union unsaved
    /\ loaded => secrets \subseteq List \union unsaved
=============================================================================
