----------------------------- MODULE KeptProofs -----------------------------
(***************************************************************************)
(* Proofs about the parts of the program that keep something on disk, each  *)
(* for its own specification and for the composition MCSpec, for any number  *)
(* of plugins, secrets, callers, syncs and updates.                         *)
(***************************************************************************)
EXTENDS MCKept, TLAPS

-----------------------------------------------------------------------------
(* The plugin registry                                                      *)

EntryType == [status : R!Status \cup {"broken"}, trust : {None, "community", "verified"}]

RegistryTypes ==
  /\ state \in [Plugin -> R!Status \cup {None}]
  /\ stateFile \in [Plugin -> R!Status \cup {None}]
  /\ entries \in [Plugin -> EntryType \cup {None}]

(* The status in memory and the one on disk are the user's too: a scan makes  *)
(* entries of the one, a start of the other.                                 *)
StatusInv ==
  \A i \in Plugin :
    /\ state[i] # None /\ state[i] = "enabled" => i \in approved
    /\ stateFile[i] # None /\ stateFile[i] = "enabled" => i \in approved

RegistryInv == RegistryTypes /\ StatusInv /\ R!EnabledByUser

(* An empty registry over any folder.                                        *)
LEMMA RegistryInit == R!Init => RegistryInv
BY DEF R!Init, RegistryInv, RegistryTypes, StatusInv, R!EnabledByUser

(* A scan gives each plugin the status it was given, or makes it disabled or  *)
(* broken.                                                                   *)
LEMMA ScanKeepsStatus ==
  ASSUME NEW s \in [Plugin -> R!Status \cup {None}], NEW t, R!refresh(s, t)
  PROVE  /\ entries' \in [Plugin -> EntryType \cup {None}]
         /\ \A i \in Plugin : entries'[i] # None /\ entries'[i].status = "enabled"
                               => s[i] # None /\ s[i] = "enabled"
<1>1. ASSUME NEW i \in Plugin
      PROVE  /\ R!loadOne(i, s, t) \in EntryType
             /\ R!loadOne(i, s, t).status = "enabled" => s[i] # None /\ s[i] = "enabled"
  BY DEF R!loadOne, R!Verify, R!Broken, R!Entry, EntryType, R!Status
<1> QED
  BY <1>1 DEF R!refresh

(* Every step of the registry keeps the invariant.                           *)
LEMMA RegistryStep == RegistryInv /\ R!Next => RegistryInv'
<1> SUFFICES ASSUME RegistryInv, R!Next
             PROVE  RegistryInv'
  OBVIOUS
<1>a. RegistryTypes /\ StatusInv /\ R!EnabledByUser
  BY DEF RegistryInv
<1> USE DEF RegistryInv, RegistryTypes, StatusInv, R!EnabledByUser, R!dirs, R!files
<1>1. CASE R!Open
  <2>1. R!refresh(stateFile, trustFile)
    BY <1>1 DEF R!Open
  <2> QED
    BY <1>1, <1>a, <2>1, ScanKeepsStatus DEF R!Open
<1>2. CASE R!Refresh
  <2>1. R!refresh(state, trust)
    BY <1>2 DEF R!Refresh
  <2> QED
    BY <1>2, <1>a, <2>1, ScanKeepsStatus DEF R!Refresh
<1>3. CASE R!Exit
  BY <1>3, <1>a DEF R!Exit
<1>4. ASSUME NEW t, R!SetTrust(t)
      PROVE  RegistryInv'
  <2>1. CASE R!refresh(state, t)
    BY <1>4, <1>a, <2>1, ScanKeepsStatus DEF R!SetTrust
  <2>2. CASE UNCHANGED entries
    BY <1>4, <1>a, <2>2 DEF R!SetTrust
  <2> QED
    BY <1>4, <2>1, <2>2 DEF R!SetTrust
<1>5. ASSUME NEW i \in Plugin, R!Forget(i)
      PROVE  RegistryInv'
  BY <1>5, <1>a DEF R!Forget
<1>6. ASSUME NEW i \in Plugin, NEW s \in R!Status, R!SetStatus(i, s)
      PROVE  RegistryInv'
  <2>1. entries[i] \in EntryType
    BY <1>6, <1>a DEF R!SetStatus
  <2>2. [entries[i] EXCEPT !.status = s] \in EntryType
        /\ [entries[i] EXCEPT !.status = s].status = s
    BY <2>1 DEF EntryType
  <2>3. state' \in [Plugin -> R!Status \cup {None}]
        /\ stateFile' \in [Plugin -> R!Status \cup {None}]
        /\ entries' \in [Plugin -> EntryType \cup {None}]
    BY <1>6, <1>a, <2>2 DEF R!SetStatus
  <2>4. StatusInv'
    BY <1>6, <1>a DEF R!SetStatus
  <2>5. R!EnabledByUser'
    BY <1>6, <1>a, <2>2 DEF R!SetStatus
  <2> QED
    BY <2>3, <2>4, <2>5
<1>7. ASSUME NEW n \in Installer, NEW i \in Plugin, NEW c \in R!Content,
             R!InstallStaged(n, i, c)
      PROVE  RegistryInv'
  BY <1>7, <1>a DEF R!InstallStaged
<1>8. ASSUME NEW n \in Installer, R!InstallArchive(n) \/ R!InstallSwap(n) \/ R!InstallDrop(n)
      PROVE  RegistryInv'
  BY <1>8, <1>a DEF R!InstallArchive, R!InstallSwap, R!InstallDrop
<1>9. ASSUME NEW n \in Installer, R!InstallDone(n)
      PROVE  RegistryInv'
  <2>1. R!refresh(state, trust)
    BY <1>9 DEF R!InstallDone
  <2> QED
    BY <1>9, <1>a, <2>1, ScanKeepsStatus DEF R!InstallDone
<1> QED
  BY <1>1, <1>2, <1>3, <1>4, <1>5, <1>6, <1>7, <1>8, <1>9
     DEF R!Next, R!SetPolicy, R!AddTrustedKey, R!RemoveTrustedKey

(* A plugin is enabled only if the user enabled it and did not take that     *)
(* back: not by Install, by a scan, by a failed save or by a restart.         *)
THEOREM RegistryEnabledByUser == R!Spec => []R!EnabledByUser
<1>1. RegistryInv /\ UNCHANGED R!vars => RegistryInv'
  BY DEF R!vars, RegistryInv, RegistryTypes, StatusInv, R!EnabledByUser
<1>2. RegistryInv => R!EnabledByUser
  BY DEF RegistryInv
<1> QED
  BY <1>1, <1>2, RegistryInit, RegistryStep, PTL DEF R!Spec

-----------------------------------------------------------------------------
(* The encrypted credential file                                            *)

VaultInv ==
  /\ file \in V!Vault \cup {None}
  /\ vault \in V!Vault \cup {None}
  /\ stored \in [Secret -> SUBSET (Value \cup {None})]
  /\ V!SecretsKept

(* No file, locked.                                                          *)
LEMMA VaultInit == V!Init => VaultInv
BY DEF V!Init, VaultInv, V!SecretsKept, V!Resolve

(* What a Put or a Delete does: the entry changes in memory, the file gets    *)
(* the memory or stays, and what the id may hold follows.                    *)
LEMMA VaultSave ==
  ASSUME VaultInv, NEW i \in Secret, NEW v \in Value \cup {None}, vault # None,
         vault' = [vault EXCEPT !.entries[i] = v], V!saveLocked(i, v)
  PROVE  VaultInv'
<1>1. vault \in V!Vault
  BY DEF VaultInv
<1>2. vault' \in V!Vault /\ vault'.entries = [vault.entries EXCEPT ![i] = v]
  BY <1>1 DEF V!Vault
<1>3. vault' # None
  BY <1>2, KeptAssumption
<1>4. file' \in V!Vault \cup {None} /\ stored' \in [Secret -> SUBSET (Value \cup {None})]
  BY <1>2 DEF VaultInv, V!saveLocked
<1>5. ASSUME NEW j \in Secret
      PROVE  vault'.entries[j] \in stored'[j]
  BY <1>1, <1>2 DEF VaultInv, V!saveLocked, V!SecretsKept, V!Resolve, V!Vault
<1>6. ASSUME NEW j \in Secret
      PROVE  (IF file' = None THEN None ELSE file'.entries[j]) \in stored'[j]
  <2>1. CASE file' = vault'
    BY <1>3, <1>5, <2>1
  <2>2. CASE file' = file /\ stored' = [stored EXCEPT ![i] = @ \cup {v}]
    BY <2>2 DEF VaultInv, V!SecretsKept
  <2> QED
    BY <2>1, <2>2 DEF V!saveLocked
<1> QED
  BY <1>2, <1>4, <1>5, <1>6 DEF VaultInv, V!SecretsKept, V!Resolve

(* Every step of the provider keeps the invariant.                           *)
LEMMA VaultStep == VaultInv /\ V!Next => VaultInv'
<1> SUFFICES ASSUME VaultInv, V!Next
             PROVE  VaultInv'
  OBVIOUS
<1>1. CASE V!Lock
  BY <1>1 DEF V!Lock, VaultInv, V!SecretsKept, V!Resolve
<1>2. ASSUME NEW p \in Pass, V!Unlock(p)
      PROVE  VaultInv'
  <2> DEFINE new == [pass |-> p, entries |-> V!Empty]
  <2>1. new \in V!Vault /\ \A i \in Secret : new.entries[i] = None
    BY DEF V!Vault, V!Empty
  <2>2. CASE file = None /\ vault' = new
    BY <1>2, <2>1, <2>2 DEF V!Unlock, VaultInv, V!SecretsKept, V!Resolve
  <2>3. CASE file # None /\ vault' = file
    BY <1>2, <2>3 DEF V!Unlock, VaultInv, V!SecretsKept, V!Resolve
  <2>4. CASE UNCHANGED vault
    BY <1>2, <2>4 DEF V!Unlock, VaultInv, V!SecretsKept, V!Resolve
  <2> QED
    BY <1>2, <2>2, <2>3, <2>4 DEF V!Unlock
<1>3. ASSUME NEW i \in Secret, NEW v \in Value, V!Put(i, v)
      PROVE  VaultInv'
  BY <1>3, VaultSave DEF V!Put
<1>4. ASSUME NEW i \in Secret, V!Delete(i)
      PROVE  VaultInv'
  BY <1>4, VaultSave DEF V!Delete
<1> QED
  BY <1>1, <1>2, <1>3, <1>4 DEF V!Next

(* A secret that was stored is found again, whatever passphrases are tried    *)
(* and whichever saves fail.                                                 *)
THEOREM FileVaultKeepsSecrets == V!Spec => []V!SecretsKept
<1>1. VaultInv /\ UNCHANGED V!vars => VaultInv'
  BY DEF V!vars, VaultInv, V!SecretsKept, V!Resolve
<1>2. VaultInv => V!SecretsKept
  BY DEF VaultInv
<1> QED
  BY <1>1, <1>2, VaultInit, VaultStep, PTL DEF V!Spec

-----------------------------------------------------------------------------
(* The keychain                                                             *)

KeychainInv == loaded \in BOOLEAN /\ blind \in BOOLEAN /\ K!SecretsListed

(* An empty keychain.                                                        *)
LEMMA KeychainInit == K!Init => KeychainInv
BY DEF K!Init, KeychainInv, K!SecretsListed, K!List

(* Every step of the provider keeps the secrets listed.                      *)
LEMMA KeychainStep == KeychainInv /\ K!Next => KeychainInv'
<1> SUFFICES ASSUME KeychainInv, K!Next
             PROVE  KeychainInv'
  OBVIOUS
<1> USE DEF KeychainInv, K!SecretsListed, K!List
<1>1. CASE K!Unlock \/ K!Lock
  BY <1>1 DEF K!Unlock, K!Lock
<1>2. ASSUME NEW i \in Secret, K!Put(i)
      PROVE  KeychainInv'
  BY <1>2 DEF K!Put, K!persistLocked
<1>3. ASSUME NEW i \in Secret, K!Delete(i)
      PROVE  KeychainInv'
  <2>1. secrets' = secrets \ {i} /\ index' = index \ {i} /\ loaded' = loaded
    BY <1>3 DEF K!Delete
  <2>2. CASE indexFile' = index' /\ blind' = (blind \/ ~loaded) /\ unsaved' = unsaved \ index'
    BY <2>1, <2>2
  <2>3. CASE UNCHANGED <<indexFile, blind>> /\ unsaved' = unsaved \cup {}
    BY <2>1, <2>3
  <2> QED
    BY <1>3, <2>2, <2>3 DEF K!Delete, K!persistLocked
<1> QED
  BY <1>1, <1>2, <1>3 DEF K!Next

(* Unless something was stored before the index was loaded, no secret is      *)
(* orphaned.                                                                 *)
THEOREM KeychainListsSecrets == K!Spec => []K!SecretsListed
<1>1. KeychainInv /\ UNCHANGED K!vars => KeychainInv'
  BY DEF K!vars, KeychainInv, K!SecretsListed, K!List
<1>2. KeychainInv => K!SecretsListed
  BY DEF KeychainInv
<1> QED
  BY <1>1, <1>2, KeychainInit, KeychainStep, PTL DEF K!Spec

-----------------------------------------------------------------------------
(* Session tokens                                                           *)

TokenTypes ==
  /\ provider \in {"1password", "bitwarden"}
  /\ token \in Nat /\ issued \in Nat
  /\ at \in [Client -> {"idle", "store", "signout", "read"}]
  /\ env \in [Client -> Nat]
  /\ held \in SUBSET Nat /\ retired \in SUBSET Nat
  /\ due \in [Client -> SUBSET Nat] /\ before \in [Client -> SUBSET Nat]

(* The tool numbers its sessions, so a token an Unlock is about to store is   *)
(* its own and has never been held: a Lock, which retires only tokens that    *)
(* were held when it began, cannot have retired it.                          *)
Numbered ==
  /\ \A t \in held : 1 <= t /\ t <= issued
  /\ retired \subseteq held
  /\ \A c \in Client : due[c] \subseteq held
  /\ \A c \in Client :
       at[c] = "store" => 1 <= env[c] /\ env[c] <= issued /\ env[c] \notin held
  /\ \A c, d \in Client : c # d /\ at[c] = "store" /\ at[d] = "store" => env[c] # env[d]
  /\ provider = "bitwarden" => \A c \in Client : at[c] \in {"idle", "read"}

TokenInv == TokenTypes /\ Numbered /\ T!TokensForgotten

(* No session.                                                               *)
LEMMA TokenInit == T!Init => TokenInv
BY DEF T!Init, TokenInv, TokenTypes, Numbered, T!TokensForgotten

(* Every step of either provider keeps the invariant.                        *)
LEMMA TokenStep == TokenInv /\ T!Next => TokenInv'
<1> SUFFICES ASSUME TokenInv, T!Next
             PROVE  TokenInv'
  OBVIOUS
<1>a. TokenTypes /\ Numbered /\ T!TokensForgotten
  BY DEF TokenInv
<1> USE DEF TokenInv, TokenTypes, Numbered, T!TokensForgotten, T!Goes, T!Returns,
            T!callVars, T!histories
<1>1. ASSUME NEW c \in Client, T!UnlockRun(c)
      PROVE  TokenInv'
  BY <1>1, <1>a DEF T!UnlockRun, T!Opened
<1>2. ASSUME NEW c \in Client, T!UnlockStore(c)
      PROVE  TokenInv'
  BY <1>2, <1>a DEF T!UnlockStore
<1>3. ASSUME NEW c \in Client, T!LockRun(c)
      PROVE  TokenInv'
  BY <1>3, <1>a DEF T!LockRun, T!runOp
<1>4. ASSUME NEW c \in Client, T!LockClear(c)
      PROVE  TokenInv'
  <2>1. provider = "1password" /\ provider' = provider
    BY <1>4, <1>a DEF T!LockClear
  <2>2. TokenTypes'
    BY <1>4, <1>a DEF T!LockClear
  <2>3. Numbered'
    BY <1>4, <1>a, <2>1 DEF T!LockClear
  <2>4. 0 \notin retired'
    BY <1>4, <1>a DEF T!LockClear
  <2>5. T!TokensForgotten'
    BY <1>4, <1>a, <2>1, <2>4 DEF T!LockClear
  <2> QED
    BY <2>2, <2>3, <2>5
<1>5. ASSUME NEW c \in Client, T!ReadRun(c)
      PROVE  TokenInv'
  BY <1>5, <1>a DEF T!ReadRun, T!runOp
<1>6. ASSUME NEW c \in Client, T!Resolve(c)
      PROVE  TokenInv'
  BY <1>6, <1>a DEF T!Resolve, T!MutexFree
<1>7. ASSUME NEW c \in Client, T!Answered(c)
      PROVE  TokenInv'
  BY <1>7, <1>a DEF T!Answered
<1>8. CASE T!Unlock
  BY <1>8, <1>a DEF T!Unlock, T!MutexFree, T!Opened
<1>9. CASE T!Lock
  BY <1>9, <1>a DEF T!Lock, T!MutexFree
<1>10. CASE T!Expire
  BY <1>10, <1>a DEF T!Expire
<1> QED
  BY <1>1, <1>2, <1>3, <1>4, <1>5, <1>6, <1>7, <1>8, <1>9, <1>10 DEF T!Next

(* A token that was held when a Lock began is out of use once it returned.    *)
THEOREM LockForgetsTokens == T!Spec => []T!TokensForgotten
<1>1. TokenInv /\ UNCHANGED T!vars => TokenInv'
  BY DEF T!vars, TokenInv, TokenTypes, Numbered, T!TokensForgotten
<1>2. TokenInv => T!TokensForgotten
  BY DEF TokenInv
<1> QED
  BY <1>1, <1>2, TokenInit, TokenStep, PTL DEF T!Spec

-----------------------------------------------------------------------------
(* The git mirror                                                           *)

Told == {"nothing", "pushed", "clean", "unseen"}

SyncTypes ==
  /\ version \in Nat /\ staged \in Nat /\ committed \in Nat /\ remote \in Nat
  /\ syncPc \in [Syncer -> {"idle", "init", "add", "status", "ahead", "commit", "push"}]
  /\ synced \in [Syncer -> [version : Nat, told : Told]]

(* The index, the branch and the remote follow the directory in this order   *)
(* and never go back, and a sync that is past a command has in the place the  *)
(* command fills at least what was saved when it began, even if another sync  *)
(* ran that command.                                                         *)
SyncProgress ==
  /\ remote <= committed /\ committed <= staged /\ staged <= version
  /\ \A s \in Syncer :
       /\ synced[s].version <= version
       /\ syncPc[s] # "idle" => synced[s].told = "nothing"
       /\ syncPc[s] \in {"status", "commit"} => synced[s].version <= staged
       /\ syncPc[s] \in {"ahead", "push"} => synced[s].version <= committed

SyncInv == SyncTypes /\ SyncProgress /\ G!SyncedMeansPushed

(* Nothing is staged.                                                        *)
LEMMA SyncInit == G!Init => SyncInv
<1> SUFFICES ASSUME G!Init PROVE SyncInv
  OBVIOUS
<1>1. synced \in [Syncer -> [version : Nat, told : Told]]
  BY DEF G!Init, Told
<1>2. SyncTypes
  BY <1>1 DEF G!Init, SyncTypes
<1>3. SyncProgress /\ G!SyncedMeansPushed
  BY DEF G!Init, SyncProgress, G!SyncedMeansPushed
<1> QED
  BY <1>2, <1>3 DEF SyncInv

(* A sync that has nothing more to do reports what is the case.               *)
LEMMA Finished ==
  ASSUME SyncInv, NEW s \in Syncer, NEW why \in Told \ {"nothing"}, G!Finish(s, why),
         UNCHANGED <<version, staged, committed>>,
         remote' \in {remote, committed},
         committed >= synced[s].version,
         remote' >= synced[s].version \/ why = "unseen"
  PROVE  SyncInv'
<1> USE DEF SyncInv, SyncTypes, SyncProgress, G!SyncedMeansPushed
<1>1. synced' \in [Syncer -> [version : Nat, told : Told]]
  BY DEF G!Finish
<1>2. \A t \in Syncer :
        /\ synced'[t].version = synced[t].version
        /\ synced'[t].told = IF t = s THEN why ELSE synced[t].told
        /\ syncPc'[t] = IF t = s THEN "idle" ELSE syncPc[t]
  BY DEF G!Finish, G!Goto
<1>3. SyncTypes'
  BY <1>1 DEF G!Finish, G!Goto
<1>4. SyncProgress'
  BY <1>2, <1>3
<1>5. G!SyncedMeansPushed'
  BY <1>2, <1>3
<1> QED
  BY <1>3, <1>4, <1>5

(* Every git command keeps the order.                                        *)
LEMMA SyncStep == SyncInv /\ G!Next => SyncInv'
<1> SUFFICES ASSUME SyncInv, G!Next
             PROVE  SyncInv'
  OBVIOUS
<1> USE DEF SyncInv, SyncTypes, SyncProgress, G!SyncedMeansPushed, G!gitVars, G!Goto
<1>1. CASE G!Save
  BY <1>1 DEF G!Save
<1>2. ASSUME NEW s \in Syncer, G!Begin(s)
      PROVE  SyncInv'
  BY <1>2 DEF G!Begin, Told
<1>3. ASSUME NEW s \in Syncer, G!Fail(s)
      PROVE  SyncInv'
  BY <1>3 DEF G!Fail
<1>4. ASSUME NEW s \in Syncer, G!InitRepo(s) \/ G!Add(s) \/ G!Status(s)
      PROVE  SyncInv'
  BY <1>4 DEF G!InitRepo, G!Add, G!Status
<1>5. ASSUME NEW s \in Syncer, G!Commit(s)
      PROVE  SyncInv'
  BY <1>5 DEF G!Commit
<1>6. ASSUME NEW s \in Syncer, G!Ahead(s)
      PROVE  SyncInv'
  <2>1. CASE UNCHANGED synced /\ G!Goto(s, "push")
    BY <1>6, <2>1 DEF G!Ahead
  <2>2. ASSUME NEW why \in {"clean", "unseen"}, G!Finish(s, why),
               why = "clean" => remote = committed
        PROVE  SyncInv'
    <3>1. remote >= synced[s].version \/ why = "unseen"
      BY <1>6, <2>2 DEF G!Ahead
    <3>2. committed >= synced[s].version
      BY <1>6 DEF G!Ahead
    <3>3. UNCHANGED <<version, staged, committed, remote, upstream>>
      BY <1>6 DEF G!Ahead
    <3>4. why \in Told \ {"nothing"}
      BY <2>2 DEF Told
    <3> HIDE DEF SyncInv, G!Goto
    <3> QED
      BY <2>2, <3>1, <3>2, <3>3, <3>4, Finished
  <2> QED
    BY <1>6, <2>1, <2>2 DEF G!Ahead
<1>7. ASSUME NEW s \in Syncer, G!Push(s)
      PROVE  SyncInv'
  <2>1. committed >= synced[s].version /\ remote' = committed
        /\ UNCHANGED <<version, staged, committed>> /\ G!Finish(s, "pushed")
    BY <1>7 DEF G!Push
  <2>2. "pushed" \in Told \ {"nothing"}
    BY DEF Told
  <2> HIDE DEF SyncInv, G!Goto
  <2> QED
    BY <2>1, <2>2, Finished
<1> QED
  BY <1>1, <1>2, <1>3, <1>4, <1>5, <1>6, <1>7 DEF G!Next

(* What was saved before a sync that reports success is committed, and pushed  *)
(* unless the comparison with the upstream failed, whichever syncs overlap    *)
(* and whatever else failed.                                                 *)
THEOREM SyncReportsPush == G!Spec => []G!SyncedMeansPushed
<1>1. SyncInv /\ UNCHANGED G!vars => SyncInv'
  BY DEF G!vars, SyncInv, SyncTypes, SyncProgress, G!SyncedMeansPushed
<1>2. SyncInv => G!SyncedMeansPushed
  BY DEF SyncInv
<1> QED
  BY <1>1, <1>2, SyncInit, SyncStep, PTL DEF G!Spec

-----------------------------------------------------------------------------
(* The self-update                                                          *)

UpdateTypes ==
  /\ os \in {"unix", "windows"}
  /\ vouched \subseteq Builds
  /\ updatePc \in [Updater -> {"idle", "ask", "fetch", "load", "aside", "move", "back"}]
  /\ target \in [Updater -> U!Manifests \cup {None}]
  /\ down \in [Updater -> Builds \cup {None}]
  /\ running \in [version : Builds \cup {None}, place : {"exe", "old", "gone"}]
  /\ killed \in BOOLEAN

(* An update past the download has a build that is vouched for; the running   *)
(* file is where its place says, so while the executable is missing it is the *)
(* running file that lies beside it, where Windows lets nobody remove it; and *)
(* on Unix the executable is never missing.                                  *)
SwapInv ==
  /\ \A u \in Updater :
       /\ updatePc[u] \in {"fetch", "load"} => target[u] \in U!Manifests
       /\ updatePc[u] = "load" => target[u].version \in vouched
       /\ updatePc[u] \in {"aside", "move", "back"} => down[u] \in vouched
  /\ running.place = "exe" => exe # None
  /\ running.place = "old" => aside # None
  /\ os = "unix" => exe # None

UpdateInv == UpdateTypes /\ SwapInv /\ U!ExecutableKept

(* The first build is in place and runs.                                     *)
LEMMA UpdateInit == U!Init => UpdateInv
<1> SUFFICES ASSUME U!Init PROVE UpdateInv
  OBVIOUS
<1>1. First \in Builds /\ First # None
  BY KeptAssumption DEF First, Builds
<1>2. UpdateTypes
  BY <1>1 DEF U!Init, UpdateTypes, U!Process
<1>3. SwapInv /\ U!ExecutableKept
  BY <1>1 DEF U!Init, SwapInv, U!ExecutableKept, U!Process
<1> QED
  BY <1>2, <1>3 DEF UpdateInv

(* Every step of an update, of the process and of the next start keeps an     *)
(* executable.                                                               *)
LEMMA UpdateStep == UpdateInv /\ U!Next => UpdateInv'
<1> SUFFICES ASSUME UpdateInv, U!Next
             PROVE  UpdateInv'
  OBVIOUS
<1>a. None \notin vouched
  BY KeptAssumption DEF UpdateInv, UpdateTypes
<1> USE DEF UpdateInv, UpdateTypes, SwapInv, U!ExecutableKept, U!Goes, U!Alive
<1>1. ASSUME NEW u \in Updater, NEW m \in U!Manifests, U!CheckForUpdate(u, m)
      PROVE  UpdateInv'
  BY <1>1 DEF U!CheckForUpdate
<1>2. ASSUME NEW u \in Updater, NEW m \in U!Manifests, U!FetchManifest(u, m)
      PROVE  UpdateInv'
  BY <1>2 DEF U!FetchManifest
<1>3. ASSUME NEW u \in Updater, U!GiveUp(u)
      PROVE  UpdateInv'
  BY <1>3 DEF U!GiveUp, U!Returns
<1>4. ASSUME NEW u \in Updater, U!VerifySignature(u)
      PROVE  UpdateInv'
  BY <1>4 DEF U!VerifySignature, U!Manifests
<1>5. ASSUME NEW u \in Updater, U!Download(u)
      PROVE  UpdateInv'
  BY <1>5 DEF U!Download
<1>6. ASSUME NEW u \in Updater, U!UnixSwap(u)
      PROVE  UpdateInv'
  BY <1>6, <1>a DEF U!UnixSwap, U!Returns
<1>7. ASSUME NEW u \in Updater, U!WindowsAside(u)
      PROVE  UpdateInv'
  <2>1. os = "windows" /\ running.place \in {"exe", "old"} /\ updatePc[u] = "aside"
        /\ UNCHANGED <<os, killed, vouched>>
    BY <1>7 DEF U!WindowsAside
  <2>2. CASE /\ exe # None /\ (IF running.place = "old" THEN aside ELSE None) = None
             /\ aside' = exe /\ exe' = None
             /\ running' = [running EXCEPT !.place = U!Moved("exe")]
             /\ updatePc' = [updatePc EXCEPT ![u] = "move"] /\ UNCHANGED <<target, down>>
    <3>1. running.place = "exe"
      BY <2>1, <2>2
    <3>2. running' \in [version : Builds \cup {None}, place : {"exe", "old", "gone"}]
          /\ running'.place = "old"
      BY <2>2, <3>1 DEF U!Moved
    <3> QED
      BY <2>1, <2>2, <3>2
  <2>3. CASE /\ aside' = (IF running.place = "old" THEN aside ELSE None)
             /\ UNCHANGED <<exe, running>> /\ U!Returns(u)
    BY <2>1, <2>3 DEF U!Returns
  <2> QED
    BY <1>7, <2>2, <2>3 DEF U!WindowsAside
<1>8. ASSUME NEW u \in Updater, U!WindowsMove(u)
      PROVE  UpdateInv'
  BY <1>8, <1>a DEF U!WindowsMove, U!Returns
<1>9. ASSUME NEW u \in Updater, U!WindowsBack(u)
      PROVE  UpdateInv'
  BY <1>9, <1>a DEF U!WindowsBack, U!Returns, U!Moved
<1>10. CASE U!Exit
  <2>1. exe = None => killed'
    BY <1>10 DEF U!Exit
  <2>2. killed' \in BOOLEAN
    BY <1>10 DEF U!Exit
  <2>3. updatePc' = [u \in Updater |-> "idle"] /\ target' = [u \in Updater |-> None]
        /\ down' = [u \in Updater |-> None]
        /\ running' = [version |-> None, place |-> "gone"]
        /\ UNCHANGED <<os, exe, aside, vouched>>
    BY <1>10 DEF U!Exit, U!Process
  <2> QED
    BY <2>1, <2>2, <2>3
<1>11. CASE U!CleanupOld
  BY <1>11 DEF U!CleanupOld, U!Process
<1> QED
  BY <1>1, <1>2, <1>3, <1>4, <1>5, <1>6, <1>7, <1>8, <1>9, <1>10, <1>11 DEF U!Next

(* Whatever fails and whenever the process dies, a vouched-for build is in    *)
(* place, or beside it while a swap is between its renames.                  *)
THEOREM UpdateKeepsExecutable == U!Spec => []U!ExecutableKept
<1>1. UpdateInv /\ UNCHANGED U!vars => UpdateInv'
  BY DEF U!vars, UpdateInv, UpdateTypes, SwapInv, U!ExecutableKept
<1>2. UpdateInv => U!ExecutableKept
  BY DEF UpdateInv
<1> QED
  BY <1>1, <1>2, UpdateInit, UpdateStep, PTL DEF U!Spec

-----------------------------------------------------------------------------
(* The composition                                                          *)

PartsInv ==
  /\ part = "registry" => RegistryInv
  /\ part = "vault" => VaultInv
  /\ part = "keychain" => KeychainInv
  /\ part = "tokens" => TokenInv
  /\ part = "git" => SyncInv
  /\ part = "updater" => UpdateInv

(* The part that runs in a behaviour keeps its own invariant.                *)
THEOREM KeptInvariant == MCSpec => []PartsInv
<1> DEFINE all == <<vars, registryVars, vaultVars, keychainVars, tokenVars, gitVars,
                    updaterVars, part>>
<1>1. MCInit => PartsInv
  BY RegistryInit, VaultInit, KeychainInit, TokenInit, SyncInit, UpdateInit
     DEF MCInit, PartsInv
<1>2. PartsInv /\ MCNext => PartsInv'
  BY RegistryStep, VaultStep, KeychainStep, TokenStep, SyncStep, UpdateStep
     DEF MCNext, PartsInv
<1>3. PartsInv /\ UNCHANGED all => PartsInv'
  <2> SUFFICES ASSUME PartsInv, UNCHANGED all
               PROVE  PartsInv'
    OBVIOUS
  <2>1. part = "registry" /\ RegistryInv => RegistryInv'
    BY DEF registryVars, RegistryInv, RegistryTypes, StatusInv, R!EnabledByUser
  <2>2. part = "vault" /\ VaultInv => VaultInv'
    BY DEF vaultVars, VaultInv, V!SecretsKept, V!Resolve
  <2>3. part = "keychain" /\ KeychainInv => KeychainInv'
    BY DEF keychainVars, KeychainInv, K!SecretsListed, K!List
  <2>4. part = "tokens" /\ TokenInv => TokenInv'
    BY DEF tokenVars, TokenInv, TokenTypes, Numbered, T!TokensForgotten
  <2>5. part = "git" /\ SyncInv => SyncInv'
    BY DEF gitVars, SyncInv, SyncTypes, SyncProgress, G!SyncedMeansPushed
  <2>6. part = "updater" /\ UpdateInv => UpdateInv'
    BY DEF updaterVars, UpdateInv, UpdateTypes, SwapInv, U!ExecutableKept
  <2> QED
    BY <2>1, <2>2, <2>3, <2>4, <2>5, <2>6 DEF PartsInv
<1> QED
  BY <1>1, <1>2, <1>3, PTL DEF MCSpec

(* The plugin folder, for the composition: see RegistryEnabledByUser.        *)
THEOREM KeptEnabledByUser == MCSpec => []EnabledByUser
<1>1. PartsInv => EnabledByUser
  BY DEF PartsInv, RegistryInv, EnabledByUser
<1> QED
  BY <1>1, KeptInvariant, PTL

(* The three vaults, for the composition: a stored secret is kept, listed and *)
(* not given out with a token of before a Lock.                              *)
THEOREM KeptSecrets == MCSpec => []SecretsKept
<1>1. PartsInv => SecretsKept
  BY DEF PartsInv, VaultInv, KeychainInv, TokenInv, SecretsKept
<1> QED
  BY <1>1, KeptInvariant, PTL

(* The git mirror, for the composition: see SyncReportsPush.                 *)
THEOREM KeptSynced == MCSpec => []SyncedMeansPushed
<1>1. PartsInv => SyncedMeansPushed
  BY DEF PartsInv, SyncInv, SyncedMeansPushed
<1> QED
  BY <1>1, KeptInvariant, PTL

(* The executable, for the composition: see UpdateKeepsExecutable.           *)
THEOREM KeptExecutable == MCSpec => []ExecutableKept
<1>1. PartsInv => ExecutableKept
  BY DEF PartsInv, UpdateInv, ExecutableKept
<1> QED
  BY <1>1, KeptInvariant, PTL
=============================================================================
