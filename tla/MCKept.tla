------------------------------ MODULE MCKept -------------------------------
(* The state that is kept on disk: the inventory with its persister, the      *)
(* plugin folder, the credential vaults, the git checkout and the executable. *)
(* One of them runs in each behaviour (part).  The persister else rests in    *)
(* its initial state; the variables of the other parts are Off.               *)
(*                                                                            *)
(* Persister: two commands, so that one is marked while another changes the   *)
(* tree, one restore, one export at a time and one failing save.  Registry:   *)
(* one plugin and key, an Install beside the dialogs.  Vaults: two secrets;   *)
(* two callers and three sessions of a command line tool.  Git: two syncs at  *)
(* a time.  Updater: two updates at a time, builds whose numbers have         *)
(* different lengths.                                                         *)
EXTENDS Persister, TLC

CONSTANT Off
CONSTANTS Plugin, Key, Installer, None
CONSTANTS Secret, Value, Pass
CONSTANTS Client, MaxTokens
CONSTANTS Syncer, MaxVersion
CONSTANT Updater

Builds == {<<1>>, <<1, 1>>, <<2>>}
First == <<1>>

VARIABLES folder, old, stateFile, trustFile, up, state, trust, entries, inst, approved
registryVars == <<folder, old, stateFile, trustFile, up, state, trust, entries, inst,
                  approved>>
R == INSTANCE Registry WITH Id <- Plugin, disk <- folder

VARIABLES file, vault, stored
vaultVars == <<file, vault, stored>>
V == INSTANCE FileVault WITH Id <- Secret, mem <- vault, want <- stored

VARIABLES secrets, index, indexFile, loaded, blind, unsaved
keychainVars == <<secrets, index, indexFile, loaded, blind, unsaved>>
K == INSTANCE KeychainVault WITH Id <- Secret

VARIABLES provider, token, live, issued, at, env, held, retired, due,
  before
tokenVars == <<provider, token, live, issued, at, env, held, retired, due, before>>
T == INSTANCE TokenVault WITH stored <- held

VARIABLES version, repo, staged, committed, remote, upstream, syncPc, synced
gitVars == <<version, repo, staged, committed, remote, upstream, syncPc, synced>>
G == INSTANCE GitSync WITH pc <- syncPc, base <- synced

VARIABLES os, exe, aside, running, updatePc, target, down, killed, vouched
updaterVars == <<os, exe, aside, running, updatePc, target, down, killed, vouched>>
U == INSTANCE Updater WITH Version <- Builds, old <- aside, pc <- updatePc

\* None is neither the contents of a vault file nor a build.
ASSUME KeptAssumption == None \notin V!Vault /\ None \notin Builds

VARIABLE part

MCInit ==
  /\ part \in {"persister", "registry", "vault", "keychain", "tokens", "git", "updater"}
  /\ Init
  /\ IF part = "registry" THEN R!Init
     ELSE /\ folder = Off /\ old = Off /\ stateFile = Off /\ trustFile = Off /\ up = Off
          /\ state = Off /\ trust = Off /\ entries = Off /\ inst = Off
          /\ approved = Off
  /\ IF part = "vault" THEN V!Init
     ELSE /\ file = Off /\ vault = Off /\ stored = Off
  /\ IF part = "keychain" THEN K!Init
     ELSE /\ secrets = Off /\ index = Off /\ indexFile = Off /\ loaded = Off
          /\ blind = Off /\ unsaved = Off
  /\ IF part = "tokens" THEN T!Init
     ELSE /\ provider = Off /\ token = Off /\ live = Off /\ issued = Off /\ at = Off
          /\ env = Off /\ held = Off /\ retired = Off /\ due = Off /\ before = Off
  /\ IF part = "git" THEN G!Init
     ELSE /\ version = Off /\ repo = Off /\ staged = Off /\ committed = Off
          /\ remote = Off /\ upstream = Off /\ syncPc = Off /\ synced = Off
  /\ IF part = "updater" THEN U!Init
     ELSE /\ os = Off /\ exe = Off /\ aside = Off /\ running = Off /\ updatePc = Off
          /\ target = Off /\ down = Off /\ killed = Off /\ vouched = Off

MCNext ==
  /\ IF part = "persister" THEN Next ELSE UNCHANGED vars
  /\ IF part = "registry" THEN R!Next ELSE UNCHANGED registryVars
  /\ IF part = "vault" THEN V!Next ELSE UNCHANGED vaultVars
  /\ IF part = "keychain" THEN K!Next ELSE UNCHANGED keychainVars
  /\ IF part = "tokens" THEN T!Next ELSE UNCHANGED tokenVars
  /\ IF part = "git" THEN G!Next ELSE UNCHANGED gitVars
  /\ IF part = "updater" THEN U!Next ELSE UNCHANGED updaterVars
  /\ UNCHANGED part

MCSpec ==
  /\ MCInit
  /\ [][MCNext]_<<vars, registryVars, vaultVars, keychainVars, tokenVars, gitVars, updaterVars,
                 part>>

Symmetry == Permutations(Cmd)

-----------------------------------------------------------------------------

\* A plugin that is enabled was enabled by the user.
EnabledByUser == part = "registry" => R!EnabledByUser
\* No vault loses a secret that was stored, or gives one out with a token of before a
\* Lock.
SecretsKept ==
  /\ part = "vault" => V!SecretsKept
  /\ part = "keychain" => K!SecretsListed
  /\ part = "tokens" => T!TokensForgotten
\* A sync that reports success has pushed, unless it could not look.
SyncedMeansPushed == part = "git" => G!SyncedMeansPushed
\* An executable is always there.
ExecutableKept == part = "updater" => U!ExecutableKept
=============================================================================
