------------------------------ MODULE Registry ------------------------------
(***************************************************************************)
(* The registry of out-of-process plugins (app/extplugin/registry.go), the *)
(* trust policy it applies (sdk/plugin/trust.go), the marketplace's        *)
(* Install (app/marketplace/marketplace.go) and the Plugins dialog that    *)
(* drives them (cmd/desktop/plugins_dialog.go).                            *)
(*                                                                         *)
(* The dialog calls the registry on the UI goroutine, one call at a time;  *)
(* an Install runs in a goroutine of its own and works on the directories  *)
(* without the registry's lock.  Every write of a file may fail, and the   *)
(* program may end between any two steps.  The directories an Install sets *)
(* aside or leaves behind have a name other than the id in their manifest: *)
(* the scan calls them broken, so that they never matter for an id.        *)
(***************************************************************************)
EXTENDS FiniteSets

CONSTANTS
  Id,         \* plugin ids
  Key,        \* publishers' keys
  Installer,  \* Installs that can be under way
  None

Status == {"enabled", "disabled", "quarantined"}

\* What a plugin directory holds: nothing, no manifest, one that is not accepted
\* (not a regular file, not JSON, not valid, another id), an unsigned one, or one
\* signed with a key.
Content == {"absent", "bare", "invalid", "unsigned"} \union Key

VARIABLES
  disk,       \* <root>/<id>/
  old,        \* <root>/<id>.old/
  stateFile,  \* state.json: the status of each id, or None
  trustFile,  \* trusted_keys.json: [policy, keys]
  up,         \* the registry is open
  state,      \* Registry.state
  trust,      \* Registry.trust
  entries,    \* Registry.entries: [status, trust] for each id, or None
  inst,       \* each Install: [pc, id, new], pc is idle, archive, swap, drop or refresh
  approved    \* history: ids the user enabled, and did not take that back since

vars == <<disk, old, stateFile, trustFile, up, state, trust, entries, inst, approved>>

dirs == <<disk, old>>
files == <<stateFile, trustFile>>

Entry(s, t) == [status |-> s, trust |-> t]
Broken == Entry("broken", None)
Idle == [pc |-> "idle", id |-> None, new |-> None]

Init ==
  /\ disk \in [Id -> Content] /\ old = [i \in Id |-> "absent"]
  /\ stateFile = [i \in Id |-> None]
  /\ trustFile = [policy |-> "permissive", keys |-> {}]
  /\ up = FALSE
  /\ state = stateFile /\ trust = trustFile
  /\ entries = [i \in Id |-> None]
  /\ inst = [n \in Installer |-> Idle]
  /\ approved = {}

-----------------------------------------------------------------------------
(* Discovery                                                                *)

\* Verifier.Verify: the trust level of a manifest, or None when it is rejected.
Verify(c, t) ==
  CASE c = "unsigned" -> IF t.policy = "strict" THEN None ELSE "community"
    [] c \in t.keys -> "verified"
    [] OTHER -> None

\* loadOneLocked.
\* mutant: a plugin without a persisted status is enabled
loadOneEager(i, s, t) ==
  LET level == IF disk[i] = "invalid" THEN None ELSE Verify(disk[i], t) IN
  IF level = None THEN Broken ELSE Entry(IF s[i] = None THEN "enabled" ELSE s[i], level)
loadOne(i, s, t) ==
  LET level == IF disk[i] = "invalid" THEN None ELSE Verify(disk[i], t) IN
  IF level = None THEN Broken ELSE Entry(IF s[i] = None THEN "disabled" ELSE s[i], level)

\* refreshLocked: a directory without a manifest is skipped.
refresh(s, t) ==
  entries' = [i \in Id |-> IF disk[i] \in {"absent", "bare"} THEN None ELSE loadOne(i, s, t)]

\* Open: both files, then the scan.
Open ==
  /\ ~up
  /\ up' = TRUE
  /\ state' = stateFile /\ trust' = trustFile
  /\ refresh(stateFile, trustFile)
  /\ UNCHANGED <<dirs, files, inst, approved>>

Refresh ==
  /\ up
  /\ refresh(state, trust)
  /\ UNCHANGED <<dirs, files, up, state, trust, inst, approved>>

-----------------------------------------------------------------------------
(* The trust policy                                                         *)

\* The change is made in memory; only when it is saved are the plugins scanned again.
SetTrust(t) ==
  /\ up
  /\ trust' = t
  /\ \/ trustFile' = t /\ refresh(state, t)
     \/ UNCHANGED <<trustFile, entries>>
  /\ UNCHANGED <<dirs, stateFile, up, state, inst, approved>>

SetPolicy(p) == SetTrust([trust EXCEPT !.policy = p])
AddTrustedKey(k) == SetTrust([trust EXCEPT !.keys = @ \union {k}])
RemoveTrustedKey(k) == SetTrust([trust EXCEPT !.keys = @ \ {k}])

-----------------------------------------------------------------------------
(* The status of a plugin                                                   *)

\* The dialog's buttons; Enable asks first for a plugin that is not verified, and is
\* off for a broken one.  A status whose save fails stays in memory.
SetStatus(i, s) ==
  /\ up /\ entries[i] # None
  /\ s = "enabled" => entries[i].status # "broken"
  /\ state' = [state EXCEPT ![i] = s]
  /\ \/ /\ stateFile' = state'
        /\ entries' = IF entries[i].status = "broken" THEN entries
                                                      ELSE [entries EXCEPT ![i].status = s]
        /\ approved' = IF s = "enabled" THEN approved \union {i} ELSE approved \ {i}
     \/ /\ UNCHANGED <<stateFile, entries>>
        /\ approved' = IF s = "enabled" THEN approved \union {i} ELSE approved
  /\ UNCHANGED <<dirs, trustFile, up, trust, inst>>

\* Forget: the status and the entry, then the directory, which may fail to go.
Forget(i) ==
  /\ up /\ entries[i] # None
  /\ state' = [state EXCEPT ![i] = None]
  /\ entries' = [entries EXCEPT ![i] = None]
  /\ \/ /\ stateFile' = state'
        /\ approved' = approved \ {i}
        /\ disk' \in {disk, [disk EXCEPT ![i] = "absent"]}
     \/ UNCHANGED <<stateFile, approved, disk>>
  /\ UNCHANGED <<old, trustFile, up, trust, inst>>

-----------------------------------------------------------------------------
(* Install                                                                  *)

\* The listing and the URL are accepted, the download has the promised digest, and
\* payload and manifest are staged; a manifest with unknown fields is let through
\* here and rejected by the scan.  A failure up to here only removes the stage.
InstallStaged(n, i, c) ==
  /\ up /\ inst[n].pc = "idle" /\ c # "absent"
  /\ inst' = [inst EXCEPT ![n] = [pc |-> "archive", id |-> i, new |-> c]]
  /\ UNCHANGED <<dirs, files, up, state, trust, entries, approved>>

\* The plugin that is there is moved aside, over what an earlier Install left there,
\* which is gone also when the move fails.
InstallArchive(n) ==
  LET i == inst[n].id IN
  /\ inst[n].pc = "archive"
  /\ \/ /\ IF disk[i] = "absent"
           THEN UNCHANGED dirs
           ELSE disk' = [disk EXCEPT ![i] = "absent"] /\ old' = [old EXCEPT ![i] = disk[i]]
        /\ inst' = [inst EXCEPT ![n].pc = "swap"]
     \/ /\ disk[i] # "absent"
        /\ old' = [old EXCEPT ![i] = "absent"]
        /\ inst' = [inst EXCEPT ![n] = Idle]
        /\ UNCHANGED disk
  /\ UNCHANGED <<files, up, state, trust, entries, approved>>

\* The stage becomes the plugin; the rename fails when another Install was faster, or
\* for a reason of its own, and then what was moved aside is put back.
InstallSwap(n) ==
  LET i == inst[n].id IN
  /\ inst[n].pc = "swap"
  /\ \/ /\ disk[i] = "absent"
        /\ disk' = [disk EXCEPT ![i] = inst[n].new]
        /\ inst' = [inst EXCEPT ![n].pc = "drop"]
        /\ UNCHANGED old
     \/ /\ IF disk[i] = "absent"
           THEN disk' = [disk EXCEPT ![i] = old[i]] /\ old' = [old EXCEPT ![i] = "absent"]
           ELSE UNCHANGED dirs
        /\ inst' = [inst EXCEPT ![n] = Idle]
  /\ UNCHANGED <<files, up, state, trust, entries, approved>>

InstallDrop(n) ==
  /\ inst[n].pc = "drop"
  /\ old' = [old EXCEPT ![inst[n].id] = "absent"]
  /\ inst' = [inst EXCEPT ![n].pc = "refresh"]
  /\ UNCHANGED <<disk, files, up, state, trust, entries, approved>>

\* The dialog's answer to an Install that went well.
InstallDone(n) ==
  /\ inst[n].pc = "refresh"
  /\ refresh(state, trust)
  /\ inst' = [inst EXCEPT ![n] = Idle]
  /\ UNCHANGED <<dirs, files, up, state, trust, approved>>

\* External: the program ends, an Install under way with it; the user replaces or
\* removes a plugin folder.
Exit ==
  /\ up
  /\ up' = FALSE
  /\ state' = [i \in Id |-> None] /\ entries' = [i \in Id |-> None]
  /\ trust' = [policy |-> "permissive", keys |-> {}]
  /\ inst' = [n \in Installer |-> Idle]
  /\ UNCHANGED <<dirs, files, approved>>

Next ==
  \/ Open \/ Refresh \/ Exit
  \/ \E p \in {"permissive", "strict"} : SetPolicy(p)
  \/ \E k \in Key : AddTrustedKey(k) \/ RemoveTrustedKey(k)
  \/ \E i \in Id : Forget(i) \/ \E s \in Status : SetStatus(i, s)
  \/ \E n \in Installer :
       \/ \E i \in Id, c \in Content : InstallStaged(n, i, c)
       \/ InstallArchive(n) \/ InstallSwap(n) \/ InstallDrop(n) \/ InstallDone(n)

Spec == Init /\ [][Next]_vars

-----------------------------------------------------------------------------

\* A plugin the registry calls enabled is one the user asked to enable, and has not
\* since disabled, quarantined or uninstalled with success: not one that came with an
\* update, was installed again after Forget, or came back after a failed save or with
\* the next start.
EnabledByUser ==
  \A i \in Id : entries[i] # None /\ entries[i].status = "enabled" => i \in approved
=============================================================================
