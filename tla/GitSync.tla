------------------------------ MODULE GitSync -------------------------------
(***************************************************************************)
(* The git mirror of the state directory (app/sync/git.go) as              *)
(* SaveWorkspace and SyncNow of cmd/desktop/main.go start it: a goroutine  *)
(* per sync, on a GitSync of its own, so that two of them run git commands *)
(* in the same repository at the same time.  Each git command is one step, *)
(* and may fail: another git holds its lock, the remote cannot be reached, *)
(* the minute is over.  All failures but one end the sync with an error.   *)
(* Only one program writes to the remote.                                  *)
(***************************************************************************)
EXTENDS Naturals

CONSTANTS
  Syncer,      \* goroutines that sync
  MaxVersion   \* bound: how often the directory changes

VARIABLES
  version,    \* the contents of the state directory
  repo,       \* a repository with a remote has been set up
  staged,     \* the version in git's index
  committed,  \* the version of the branch
  remote,     \* the version the remote has, 0: no branch there
  upstream,   \* the branch tracks the remote's
  pc,         \* idle, init, add, status, ahead, commit or push
  base        \* history: the version when the sync began, and what it was told for
              \* its success: "pushed" by push, "clean" when the branch was found to
              \* have nothing to push, "unseen" when that could not be found out

vars == <<version, repo, staged, committed, remote, upstream, pc, base>>

gitVars == <<repo, staged, committed, remote, upstream>>

Init ==
  /\ version = 1 /\ repo = FALSE
  /\ staged = 0 /\ committed = 0 /\ remote = 0 /\ upstream = FALSE
  /\ pc = [s \in Syncer |-> "idle"]
  /\ base = [s \in Syncer |-> [version |-> 0, told |-> "nothing"]]

Goto(s, label) == pc' = [pc EXCEPT ![s] = label]

\* External: a save changes the state directory.
Save ==
  /\ version < MaxVersion
  /\ version' = version + 1
  /\ UNCHANGED <<gitVars, pc, base>>

\* maybeGitSync after a save, SyncNow: settings are read and git is there.
Begin(s) ==
  /\ pc[s] = "idle"
  /\ base' = [base EXCEPT ![s] = [version |-> version, told |-> "nothing"]]
  /\ Goto(s, "init")
  /\ UNCHANGED <<version, gitVars>>

\* A command that fails ends the sync with its error; that of hasUnpushedCommits is
\* not looked at.
Fail(s) ==
  /\ pc[s] \notin {"idle", "ahead"}
  /\ Goto(s, "idle")
  /\ UNCHANGED <<version, gitVars, base>>

\* CommitAndPush: Init is idempotent; add stages everything.
InitRepo(s) ==
  /\ pc[s] = "init"
  /\ repo' = TRUE
  /\ Goto(s, "add")
  /\ UNCHANGED <<version, staged, committed, remote, upstream, base>>

Add(s) ==
  /\ pc[s] = "add"
  /\ staged' = version
  /\ Goto(s, "status")
  /\ UNCHANGED <<version, repo, committed, remote, upstream, base>>

\* A dirty tree is committed; a clean one is looked at for commits that an earlier
\* push has left behind.
Status(s) ==
  /\ pc[s] = "status"
  /\ Goto(s, IF staged = committed /\ version = committed THEN "ahead" ELSE "commit")
  /\ UNCHANGED <<version, gitVars, base>>

\* commit fails when another sync has committed what was staged.
Commit(s) ==
  /\ pc[s] = "commit" /\ staged # committed
  /\ committed' = staged
  /\ Goto(s, "push")
  /\ UNCHANGED <<version, repo, staged, remote, upstream, base>>

\* CommitAndPush returns nil: "git sync: ok".
Finish(s, why) == Goto(s, "idle") /\ base' = [base EXCEPT ![s].told = why]

\* mutant: a clean tree is taken to be pushed
AheadIgnored(s) ==
  /\ pc[s] = "ahead"
  /\ Finish(s, "clean")
  /\ UNCHANGED <<version, gitVars>>
\* hasUnpushedCommits: rev-list counts against the upstream.  It fails without one, and
\* like any other command; each failure is taken for nothing to push.
Ahead(s) ==
  /\ pc[s] = "ahead"
  /\ \/ upstream /\ remote # committed /\ Goto(s, "push") /\ UNCHANGED base
     \/ upstream /\ remote = committed /\ Finish(s, "clean")
     \/ Finish(s, "unseen")
  /\ UNCHANGED <<version, gitVars>>

\* push, with --set-upstream when rev-parse finds no upstream or fails.
Push(s) ==
  /\ pc[s] = "push"
  /\ remote' = committed
  /\ upstream' = TRUE
  /\ Finish(s, "pushed")
  /\ UNCHANGED <<version, repo, staged, committed>>

Next ==
  \/ Save
  \/ \E s \in Syncer :
       \/ Begin(s) \/ Fail(s) \/ InitRepo(s) \/ Add(s) \/ Status(s) \/ Commit(s)
       \/ Ahead(s) \/ Push(s)

Spec == Init /\ [][Next]_vars

-----------------------------------------------------------------------------

\* Everything saved before a sync began is committed when it reports success, and the
\* remote has it, whatever failed before and whichever other sync ran its commands in
\* between; but for one case, in which the code reports success with commits that
\* are not pushed: the tree was clean and the comparison with the upstream failed.
SyncedMeansPushed ==
  \A s \in Syncer :
    pc[s] = "idle" /\ base[s].told # "nothing" =>
      /\ committed >= base[s].version
      /\ base[s].told # "unseen" => remote >= base[s].version
=============================================================================
