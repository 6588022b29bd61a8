------------------------------ MODULE Versions ------------------------------
(***************************************************************************)
(* The agent's source code under version control: the git work tree the    *)
(* agent edits, the commits of branch `main`, and the `snapshots` table in *)
(* which the supervisor keeps a status per commit (git_service.py,         *)
(* database/crud.py).  add_snapshot is called at most once per commit,     *)
(* right after it and with the sha of HEAD, so a row is stored with its    *)
(* commit: the position in `commits` is both the sha and the row's age,    *)
(* and status "NONE" is a commit that has no row (yet, or because the      *)
(* supervisor died between `git commit` and the INSERT).                   *)
(*                                                                         *)
(* A version of the whole source tree is one element of Codes.  HEAD is    *)
(* the last commit: nothing in src/ moves the branch backwards (rollback   *)
(* restores files only).  The git index is left out: every status and      *)
(* commit is preceded by `git add .`, and restore sets index and files.    *)
(***************************************************************************)
EXTENDS Naturals, Sequences

CONSTANTS
  Codes,    \* versions of the agent's source tree
  Base      \* the version shipped in the agent's image

ASSUME BaseAssumption == Base \in Codes

VARIABLES
  worktree, \* what is in /hyperagent/agent now
  commits   \* branch main, oldest first, each with its snapshot status

versionVars == <<worktree, commits>>

Statuses == {"NONE", "PENDING", "STABLE", "ERROR"}

CommitRecord == [code : Codes, status : Statuses]

VersionsOK ==
  /\ worktree \in Codes
  /\ commits \in Seq(CommitRecord)

\* HEAD.
Tip == Len(commits)

\* The rows with a status; get_snapshot_by_status returns the latest of them.
Having(status) == {sha \in 1 .. Len(commits) : commits[sha].status = status}

Latest(sha, status) ==
  /\ sha \in Having(status)
  /\ \A other \in Having(status) : other <= sha

\* `git add .` followed by a non-empty `git status --porcelain`; everything
\* is new in a repository without commits.
Dirty == commits = << >> \/ commits[Tip].code # worktree

SetStatus(sha, status) == commits' = [commits EXCEPT ![sha].status = status]

\* Variants (not the code): the previous snapshot is never settled; the latest
\* snapshot is accepted whatever its status.
SettleNothing == UNCHANGED commits
AcceptTip == IF commits = << >> THEN UNCHANGED commits ELSE SetStatus(Tip, "STABLE")

MarkPendingSnapshotStable ==
  IF Having("PENDING") = {}
    THEN UNCHANGED commits
    ELSE \E sha \in Having("PENDING") :
           Latest(sha, "PENDING") /\ SetStatus(sha, "STABLE")

\* `git commit` alone, and the add_snapshot that follows it.
GitCommit == commits' = Append(commits, [code |-> worktree, status |-> "NONE"])

AddSnapshot(status) == SetStatus(Tip, status)

\* `git restore --source sha --staged --worktree .` and `git clean -fd`.
Restore(sha) == worktree' = commits[sha].code

VersionsInit ==
  /\ worktree = Base
  /\ commits = << >>
=============================================================================
