---------------------------- MODULE GitWorktree ----------------------------
(***************************************************************************)
(* A Git worktree as the run of a slice sees it: the history, the index    *)
(* and the files; and what PromptGrinder derives from them, the snapshot   *)
(* before a worker and the changes attributed to the worker afterwards.    *)
(*                                                                         *)
(* A path has a content, or none. The history only grows, except by the    *)
(* rollback of a shared run: nobody amends, resets or switches a branch. A *)
(* rename is the removal of one path and the addition of another, as both  *)
(* parsers of the code report it. The run state of old versions that lies  *)
(* in a repository (.promptgrinder/run.json) is left out.                  *)
(***************************************************************************)
EXTENDS PathPolicy, FiniteSets

CONSTANTS
    FirstTree,    \* the content of every path in the first commit
    Workers       \* the workers that may be launched, by identifier

\* What a file holds: what the first commit had, or what somebody wrote.
Contents == {"absent", "base", "user"} \cup Workers

ASSUME TreeAssumption == FirstTree \in [Paths -> {"absent", "base"}]

VARIABLES
    log,      \* the trees of the commits, oldest first
    index,    \* the content of every path in the index
    work      \* the content of every path in the worktree

gitVars == <<log, index, work>>

HEAD == Len(log)
Tree == log[HEAD]

\* The paths that git diff names between two commits.
Between(a, b) == {p \in Paths : log[a][p] # log[b][p]}

Staged == {p \in Paths : index[p] # Tree[p]}

\* The paths that git status --untracked-files=all names.
Dirty == Staged \cup {p \in Paths : work[p] # index[p]}

(* The snapshot.                                                            *)

Entries == [Paths -> Contents \cup {"clean"}]

Capture == [head |-> HEAD, entries |-> [p \in Paths |-> IF p \in Dirty THEN work[p] ELSE "clean"]]

\* Further edits of a dirty path count, and so does what was committed since.
Attributed(before) ==
    {p \in Paths : Capture.entries[p] # before.entries[p]} \cup Between(before.head, HEAD)

\* Reported only if exactly one commit was made, of exactly the approved paths,
\* and nothing is left.
CommitOwnershipConflict(before, approved) ==
    /\ Dirty = {}
    /\ HEAD = before.head + 1
    /\ Between(before.head, HEAD) = approved

(* Git commands.                                                            *)

\* git add --all refuses a path that is neither in the index nor in the worktree.
Addable(paths) == \A p \in paths : index[p] # "absent" \/ work[p] # "absent"

Add(paths) == index' = [p \in Paths |-> IF p \in paths THEN work[p] ELSE index[p]]

Commit ==
    /\ Staged # {}
    /\ log' = Append(log, index)

\* git restore --source=HEAD --staged --worktree
Restore(paths) ==
    /\ index' = [p \in Paths |-> IF p \in paths THEN Tree[p] ELSE index[p]]
    /\ work' = [p \in Paths |-> IF p \in paths THEN Tree[p] ELSE work[p]]

\* Mutant: git diff --binary, without HEAD, leaves out what is staged.
UnstagedPatch == {<<p, work[p]>> : p \in {q \in Paths : /\ index[q] # "absent"
                                                        /\ work[q] # "absent"
                                                        /\ work[q] # index[q]}}

\* The contents that git diff --binary HEAD holds. It does not look at a path
\* that is not in the index.
Patch == {<<p, work[p]>> : p \in {q \in Paths : /\ index[q] # "absent"
                                                /\ work[q] # "absent"
                                                /\ work[q] # Tree[q]}}

GitInit ==
    /\ log = <<FirstTree>>
    /\ index = FirstTree
    /\ work = FirstTree

GitTypeOK ==
    /\ log \in Seq([Paths -> Contents]) /\ log # <<>>
    /\ index \in [Paths -> Contents]
    /\ work \in [Paths -> Contents]
=============================================================================
