---------------------------- MODULE WorktreeRuns ----------------------------
(***************************************************************************)
(* A worktree in which PromptGrinder commits what workers do: either a     *)
(* slice of run-folder over all its invocations or one run of prompts with *)
(* a shared context. The worktree claim keeps the two apart.               *)
(***************************************************************************)
EXTENDS SliceRecovery, SharedRun

VARIABLE shared    \* whether the runs of this behaviour share a context

vars == <<slice, sharedVars, shared>>

Init ==
    /\ SliceInit
    /\ SharedInit
    /\ shared \in BOOLEAN

Next ==
    /\ UNCHANGED shared
    /\ \/ ~shared /\ FolderStep /\ UNCHANGED <<bounds, sharedVars>>
       \/ shared /\ SharedStep /\ UNCHANGED <<recoveryVars, bounds>>
       \/ EnvironmentStep /\ UNCHANGED sharedVars

Spec == Init /\ [][Next]_vars

-----------------------------------------------------------------------------
\* What the run may change. A shared run asks the policy of the prompt only.
Allowed == IF shared THEN OwnPermitted ELSE Permitted

(* What is recorded as the commit of a slice, or of a prompt of a shared    *)
(* run, changes exactly the paths that were attributed to its worker and    *)
(* that its policy permits, whatever the user and the worker did to the     *)
(* index and the history in between.                                        *)
CommitExact ==
    commit # 0 =>
        /\ Between(baseline.head, commit) = approved
        /\ approved \subseteq Allowed

\* The steps of the run, but for the rollback of a shared one, which resets everything.
Ours == IF shared THEN pc # "rollback" /\ SharedStep ELSE FolderStep

TouchedOutside ==
    \E p \in Paths \ Allowed : work'[p] # work[p] \/ index'[p] # index[p]

(* Neither the index nor the worktree is ever touched by a run outside the  *)
(* paths that it may change, but for a rollback: only others do that.       *)
OutsideUntouched == [][TouchedOutside => ~Ours]_vars
=============================================================================
