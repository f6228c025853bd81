---------------------------- MODULE SliceCommit ----------------------------
(***************************************************************************)
(* One attempt at a slice with --commit-each: the snapshot, the worker,    *)
(* the attribution of its changes and the focused commit of exactly those. *)
(*                                                                         *)
(* Each Git command is a step, so that the worker, which may commit        *)
(* although it was told not to, and the user, who edits the same worktree, *)
(* act between any two of them.                                            *)
(***************************************************************************)
EXTENDS GitWorktree

CONSTANTS
    NoWorker,           \* no worker identifier
    RecoveryAttempts    \* --recovery-attempts

ASSUME AttemptsAssumption == RecoveryAttempts \in Nat
ASSUME WorkerAssumption == NoWorker \notin Workers

VARIABLES
    pc,         \* the next step of the run
    worker,     \* the worker of the attempt, or NoWorker
    baseline,   \* the snapshot of the attempt
    repair,     \* whether the attempt goes on in the session and on the changes of the last
    attempt,    \* the recovery attempts spent
    approved,   \* the changes attributed to the worker that policy permits
    error,      \* why the attempt failed
    outcome,    \* how every worker ended, as its record and its log tell
    item,       \* the slice in the sequence record
    record,     \* the prompt record of the slice
    commit      \* the commit of the slice, 0 if there is none

attemptVars == <<worker, baseline, repair, attempt, approved, error>>
sliceVars == <<pc, worker, baseline, repair, attempt, approved, error, outcome, item, record, commit>>

Outcomes == {"none", "running", "pass", "pass-disconnect", "disconnect", "partial", "fail",
             "cancelled", "launch-failed"}
Errors == {"none", "dirty", "launch", "worker", "contract", "policy", "commit", "ownership",
           "blocked", "isolated", "session"}
Snapshots == [head : Nat, entries : Entries]
Items == [status : {"pending", "running", "failed", "interrupted", "succeeded"},
          worker : Workers \cup {NoWorker}, error : Errors]
Records == [worker : Workers \cup {NoWorker}, baseline : Snapshots, attempts : 0..RecoveryAttempts]

NoBaseline == [head |-> 0, entries |-> [p \in Paths |-> "clean"]]

FailWith(reason) ==
    /\ error' = reason
    /\ pc' = "decide"

(* The attempt.                                                             *)

\* --commit-each asks for a clean baseline, except of an attempt that repairs.
BaselineClean(before) == repair \/ before.entries = NoBaseline.entries

Start ==
    LET before == IF repair THEN baseline ELSE Capture
    IN  /\ pc = "start"
        /\ baseline' = before
        /\ \/ /\ ~BaselineClean(before)
              /\ FailWith("dirty")
              /\ worker' = NoWorker
              /\ UNCHANGED outcome
           \/ /\ BaselineClean(before)
              /\ FailWith("launch")
              /\ worker' = NoWorker
              /\ UNCHANGED outcome
           \/ \E w \in Workers :
                 /\ BaselineClean(before)
                 /\ outcome[w] = "none"
                 /\ worker' = w
                 /\ \/ /\ outcome' = [outcome EXCEPT ![w] = "running"]
                       /\ pc' = "wait"
                       /\ UNCHANGED error
                    \/ /\ outcome' = [outcome EXCEPT ![w] = "launch-failed"]
                       /\ FailWith("launch")
        /\ UNCHANGED <<gitVars, repair, attempt, approved, item, record, commit>>

WorkerEnded ==
    LET how == outcome[worker]
    IN  /\ pc = "wait"
        /\ how # "running"
        /\ \/ /\ how \in {"pass", "pass-disconnect"}
              /\ pc' = "attribute"
              /\ UNCHANGED error
           \/ /\ how = "partial"
              /\ FailWith("contract")
           \/ /\ how \in {"disconnect", "fail", "cancelled"}
              /\ FailWith("worker")
        /\ UNCHANGED <<gitVars, worker, baseline, repair, attempt, approved, outcome, item,
                       record, commit>>

\* The slice is recorded as succeeded, with commit c.
Succeed(c) ==
    /\ pc' = "off"
    /\ item' = [item EXCEPT !.status = "succeeded", !.worker = worker, !.error = "none"]
    /\ record' = [worker |-> worker, baseline |-> baseline, attempts |-> attempt]
    /\ commit' = c

Attribute ==
    LET changed == Attributed(baseline)
    IN  /\ pc = "attribute"
        /\ approved' = changed
        /\ \/ /\ ~(changed \subseteq Permitted)
              /\ FailWith("policy")
              /\ UNCHANGED <<item, record, commit>>
           \/ /\ changed = {}
              /\ Succeed(0)
              /\ UNCHANGED error
           \/ /\ changed # {}
              /\ changed \subseteq Permitted
              /\ pc' = "check"
              /\ UNCHANGED <<error, item, record, commit>>
        /\ UNCHANGED <<gitVars, worker, baseline, repair, attempt, outcome>>

(* gitCommitFocused.                                                        *)

Go(next, test) == IF test THEN pc' = next /\ UNCHANGED error ELSE FailWith("commit")

CheckAttributed ==
    /\ pc = "check"
    /\ Go("add", Attributed(baseline) = approved)
    /\ UNCHANGED <<gitVars, worker, baseline, repair, attempt, approved, outcome, item, record,
                   commit>>

AddApproved ==
    /\ pc = "add"
    /\ IF Addable(approved) THEN Add(approved) ELSE UNCHANGED index
    /\ Go("staged", Addable(approved))
    /\ UNCHANGED <<log, work, worker, baseline, repair, attempt, approved, outcome, item, record,
                   commit>>

CheckStaged ==
    /\ pc = "staged"
    /\ \/ /\ Staged = approved
          /\ pc' = "recheck"
          /\ UNCHANGED error
       \/ /\ Staged # approved
          /\ FailWith(IF CommitOwnershipConflict(baseline, approved) THEN "ownership"
                                                                     ELSE "commit")
    /\ UNCHANGED <<gitVars, worker, baseline, repair, attempt, approved, outcome, item, record,
                   commit>>

Recheck ==
    /\ pc = "recheck"
    /\ Go("commit", HEAD = baseline.head /\ Attributed(baseline) = approved)
    /\ UNCHANGED <<gitVars, worker, baseline, repair, attempt, approved, outcome, item, record,
                   commit>>

CommitStaged ==
    /\ pc = "commit"
    /\ \/ /\ Commit
          /\ pc' = "verify"
          /\ UNCHANGED error
       \/ /\ Staged = {}
          /\ FailWith("commit")
          /\ UNCHANGED log
    /\ UNCHANGED <<index, work, worker, baseline, repair, attempt, approved, outcome, item,
                   record, commit>>

\* Mutant: the commit that was created is not compared with what was approved.
VerifyNothing ==
    /\ pc = "verify"
    /\ Succeed(HEAD)
    /\ UNCHANGED <<gitVars, worker, baseline, repair, attempt, approved, error, outcome>>

\* What HEAD is by now is compared with the baseline once more.
Verify ==
    /\ pc = "verify"
    /\ \/ /\ Between(baseline.head, HEAD) = approved
          /\ Succeed(HEAD)
          /\ UNCHANGED error
       \/ /\ Between(baseline.head, HEAD) # approved
          /\ FailWith("commit")
          /\ UNCHANGED <<item, record, commit>>
    /\ UNCHANGED <<gitVars, worker, baseline, repair, attempt, approved, outcome>>

AttemptStep ==
    \/ Start
    \/ WorkerEnded
    \/ Attribute
    \/ CheckAttributed
    \/ AddApproved
    \/ CheckStaged
    \/ Recheck
    \/ CommitStaged
    \/ Verify
=============================================================================
