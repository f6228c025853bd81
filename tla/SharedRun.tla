------------------------------ MODULE SharedRun ------------------------------
(***************************************************************************)
(* run --shared-context: prompts one after the other in one worktree, each *)
(* committed like a slice, and the rollback to the last commit of the run  *)
(* when a prompt fails.                                                    *)
(*                                                                         *)
(* runtime.go repeats the code of gitCommitFocused. Where the two do the   *)
(* same, the steps of SliceCommit are taken for both; the one that differs *)
(* does not look at HEAD. There is no sequence record and no recovery.     *)
(***************************************************************************)
EXTENDS SliceCommit

CONSTANTS
    NumPrompts,           \* the prompts of the run
    RollbackOnFailure     \* --rollback-on-failure

ASSUME PromptsAssumption == NumPrompts \in Nat \ {0} /\ RollbackOnFailure \in BOOLEAN

VARIABLES
    prompt,       \* the prompt of the run, 0 before it starts
    checkpoint,   \* the commit to roll back to
    armed         \* whether a failure rolls back

sharedVars == <<prompt, checkpoint, armed>>

SharedInit ==
    /\ prompt = 0
    /\ checkpoint = 0
    /\ armed = FALSE

\* With --require-clean-git the first prompt may be rolled back, too.
SharedInvoke ==
    /\ pc = "off"
    /\ prompt = 0
    /\ \/ Dirty = {} /\ armed' = RollbackOnFailure
       \/ armed' = FALSE
    /\ prompt' = 1
    /\ checkpoint' = HEAD
    /\ pc' = "start"
    /\ UNCHANGED <<gitVars, attemptVars, outcome, item, record, commit>>

\* A dirty baseline and a failed launch end the run, and nothing is rolled back.
SharedStart ==
    /\ pc = "start"
    /\ baseline' = Capture
    /\ commit' = 0
    /\ \/ /\ FailWith(IF Dirty = {} THEN "launch" ELSE "dirty")
          /\ worker' = NoWorker
          /\ UNCHANGED outcome
       \/ \E w \in Workers :
             /\ Dirty = {}
             /\ outcome[w] = "none"
             /\ worker' = w
             /\ outcome' = [outcome EXCEPT ![w] = "running"]
             /\ pc' = "wait"
             /\ UNCHANGED error
    /\ UNCHANGED <<gitVars, repair, attempt, approved, item, record, sharedVars>>

\* A worker that failed, or whose session is not known, is rolled back; one that
\* was cancelled is not.
SharedWorkerEnded ==
    LET how == outcome[worker]
        passed == how \in {"pass", "pass-disconnect"}
    IN  /\ pc = "wait"
        /\ how # "running"
        /\ \/ /\ passed
              /\ pc' = "attribute"
              /\ UNCHANGED error
           \/ /\ error' = IF passed THEN "session" ELSE "worker"
              /\ pc' = IF armed /\ how # "cancelled" THEN "rollback" ELSE "decide"
        /\ UNCHANGED <<gitVars, worker, baseline, repair, attempt, approved, outcome, item, record,
                       commit, sharedVars>>

\* git reset --hard. What is not in the index stays, unless the checkpoint has it.
Rollback ==
    LET old == log[checkpoint]
    IN  /\ pc = "rollback"
        /\ log' = SubSeq(log, 1, checkpoint)
        /\ index' = old
        /\ work' = [p \in Paths |-> IF index[p] = "absent" /\ old[p] = "absent" THEN work[p]
                                                                              ELSE old[p]]
        /\ pc' = "decide"
        /\ UNCHANGED <<attemptVars, outcome, item, record, commit, sharedVars>>

NextPrompt ==
    /\ pc' = IF prompt = NumPrompts THEN "decide" ELSE "start"
    /\ prompt' = IF prompt = NumPrompts THEN prompt ELSE prompt + 1
    /\ error' = "none"

\* What violates the policy of the prompt is retained for review; its role is not
\* asked. A prompt that changed nothing arms the rollback like one that is committed.
SharedAttribute ==
    LET changed == Attributed(baseline)
    IN  /\ pc = "attribute"
        /\ approved' = changed
        /\ \/ ~(changed \subseteq OwnPermitted) /\ FailWith("policy") /\ UNCHANGED <<prompt, armed>>
           \/ changed = {} /\ armed' = (armed \/ RollbackOnFailure) /\ NextPrompt
           \/ /\ changed # {} /\ changed \subseteq OwnPermitted
              /\ pc' = "check"
              /\ UNCHANGED <<error, prompt, armed>>
        /\ UNCHANGED <<gitVars, worker, baseline, repair, attempt, outcome, item, record, commit,
                       checkpoint>>

SharedRecheck ==
    /\ pc = "recheck"
    /\ Go("commit", Attributed(baseline) = approved)
    /\ UNCHANGED <<gitVars, worker, baseline, repair, attempt, approved, outcome, item, record,
                   commit, sharedVars>>

SharedVerify ==
    /\ pc = "verify"
    /\ \/ /\ Between(baseline.head, HEAD) = approved
          /\ commit' = HEAD
          /\ checkpoint' = HEAD
          /\ armed' = (armed \/ RollbackOnFailure)
          /\ NextPrompt
       \/ /\ Between(baseline.head, HEAD) # approved
          /\ FailWith("commit")
          /\ UNCHANGED <<commit, sharedVars>>
    /\ UNCHANGED <<gitVars, worker, baseline, repair, attempt, approved, outcome, item, record>>

\* The run ends; what the last prompt left is not touched.
SharedEnd ==
    /\ pc = "decide"
    /\ pc' = "off"
    /\ UNCHANGED <<gitVars, attemptVars, outcome, item, record, commit, sharedVars>>

SharedStep ==
    \/ SharedInvoke
    \/ SharedStart
    \/ SharedWorkerEnded
    \/ Rollback
    \/ SharedAttribute
    \/ (CheckAttributed \/ AddApproved \/ CheckStaged \/ CommitStaged) /\ UNCHANGED sharedVars
    \/ SharedRecheck
    \/ SharedVerify
    \/ SharedEnd
=============================================================================
