--------------------------- MODULE WorkerLifecycle ---------------------------
(***************************************************************************)
(* The vocabulary of the named-worker control plane (internal/workerdomain): *)
(* the lifecycle of a named worker with the transitions that               *)
(* ValidateTransition admits, and the statuses of tasks, launch attempts   *)
(* and review handoffs.                                                    *)
(***************************************************************************)

\* The transition table of lifecycle.go, by current lifecycle.
LifecycleTransitions ==
    [idle            |-> {"starting"},
     starting        |-> {"executing", "failed"},
     executing       |-> {"idle", "paused", "blocked", "awaiting_review", "failed"},
     blocked         |-> {"executing"},
     paused          |-> {"starting", "idle"},
     awaiting_review |-> {"idle"},
     failed          |-> {"idle"}]

\* Lifecycle.Valid: the table names every lifecycle there is.
Lifecycle ==
    {"idle", "starting", "executing", "blocked", "paused", "awaiting_review", "failed"}

CanTransition(from, to) == to \in LifecycleTransitions[from]

TaskStatus ==
    {"pending", "assigned", "paused", "failed", "canceled", "awaiting_review", "accepted"}

ReviewStatus == {"pending", "accepted", "rejected"}

\* TaskAttempt.Disposition, as start.go and control.go write it. Whether a pause
\* was forced is not told apart.
Disposition == {"executing", "launch_failed", "paused"}
=============================================================================
