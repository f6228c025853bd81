------------------------------ MODULE TaskQueue ------------------------------
(***************************************************************************)
(* The per-worker FIFO of internal/taskqueue/store.go as operators on its  *)
(* value. Store.update loads the queue, applies one mutation and renames   *)
(* the new file into place, all under the queue's flock, so every operator *)
(* here is one atomic step of whoever calls it. An operator is applied     *)
(* only where its Can... guard holds; where it does not, the code returns  *)
(* the mutation's error and writes nothing.                                *)
(*                                                                         *)
(* Wall-clock time is abstracted to the one thing the code asks of it:     *)
(* whether a lease has expired.                                            *)
(***************************************************************************)
EXTENDS Naturals, Sequences, SequencesExt

CONSTANTS Tasks,       \* task ids
          Procs,       \* processes that lease entries
          NoLease

Lease == [owner : Procs, expired : BOOLEAN]
ASSUME LeaseAssumption == NoLease \notin Lease
Entry == [task : Tasks, lease : Lease \cup {NoLease}]

Queued(q, t) == \E i \in DOMAIN q : q[i].task = t

NoDuplicates(q) == \A i, j \in DOMAIN q : q[i].task = q[j].task => i = j

\* Enqueue appends, and refuses a task id that is already in the queue.
CanEnqueue(q, t) == ~Queued(q, t)

Enqueue(q, t) == Append(q, [task |-> t, lease |-> NoLease])

\* Reorder moves the entry at i to position j. Only the moved entry has to be
\* unleased: it may pass in front of a leased one.
CanReorder(q, i) == q[i].lease = NoLease
Reorder(q, i, j) == InsertAt(RemoveAt(q, i), j, q[i])

\* Mutant: Remove does not look at the lease.
CanRemoveLeased(q, i) == TRUE

CanRemove(q, i) == q[i].lease = NoLease

\* Acquire leases the head unless a lease on it is still running.
CanAcquire(q) == q # <<>> /\ (q[1].lease # NoLease => q[1].lease.expired)
Acquire(q, p) == [q EXCEPT ![1].lease = [owner |-> p, expired |-> FALSE]]

LeasedBy(q, i, p) == q[i].lease # NoLease /\ q[i].lease.owner = p

\* Commit pops the head for the owner of its lease. It does not ask whether the
\* lease has expired.
CanCommit(q, t, p) == q # <<>> /\ q[1].task = t /\ LeasedBy(q, 1, p)
Commit(q) == Tail(q)

\* Release drops the lease its owner holds on t, wherever t stands by now.
Release(q, t, p) ==
    [i \in DOMAIN q |->
        IF q[i].task = t /\ LeasedBy(q, i, p) THEN [q[i] EXCEPT !.lease = NoLease] ELSE q[i]]

\* The clock passes the lease's ExpiresAt.
Expire(q, i) == [q EXCEPT ![i].lease.expired = TRUE]
=============================================================================
