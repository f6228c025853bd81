---------------------------- MODULE Ownership_proofs ----------------------------
(***************************************************************************)
(* What the named workers may rely on about their tasks and their runs:    *)
(* whose a task is, what a paused worker has left running, who works in a  *)
(* worktree, how many work at all, and what a dispatch rests on.           *)
(***************************************************************************)
EXTENDS NamedWorkers_proofs, FiniteSetTheorems

USE DEF At

-----------------------------------------------------------------------------
(* Whose a task is.  Between the creation of a task's file and the write     *)
(* that hands the task to its worker, the invocation that made the file may  *)
(* still remove it; everybody else's tasks are there to stay.                *)

MakingPc == {"activate", "queue", "rollback"}

MadeBy(p, t) == procs[p].pc \in MakingPc /\ procs[p].t = t

Settled(t, w) ==
    /\ Exists(t)
    /\ task[t].owner = w
    /\ \A p \in Procs : ~MadeBy(p, t)

\* What a task record is like while its maker may still remove it.
Unused(k, w) ==
    /\ k.owner = w
    /\ k.attempts = <<>>
    /\ k.handoffs = <<>>
    /\ k.status \in {"assigned", "pending", "canceled"}

\* Where an invocation's task may be gone: cancel takes no notice of it.
Loose == MakingPc \cup {"ready", "create", "snapshot", "consider", "lease", "start",
                        "look", "reload", "dequeue", "void", "vacate"}

MakersApart ==
    \A p \in Procs : procs[p].pc \in MakingPc =>
        /\ Unused(task[procs[p].t], procs[p].w)
        /\ \A q \in Procs : MadeBy(q, procs[p].t) => q = p

QueuesSettled == \A w \in Workers, t \in Tasks : Queued(queue[w], t) => Settled(t, w)
ActiveSettled == \A w \in Workers, t \in Tasks : state[w].active = t => Settled(t, w)
ProcsSettled == \A p \in Procs : procs[p].pc \notin Loose => Settled(procs[p].t, procs[p].w)
RunsSettled == \A r \in live : \E w \in Workers : Settled(r[1], w)

BelongInv ==
    /\ MakersApart
    /\ QueuesSettled
    /\ ActiveSettled
    /\ ProcsSettled
    /\ RunsSettled

\* A task that is w's after p's step: it was before, or p hands it over.
Given(p, t, w) ==
    \/ Settled(t, w)
    \/ MadeBy(p, t) /\ procs[p].w = w /\ procs'[p] = Ready /\ UNCHANGED task

ActiveKept(p) == \A w \in Workers, t \in Tasks : state'[w].active = t => Given(p, t, w)
QueueKept(p) == \A w \in Workers, t \in Tasks : Queued(queue'[w], t) => Given(p, t, w)
RunsKept == \A r \in live' : \E w \in Workers : Settled(r[1], w)

\* What a step of p may do.
BelongStep(p) ==
    /\ \A q \in Procs \ {p} : procs'[q] = procs[q]
    /\ \A t \in Tasks : Exists(t) /\ ~MadeBy(p, t) =>
          task'[t].status # "absent" /\ task'[t].owner = task[t].owner
    /\ \A t \in Tasks, w \in Workers : ~MadeBy(p, t) /\ Unused(task[t], w) =>
          Unused(task'[t], w) \/ Settled(t, w)
    /\ procs'[p].pc \in MakingPc =>
          /\ Unused(task'[procs'[p].t], procs'[p].w)
          /\ MadeBy(p, procs'[p].t) \/ ~Exists(procs'[p].t)
    /\ procs'[p].pc \notin Loose => Settled(procs'[p].t, procs'[p].w)
    /\ ActiveKept(p)
    /\ QueueKept(p)
    /\ RunsKept

LEMMA UnusedExists ==
    ASSUME NEW t, NEW w, Unused(task[t], w)
    PROVE  Exists(t)
BY DEF Unused, Exists

LEMMA GivenSettled ==
    ASSUME TypeInv, MakersApart, NEW p \in Procs, BelongStep(p), NEW t \in Tasks, NEW w,
           Given(p, t, w)
    PROVE  Settled(t, w)'
<1>1. ASSUME NEW q \in Procs \ {p}
      PROVE  procs'[q] = procs[q]
  BY DEF BelongStep
<1>2. CASE Settled(t, w)
  <2>1. Exists(t) /\ ~MadeBy(p, t) /\ task[t].owner = w
    BY <1>2 DEF Settled
  <2>2. task'[t].status # "absent" /\ task'[t].owner = w
    BY <2>1 DEF BelongStep
  <2>3. ~(procs'[p].pc \in MakingPc /\ procs'[p].t = t)
    BY <2>1 DEF BelongStep
  <2> QED BY <1>1, <1>2, <2>2, <2>3 DEF Settled, Exists, MadeBy
<1>3. CASE MadeBy(p, t) /\ procs[p].w = w /\ procs'[p] = Ready /\ UNCHANGED task
  <2>1. Unused(task[t], w) /\ \A q \in Procs : MadeBy(q, t) => q = p
    BY <1>3 DEF MakersApart, MadeBy
  <2>2. Ready.pc \notin MakingPc
    BY RecordsTyped DEF MakingPc
  <2> QED BY <1>1, <1>3, <2>1, <2>2 DEF Settled, Exists, MadeBy, Unused
<1> QED BY <1>2, <1>3 DEF Given

LEMMA StepBelongs ==
    ASSUME TypeInv, TypeInv', BelongInv, NEW p \in Procs, BelongStep(p)
    PROVE  BelongInv'
<1>1. \A t \in Tasks, w \in Workers : Given(p, t, w) => Settled(t, w)'
  BY GivenSettled DEF BelongInv
<1>2. \A t \in Tasks, w \in Workers : Settled(t, w) => Settled(t, w)'
  BY <1>1 DEF Given
<1>3. QueuesSettled'
  BY <1>1 DEF QueuesSettled, BelongStep, QueueKept
<1>4. ActiveSettled'
  BY <1>1 DEF ActiveSettled, BelongStep, ActiveKept
<1>5. ASSUME NEW q \in Procs, procs'[q].pc \notin Loose
      PROVE  Settled(procs'[q].t, procs'[q].w)
  BY <1>5 DEF BelongStep, BelongInv, ProcsSettled
<1>6. ASSUME NEW q \in Procs, procs'[q].pc \notin Loose
      PROVE  procs'[q].t \in Tasks /\ procs'[q].w \in Workers
  BY <1>6 DEF TypeInv, Bound, Unbound, Loose, Process
<1>7. ProcsSettled'
  BY <1>2, <1>5, <1>6 DEF ProcsSettled
<1>8. \A r \in live' : r[1] \in Tasks
  BY DEF TypeInv, Run
<1>9. RunsSettled'
  BY <1>2, <1>8 DEF RunsSettled, BelongStep, RunsKept
<1>10. ASSUME NEW q \in Procs, procs'[q].pc \in MakingPc
       PROVE  /\ Unused(task'[procs'[q].t], procs'[q].w)
              /\ \A s \in Procs :
                    procs'[s].pc \in MakingPc /\ procs'[s].t = procs'[q].t => s = q
  <2>1. ASSUME NEW s \in Procs \ {p}, procs'[s].pc \in MakingPc
        PROVE  /\ procs'[s] = procs[s]
               /\ MadeBy(s, procs'[s].t)
               /\ Unused(task[procs'[s].t], procs'[s].w)
               /\ \A r \in Procs : MadeBy(r, procs'[s].t) => r = s
    BY <2>1 DEF BelongStep, BelongInv, MakersApart, MadeBy
  <2>2. ASSUME NEW s \in Procs \ {p}, procs'[s].pc \in MakingPc, procs'[p].pc \in MakingPc
        PROVE  procs'[s].t # procs'[p].t
    BY <2>1, <2>2, UnusedExists DEF BelongStep
  <2>3. CASE q = p
    BY <1>10, <2>2, <2>3 DEF BelongStep
  <2>4. CASE q # p
    <3>1. procs'[q].t \in Tasks /\ procs'[q].w \in Workers
      BY <1>10 DEF TypeInv, Bound, Unbound, MakingPc, Process
    <3>2. ~MadeBy(p, procs'[q].t) /\ ~Settled(procs'[q].t, procs'[q].w)
      BY <1>10, <2>1, <2>4 DEF Settled
    <3>3. Unused(task'[procs'[q].t], procs'[q].w)
      BY <1>10, <2>1, <2>4, <3>1, <3>2 DEF BelongStep
    <3>4. ASSUME NEW s \in Procs, procs'[s].pc \in MakingPc, procs'[s].t = procs'[q].t
          PROVE  s = q
      BY <1>10, <2>1, <2>2, <2>4, <3>4
    <3> QED BY <3>3, <3>4
  <2> QED BY <2>3, <2>4
<1>11. MakersApart'
  BY <1>10 DEF MakersApart, MadeBy
<1> QED BY <1>3, <1>4, <1>7, <1>9, <1>11 DEF BelongInv

\* A step of no invocation.
LEMMA QuietBelongs ==
    ASSUME TypeInv, TypeInv', BelongInv, UNCHANGED <<procs, task>>, live' \subseteq live,
           \A w \in Workers : state'[w].active \in {NoTask, state[w].active},
           \A w \in Workers : ListsOf(queue'[w], queue[w])
    PROVE  BelongInv'
<1>1. \A t, w : Settled(t, w)' <=> Settled(t, w)
  BY DEF Settled, Exists, MadeBy
<1>2. MakersApart' /\ ProcsSettled'
  BY <1>1 DEF BelongInv, MakersApart, MadeBy, ProcsSettled
<1>3. QueuesSettled'
  BY <1>1 DEF BelongInv, QueuesSettled, ListsOf
<1>4. ActiveSettled'
  BY <1>1, NoTaskAssumption DEF BelongInv, ActiveSettled
<1>5. RunsSettled'
  BY <1>1 DEF BelongInv, RunsSettled
<1> QED BY <1>2, <1>3, <1>4, <1>5 DEF BelongInv

(* The steps every action is built from. *)

LEMMA KeptBelongs ==
    ASSUME BelongInv, NEW p \in Procs
    PROVE  /\ UNCHANGED state => ActiveKept(p)
           /\ (\A w \in Workers : ListsOf(queue'[w], queue[w])) => QueueKept(p)
           /\ UNCHANGED queue => QueueKept(p)
           /\ live' \subseteq live => RunsKept
BY DEF BelongInv, ActiveSettled, QueuesSettled, RunsSettled, ActiveKept, QueueKept, RunsKept,
       ListsOf, Given

LEMMA BecomesBelongs ==
    ASSUME TypeInv, BelongInv, NEW p \in Procs, NEW new, Becomes(p, new), UNCHANGED task,
           new.pc \in MakingPc => MadeBy(p, new.t) /\ new.w = procs[p].w,
           new.pc \notin Loose => Settled(new.t, new.w),
           ActiveKept(p), QueueKept(p), RunsKept
    PROVE  BelongStep(p)
<1>1. procs'[p] = new /\ \A q \in Procs \ {p} : procs'[q] = procs[q]
  BY DEF Becomes, TypeInv
<1>2. new.pc \in MakingPc => Unused(task[new.t], new.w)
  BY DEF BelongInv, MakersApart, MadeBy
<1>3. /\ \A t \in Tasks : Exists(t) => task'[t].status # "absent" /\ task'[t].owner = task[t].owner
      /\ \A t \in Tasks, w \in Workers : Unused(task[t], w) => Unused(task'[t], w)
  BY DEF Exists
<1>4. procs'[p].pc \in MakingPc =>
        /\ Unused(task'[procs'[p].t], procs'[p].w)
        /\ MadeBy(p, procs'[p].t)
  BY <1>1, <1>2
<1> QED BY <1>1, <1>3, <1>4 DEF BelongStep

LEMMA ReturnBelongs ==
    ASSUME TypeInv, BelongInv, NEW p \in Procs, Return(p), UNCHANGED task,
           ActiveKept(p), QueueKept(p), RunsKept
    PROVE  BelongStep(p)
<1>1. Ready.pc \notin MakingPc /\ Ready.pc \in Loose
  BY RecordsTyped DEF MakingPc, Loose
<1> QED BY <1>1, BecomesBelongs DEF Return

LEMMA GotoBelongs ==
    ASSUME TypeInv, BelongInv, NEW p \in Procs, NEW pc, Goto(p, pc), UNCHANGED task,
           pc \in MakingPc => procs[p].pc \in MakingPc,
           pc \notin Loose => procs[p].pc \notin Loose,
           ActiveKept(p), QueueKept(p), RunsKept
    PROVE  BelongStep(p)
<1> DEFINE new == [procs[p] EXCEPT !.pc = pc]
<1>1. new.pc = pc /\ new.t = procs[p].t /\ new.w = procs[p].w
  BY ProcTyped DEF Process
<1>2. Becomes(p, new)
  BY DEF Goto
<1> HIDE DEF new
<1> QED BY <1>1, <1>2, BecomesBelongs DEF MadeBy, BelongInv, ProcsSettled

\* p writes the record of a task that is there, and goes on.
LEMMA TaskBelongs ==
    ASSUME TypeInv, BelongInv, NEW p \in Procs, NEW new, Becomes(p, new),
           NEW t \in Tasks, NEW k, SetTask(t, k),
           Exists(t), k.status # "absent", k.owner = task[t].owner,
           \/ \E w \in Workers : Settled(t, w)
           \/ /\ k.attempts = task[t].attempts
              /\ k.handoffs = task[t].handoffs
              /\ k.status = "canceled",
           new.pc \notin MakingPc, new.pc \notin Loose => Settled(new.t, new.w),
           UNCHANGED <<state, queue>>, live' \subseteq live
    PROVE  BelongStep(p)
<1>1. procs'[p] = new /\ \A q \in Procs \ {p} : procs'[q] = procs[q]
  BY DEF Becomes, TypeInv
<1>2. task'[t] = k /\ \A u \in Tasks \ {t} : task'[u] = task[u]
  BY DEF SetTask, TypeInv
<1>3. \A u \in Tasks : Exists(u) =>
         task'[u].status # "absent" /\ task'[u].owner = task[u].owner
  BY <1>2 DEF Exists
<1>4. ASSUME NEW u \in Tasks, NEW w \in Workers, Unused(task[u], w)
      PROVE  Unused(task'[u], w) \/ Settled(u, w)
  <2>1. CASE u # t
    BY <1>2, <1>4, <2>1
  <2>2. CASE u = t /\ k.attempts = task[t].attempts /\ k.handoffs = task[t].handoffs
             /\ k.status = "canceled"
    BY <1>2, <1>4, <2>2 DEF Unused
  <2>3. CASE u = t /\ \E v \in Workers : Settled(t, v)
    BY <1>4, <2>3 DEF Unused, Settled
  <2> QED BY <2>1, <2>2, <2>3
<1> QED BY <1>1, <1>3, <1>4, KeptBelongs DEF BelongStep

LEMMA GoingOn ==
    ASSUME TypeInv, NEW p \in Procs, NEW pc
    PROVE  LET new == [procs[p] EXCEPT !.pc = pc]
           IN  new.pc = pc /\ new.t = procs[p].t /\ new.w = procs[p].w
BY ProcTyped DEF Process

\* A write of the worker's own task by an invocation that still needs it.
LEMMA OwnTaskBelongs ==
    ASSUME TypeInv, BelongInv, NEW p \in Procs, NEW pc, Goto(p, pc),
           procs[p].pc \notin Loose, pc \notin MakingPc,
           NEW k, SetTask(procs[p].t, k),
           k.status # "absent", k.owner = task[procs[p].t].owner,
           UNCHANGED <<state, queue>>, live' \subseteq live
    PROVE  BelongStep(p)
<1>1. Settled(procs[p].t, procs[p].w)
  BY DEF BelongInv, ProcsSettled
<1>2. procs[p].t \in Tasks /\ procs[p].w \in Workers
  BY ProcTyped DEF Loose, Unbound
<1> DEFINE new == [procs[p] EXCEPT !.pc = pc]
<1>3. new.pc = pc /\ new.t = procs[p].t /\ new.w = procs[p].w
  BY GoingOn
<1>4. Becomes(p, new)
  BY DEF Goto
<1> HIDE DEF new
<1>5. Exists(procs[p].t)
  BY <1>1 DEF Settled
<1> QED BY <1>1, <1>2, <1>3, <1>4, <1>5, TaskBelongs

\* A copy that passes the revision check is what is on disk.
LEMMA FreshCopy ==
    ASSUME TypeInv, CopyInv, NEW p \in Procs, Fresh(p)
    PROVE  procs[p].st = state[procs[p].w]
BY DEF CopyInv, CopyOK, IsCopy, Fresh

LEMMA SavedActive ==
    ASSUME TypeInv, BelongInv, NEW p \in Procs, NEW w \in Workers, NEW new \in WorkerState,
           state' = [state EXCEPT ![w] = Saved(new)],
           \A t \in Tasks : new.active = t => Given(p, t, w)
    PROVE  ActiveKept(p)
<1>1. Saved(new).active = new.active
  BY DEF Saved, WorkerState
<1>2. state'[w] = Saved(new) /\ \A v \in Workers \ {w} : state'[v] = state[v]
  BY DEF TypeInv
<1> QED BY <1>1, <1>2 DEF ActiveKept, BelongInv, ActiveSettled, Given

\* What an invocation writes with its copy leaves the worker its task, takes it,
\* or gives it the task that the invocation is about.
LEMMA WriteBelongs ==
    ASSUME TypeInv, CopyInv, BelongInv, NEW p \in Procs, NEW new \in WorkerState, Fresh(p),
           state' = [state EXCEPT ![procs[p].w] = Saved(new)],
           \/ new.active \in {NoTask, procs[p].st.active}
           \/ new.active = procs[p].t /\ procs[p].pc \notin Loose
           \/ new.active = procs[p].t /\ Given(p, procs[p].t, procs[p].w)
    PROVE  ActiveKept(p)
<1>1. procs[p].st = state[procs[p].w] /\ procs[p].w \in Workers
  BY FreshCopy, ProcTyped
<1>2. \A t \in Tasks : new.active = t => Given(p, t, procs[p].w)
  BY <1>1, NoTaskAssumption DEF BelongInv, ActiveSettled, ProcsSettled, Given
<1> QED BY <1>1, <1>2, SavedActive

LEMMA SaveBelongs ==
    ASSUME TypeInv, CopyInv, BelongInv, NEW p \in Procs, NEW new \in WorkerState, NEW pc,
           Save(p, new, pc), UNCHANGED <<task, queue>>, live' \subseteq live,
           \/ new.active \in {NoTask, procs[p].st.active}
           \/ new.active = procs[p].t /\ procs[p].pc \notin Loose,
           pc \notin MakingPc, pc \notin Loose => procs[p].pc \notin Loose
    PROVE  BelongStep(p)
<1> DEFINE saved == Saved(new)
           c == [procs[p] EXCEPT !.st = saved, !.pc = pc]
<1>1. c.pc = pc /\ c.t = procs[p].t /\ c.w = procs[p].w
  BY ProcTyped DEF Process
<1>2. Becomes(p, c) /\ Fresh(p) /\ state' = [state EXCEPT ![procs[p].w] = Saved(new)]
  BY DEF Save
<1> HIDE DEF c
<1>3. ActiveKept(p)
  BY <1>2, WriteBelongs
<1>4. c.pc \notin Loose => Settled(c.t, c.w)
  BY <1>1 DEF BelongInv, ProcsSettled
<1> QED BY <1>1, <1>2, <1>3, <1>4, KeptBelongs, BecomesBelongs

LEMMA SaveLastBelongs ==
    ASSUME TypeInv, CopyInv, BelongInv, NEW p \in Procs, NEW new \in WorkerState,
           SaveLast(p, new), UNCHANGED <<task, queue>>, live' \subseteq live,
           \/ new.active \in {NoTask, procs[p].st.active}
           \/ new.active = procs[p].t /\ procs[p].pc \notin Loose
           \/ new.active = procs[p].t /\ procs[p].pc \in MakingPc
    PROVE  BelongStep(p)
<1>1. Fresh(p) /\ Return(p) /\ state' = [state EXCEPT ![procs[p].w] = Saved(new)]
  BY DEF SaveLast
<1>2. procs'[p] = Ready
  BY <1>1 DEF Return, Becomes, TypeInv
<1>3. procs[p].pc \in MakingPc => Given(p, procs[p].t, procs[p].w)
  BY <1>2 DEF Given, MadeBy
<1>4. ActiveKept(p)
  BY <1>1, <1>3, WriteBelongs
<1> QED BY <1>1, <1>4, KeptBelongs, ReturnBelongs

-----------------------------------------------------------------------------
(* The actions. *)

\* What BelongInv says of the task of an invocation that still needs it.
LEMMA OwnTask ==
    ASSUME TypeInv, BelongInv, NEW p \in Procs, procs[p].pc \notin Loose
    PROVE  /\ procs[p].t \in Tasks
           /\ procs[p].w \in Workers
           /\ Settled(procs[p].t, procs[p].w)
           /\ Exists(procs[p].t)
           /\ task[procs[p].t] \in Task
<1>1. procs[p].t \in Tasks /\ procs[p].w \in Workers
  BY ProcTyped DEF Loose, Unbound
<1>2. Settled(procs[p].t, procs[p].w)
  BY DEF BelongInv, ProcsSettled
<1> QED BY <1>1, <1>2 DEF Settled, TypeInv

LEMMA IntakeBelongs ==
    ASSUME TypeInv, CopyInv, BelongInv, NEW p \in Procs, IntakeStep(p)
    PROVE  BelongStep(p)
<1> USE DEF MakingPc, Loose
<1>1. CASE CreateTask(p)
  <2> DEFINE t == procs[p].t
             direct == procs[p].op = "assign" /\ procs[p].st.active = NoTask
             status == IF direct THEN "assigned" ELSE "pending"
             pc == IF direct THEN "activate" ELSE "queue"
             k == [Absent EXCEPT !.status = status, !.owner = procs[p].w]
             new == [procs[p] EXCEPT !.pc = pc]
  <2>1. CASE Return(p) /\ UNCHANGED task
    BY <1>1, <2>1, KeptBelongs, ReturnBelongs DEF CreateTask
  <2>2. CASE ~Exists(t) /\ SetTask(t, k) /\ Goto(p, pc)
    <3>1. t \in Tasks /\ procs[p].w \in Workers
      BY <1>1, ProcTyped DEF CreateTask, Unbound
    <3>2. new.pc = pc /\ new.t = t /\ new.w = procs[p].w /\ Becomes(p, new)
      BY <2>2, GoingOn DEF Goto
    <3>3. pc \in MakingPc /\ status \in {"assigned", "pending"}
      OBVIOUS
    <3> HIDE DEF new, pc, status
    <3>4. Unused(k, procs[p].w)
      BY <3>3 DEF Unused, Absent
    <3> HIDE DEF k
    <3>5. procs'[p] = new /\ \A q \in Procs \ {p} : procs'[q] = procs[q]
      BY <3>2 DEF Becomes, TypeInv
    <3>6. task'[t] = k /\ \A u \in Tasks \ {t} : task'[u] = task[u]
      BY <2>2, <3>1 DEF SetTask, TypeInv
    <3>7. \A u \in Tasks : Exists(u) =>
             task'[u].status # "absent" /\ task'[u].owner = task[u].owner
      BY <2>2, <3>6 DEF Exists
    <3>8. \A u \in Tasks, w \in Workers : Unused(task[u], w) => Unused(task'[u], w)
      BY <2>2, <3>6, UnusedExists
    <3> QED BY <1>1, <2>2, <3>1, <3>2, <3>3, <3>4, <3>5, <3>6, <3>7, <3>8, KeptBelongs
            DEF BelongStep, CreateTask
  <2> QED BY <1>1, <2>1, <2>2 DEF CreateTask
<1>2. CASE EnqueueTask(p)
  <2> DEFINE t == procs[p].t
             w == procs[p].w
  <2>1. CASE Goto(p, "rollback") /\ UNCHANGED queue
    BY <1>2, <2>1, KeptBelongs, GotoBelongs DEF EnqueueTask
  <2>2. CASE queue' = [queue EXCEPT ![w] = Enqueue(@, t)] /\ Return(p)
    <3>1. t \in Tasks /\ w \in Workers /\ queue[w] \in Seq(Entry)
      BY <1>2, ProcTyped DEF EnqueueTask, Unbound, TypeInv
    <3>2. procs'[p] = Ready
      BY <2>2 DEF Return, Becomes, TypeInv
    <3>3. Given(p, t, w)
      BY <1>2, <3>2 DEF EnqueueTask, Given, MadeBy
    <3>4. \A u \in Tasks : Queued(Enqueue(queue[w], t), u) => u = t \/ Queued(queue[w], u)
      BY <3>1, EnqueueKeeps
    <3>5. queue'[w] = Enqueue(queue[w], t) /\ \A v \in Workers \ {w} : queue'[v] = queue[v]
      BY <2>2, <3>1 DEF TypeInv
    <3>6. QueueKept(p)
      BY <3>1, <3>3, <3>4, <3>5 DEF QueueKept, BelongInv, QueuesSettled, Given
    <3> QED BY <1>2, <2>2, <3>6, KeptBelongs, ReturnBelongs DEF EnqueueTask
  <2> QED BY <1>2, <2>1, <2>2 DEF EnqueueTask
<1>3. CASE ActivateTask(p)
  <2> DEFINE new == [procs[p].st EXCEPT !.active = procs[p].t]
  <2>1. CASE Goto(p, "rollback") /\ UNCHANGED state
    BY <1>3, <2>1, KeptBelongs, GotoBelongs DEF ActivateTask
  <2>2. CASE SaveLast(p, new)
    <3>1. new \in WorkerState /\ new.active = procs[p].t
      BY <1>3, ProcTyped DEF ActivateTask, WorkerState, Unbound
    <3> HIDE DEF new
    <3> QED BY <1>3, <2>2, <3>1, SaveLastBelongs DEF ActivateTask
  <2> QED BY <1>3, <2>1, <2>2 DEF ActivateTask
<1>4. CASE RollbackTask(p)
  <2> DEFINE t == procs[p].t
  <2>1. t \in Tasks /\ MadeBy(p, t)
    BY <1>4, ProcTyped DEF RollbackTask, Unbound, MadeBy
  <2>2. procs'[p] = Ready /\ \A q \in Procs \ {p} : procs'[q] = procs[q]
    BY <1>4 DEF RollbackTask, Return, Becomes, TypeInv
  <2>3. \A u \in Tasks \ {t} : task'[u] = task[u]
    BY <1>4, <2>1 DEF RollbackTask, SetTask, TypeInv
  <2>4. Ready.pc = "ready"
    BY RecordsTyped
  <2>5. /\ \A u \in Tasks : Exists(u) /\ ~MadeBy(p, u) =>
              task'[u].status # "absent" /\ task'[u].owner = task[u].owner
        /\ \A u \in Tasks, w \in Workers : ~MadeBy(p, u) /\ Unused(task[u], w) =>
              Unused(task'[u], w)
    BY <2>1, <2>3 DEF Exists
  <2> QED BY <1>4, <2>2, <2>4, <2>5, KeptBelongs DEF BelongStep, RollbackTask
<1> QED BY <1>1, <1>2, <1>3, <1>4 DEF IntakeStep

LEMMA NextWorkerBelongs ==
    ASSUME TypeInv, BelongInv, NEW p \in Procs, NextWorker(p), UNCHANGED task,
           ActiveKept(p), QueueKept(p), RunsKept
    PROVE  BelongStep(p)
<1>1. CASE procs[p].w < NumWorkers
  <2> DEFINE new == [procs[p] EXCEPT !.w = procs[p].w + 1, !.pc = "consider"]
  <2>1. new.pc = "consider" /\ Becomes(p, new)
    BY <1>1, ProcTyped DEF NextWorker, Process
  <2> HIDE DEF new
  <2> QED BY <2>1, BecomesBelongs DEF MakingPc, Loose
<1> QED BY <1>1, ReturnBelongs DEF NextWorker

LEMMA ScheduleBelongs ==
    ASSUME TypeInv, CopyInv, BelongInv, NEW p \in Procs, ScheduleStep(p)
    PROVE  BelongStep(p)
<1> USE DEF MakingPc, Loose
<1>1. CASE SnapshotWorker(p)
  <2> DEFINE w == procs[p].w
             snap == [procs[p].snap EXCEPT ![w] = state[w]]
             next == [procs[p] EXCEPT !.snap = snap, !.w = w + 1]
             first == [procs[p] EXCEPT !.snap = snap, !.w = 1, !.pc = "consider"]
  <2>1. next.pc = "snapshot" /\ first.pc = "consider"
    BY <1>1, ProcTyped DEF Process, SnapshotWorker
  <2>2. Becomes(p, next) \/ Return(p) \/ Becomes(p, first)
    BY <1>1 DEF SnapshotWorker
  <2> HIDE DEF next, first
  <2>3. ActiveKept(p) /\ QueueKept(p) /\ RunsKept /\ UNCHANGED task
    BY <1>1, KeptBelongs DEF SnapshotWorker
  <2> QED BY <2>1, <2>2, <2>3, BecomesBelongs, ReturnBelongs
<1>2. CASE ConsiderWorker(p)
  <2>1. ActiveKept(p) /\ QueueKept(p) /\ RunsKept /\ UNCHANGED task
    BY <1>2, KeptBelongs DEF ConsiderWorker
  <2> QED BY <1>2, <2>1, NextWorkerBelongs, GotoBelongs DEF ConsiderWorker
<1>3. CASE LeaseHead(p)
  <2> DEFINE w == procs[p].w
             new == [procs[p] EXCEPT !.t = queue[w][1].task, !.pc = "inspect"]
  <2>1. w \in Workers /\ queue[w] \in Seq(Entry) /\ ActiveKept(p) /\ RunsKept /\ UNCHANGED task
    BY <1>3, ProcTyped, KeptBelongs DEF LeaseHead, TypeInv
  <2>2. CASE CanAcquire(queue[w])
    <3>1. queue[w] # <<>>
      BY <2>2 DEF CanAcquire
    <3>2. queue[w][1].task \in Tasks /\ ListsOf(Acquire(queue[w], p), queue[w])
      BY <2>1, <3>1, AcquireKeeps
    <3>3. queue' = [queue EXCEPT ![w] = Acquire(queue[w], p)] /\ Becomes(p, new)
      BY <1>3, <2>2 DEF LeaseHead
    <3>4. \A v \in Workers : ListsOf(queue'[v], queue[v])
      BY <3>2, <3>3 DEF TypeInv, ListsOf
    <3>5. Queued(queue[w], queue[w][1].task)
      <4>1. DOMAIN queue[w] = 1 .. Len(queue[w]) /\ Len(queue[w]) \in Nat \ {0}
        BY <2>1, <3>1, LenProperties, EmptySeq
      <4> QED BY <4>1 DEF Queued
    <3>6. Settled(queue[w][1].task, w)
      BY <2>1, <3>2, <3>5 DEF BelongInv, QueuesSettled
    <3>7. new.pc = "inspect" /\ new.t = queue[w][1].task /\ new.w = w
      BY ProcTyped DEF Process
    <3> HIDE DEF new
    <3> QED BY <2>1, <3>3, <3>4, <3>6, <3>7, KeptBelongs, BecomesBelongs
  <2>3. CASE ~CanAcquire(queue[w])
    <3>1. QueueKept(p) /\ (Return(p) \/ NextWorker(p))
      BY <1>3, <2>3, KeptBelongs DEF LeaseHead
    <3> QED BY <2>1, <3>1, NextWorkerBelongs, ReturnBelongs
  <2> QED BY <2>2, <2>3
<1>4. CASE InspectTask(p)
  <2>1. PICK pc \in {"giveback", "reserve", "skip"} : Goto(p, pc)
    BY <1>4 DEF InspectTask
  <2>2. procs[p].pc = "inspect" /\ ActiveKept(p) /\ QueueKept(p) /\ RunsKept /\ UNCHANGED task
    BY <1>4, KeptBelongs DEF InspectTask
  <2> QED BY <2>1, <2>2, GotoBelongs
<1>5. CASE GiveLeaseBack(p)
  <2> DEFINE w == procs[p].w
  <2>1. w \in Workers /\ queue[w] \in Seq(Entry) /\ ActiveKept(p) /\ RunsKept /\ UNCHANGED task
    BY <1>5, ProcTyped, KeptBelongs DEF GiveLeaseBack, TypeInv
  <2>2. ListsOf(Release(queue[w], procs[p].t, p), queue[w])
    BY <2>1, ReleaseKeeps
  <2>3. queue' = [queue EXCEPT ![w] = Release(queue[w], procs[p].t, p)]
    BY <1>5 DEF GiveLeaseBack
  <2>4. \A v \in Workers : ListsOf(queue'[v], queue[v])
    BY <2>2, <2>3 DEF TypeInv, ListsOf
  <2>5. QueueKept(p)
    BY <2>4, KeptBelongs
  <2> QED BY <1>5, <2>1, <2>5, NextWorkerBelongs, ReturnBelongs DEF GiveLeaseBack
<1>6. CASE ReserveWorker(p)
  <2> DEFINE w == procs[p].w
             copy == procs[p].snap[w]
             new == [copy EXCEPT !.active = procs[p].t]
  <2>1. procs[p].t \in Tasks /\ w \in Workers /\ Settled(procs[p].t, w)
    BY <1>6, OwnTask DEF ReserveWorker
  <2>2. CASE UNCHANGED state /\ Goto(p, "giveback")
    BY <1>6, <2>2, KeptBelongs, GotoBelongs DEF ReserveWorker
  <2>3. CASE state' = [state EXCEPT ![w] = Saved(new)] /\ Goto(p, "mark")
    <3>1. new \in WorkerState /\ new.active = procs[p].t
      BY <2>1, ProcTyped DEF WorkerState
    <3> HIDE DEF new
    <3>2. ActiveKept(p)
      BY <2>1, <2>3, <3>1, SavedActive DEF Given
    <3> QED BY <1>6, <2>3, <3>2, KeptBelongs, GotoBelongs DEF ReserveWorker
  <2> QED BY <1>6, <2>2, <2>3 DEF ReserveWorker
<1>7. CASE MarkAssigned(p)
  <2> DEFINE t == procs[p].t
             k == [task[t] EXCEPT !.status = "assigned"]
  <2>1. CASE Return(p) /\ UNCHANGED task
    BY <1>7, <2>1, KeptBelongs, ReturnBelongs DEF MarkAssigned
  <2>2. CASE SetTask(t, k) /\ Goto(p, "commit")
    <3>1. task[t] \in Task
      BY <1>7, OwnTask DEF MarkAssigned
    <3>2. k.status = "assigned" /\ k.owner = task[t].owner
      BY <3>1 DEF Task
    <3> HIDE DEF k
    <3> QED BY <1>7, <2>2, <3>2, OwnTaskBelongs DEF MarkAssigned
  <2> QED BY <1>7, <2>1, <2>2 DEF MarkAssigned, SetControlStatus
<1>8. CASE CommitLease(p)
  <2> DEFINE w == procs[p].w
  <2>1. w \in Workers /\ queue[w] \in Seq(Entry) /\ ActiveKept(p) /\ RunsKept /\ UNCHANGED task
    BY <1>8, ProcTyped, KeptBelongs DEF CommitLease, TypeInv
  <2>2. CASE UNCHANGED queue /\ Return(p)
    BY <2>1, <2>2, KeptBelongs, ReturnBelongs
  <2>3. CASE /\ queue[w] # <<>>
             /\ queue' = [queue EXCEPT ![w] = Commit(queue[w])]
             /\ Goto(p, "start")
    <3>1. ListsOf(Commit(queue[w]), queue[w])
      BY <2>1, <2>3, CommitKeeps
    <3>2. \A v \in Workers : ListsOf(queue'[v], queue[v])
      BY <2>3, <3>1 DEF TypeInv, ListsOf
    <3> QED BY <2>1, <2>3, <3>2, KeptBelongs, GotoBelongs
  <2> QED BY <1>8, <2>2, <2>3 DEF CommitLease, CanCommit
<1> QED BY <1>1, <1>2, <1>3, <1>4, <1>5, <1>6, <1>7, <1>8 DEF ScheduleStep

LEMMA StartBelongs ==
    ASSUME TypeInv, CopyInv, BelongInv, NEW p \in Procs, StartStep(p)
    PROVE  BelongStep(p)
<1> USE DEF MakingPc, Loose
<1>0. procs[p].w \in Workers /\ procs[p].st \in WorkerState /\ state[procs[p].w] \in WorkerState
  BY ProcTyped DEF TypeInv
<1>1. CASE StartLoadState(p)
  <2> DEFINE st == state[procs[p].w]
             new == [procs[p] EXCEPT !.st = st, !.t = st.active, !.pc = "restore"]
  <2>1. ActiveKept(p) /\ QueueKept(p) /\ RunsKept /\ UNCHANGED task
    BY <1>1, KeptBelongs DEF StartLoadState
  <2>2. CASE Return(p)
    BY <2>1, <2>2, ReturnBelongs
  <2>3. CASE Becomes(p, new) /\ st.active # NoTask
    <3>1. new.pc = "restore" /\ new.t = st.active /\ new.w = procs[p].w
      BY ProcTyped DEF Process
    <3>2. Settled(st.active, procs[p].w)
      BY <1>0, <2>3 DEF BelongInv, ActiveSettled, WorkerState
    <3> HIDE DEF new
    <3> QED BY <2>1, <2>3, <3>1, <3>2, BecomesBelongs
  <2> QED BY <1>1, <2>2, <2>3 DEF StartLoadState
<1>2. CASE StartLoadTask(p)
  BY <1>2, KeptBelongs, ReturnBelongs, GotoBelongs DEF StartLoadTask
<1>3. CASE ClaimWorktree(p)
  BY <1>3, KeptBelongs, ReturnBelongs, GotoBelongs DEF ClaimWorktree
<1>4. CASE SaveLocation(p)
  BY <1>0, <1>4, SaveBelongs DEF SaveLocation
<1>5. CASE StartFails(p)
  BY <1>5, KeptBelongs, ReturnBelongs DEF StartFails
<1>6. CASE Depart(p)
  <2> DEFINE new == Became(procs[p].st, "starting")
  <2>1. new \in WorkerState /\ new.active = procs[p].st.active
    BY <1>0 DEF Became, WorkerState, Lifecycle
  <2> HIDE DEF new
  <2>2. Save(p, new, "launch") /\ UNCHANGED <<task, queue, live>> /\ procs[p].pc = "depart"
    BY <1>6 DEF Depart, new
  <2> QED BY <2>1, <2>2, SaveBelongs
<1>7. CASE Launch(p)
  <2>1. PICK out \in Outcome \ {"none"} :
           /\ Becomes(p, [procs[p] EXCEPT !.out = out, !.pc = "record"])
           /\ live' = IF out = "async" THEN live \cup {ThisRun(p)} ELSE live
    BY <1>7 DEF Launch
  <2> DEFINE new == [procs[p] EXCEPT !.out = out, !.pc = "record"]
  <2>2. new.pc = "record" /\ new.t = procs[p].t /\ new.w = procs[p].w
    BY ProcTyped DEF Process
  <2>3. Settled(procs[p].t, procs[p].w)
    BY <1>7, OwnTask DEF Launch
  <2>4. RunsKept
    BY <1>0, <2>1, <2>3 DEF RunsKept, BelongInv, RunsSettled, ThisRun
  <2>5. ActiveKept(p) /\ QueueKept(p) /\ UNCHANGED task
    BY <1>7, KeptBelongs DEF Launch
  <2>6. Becomes(p, new)
    BY <2>1
  <2> HIDE DEF new
  <2> QED BY <2>2, <2>3, <2>4, <2>5, <2>6, BecomesBelongs
<1>8. CASE RecordAttempt(p)
  <2> DEFINE t == procs[p].t
             failed == procs[p].out = "error"
             attempts == Append(task[t].attempts,
                                IF failed THEN "launch_failed" ELSE "executing")
             status == IF failed THEN "failed" ELSE task[t].status
             k == [task[t] EXCEPT !.attempts = attempts, !.status = status]
  <2>1. task[t] \in Task /\ task[t].status # "absent"
    BY <1>8, OwnTask DEF RecordAttempt, Exists
  <2>2. status # "absent"
    BY <2>1
  <2> HIDE DEF attempts, status
  <2>3. k.status # "absent" /\ k.owner = task[t].owner
    BY <2>1, <2>2 DEF Task
  <2> HIDE DEF k
  <2>4. SetTask(t, k) /\ Goto(p, "settle") /\ UNCHANGED <<state, queue, live>>
        /\ procs[p].pc = "record"
    BY <1>8 DEF RecordAttempt, k, attempts, status
  <2> QED BY <2>3, <2>4, OwnTaskBelongs
<1>9. CASE SettleFailed(p)
  <2> DEFINE run == IF procs[p].out = "norun" THEN 0 ELSE Len(task[procs[p].t].attempts)
             new == [procs[p].st EXCEPT !.life = "failed", !.run = run]
  <2>1. run \in Nat
    <3>1. task[procs[p].t] \in Task
      BY <1>9, OwnTask DEF SettleFailed
    <3> QED BY <3>1, LenProperties DEF Task
  <2> HIDE DEF run
  <2>2. new \in WorkerState /\ new.active = procs[p].st.active
    BY <1>0, <2>1 DEF WorkerState, Lifecycle
  <2> HIDE DEF new
  <2>3. SaveLast(p, new) /\ UNCHANGED <<task, queue, live>>
    BY <1>9 DEF SettleFailed, new, run
  <2> QED BY <2>2, <2>3, SaveLastBelongs
<1>10. CASE TransferClaim(p)
  BY <1>10, KeptBelongs, GotoBelongs DEF TransferClaim
<1>11. CASE Ascend(p)
  <2> DEFINE new == [procs[p].st EXCEPT !.life = "executing",
                                        !.run = Len(task[procs[p].t].attempts)]
  <2>1. Len(task[procs[p].t].attempts) \in Nat
    <3>1. task[procs[p].t] \in Task
      BY <1>11, OwnTask DEF Ascend
    <3> QED BY <3>1, LenProperties DEF Task
  <2>2. new \in WorkerState /\ new.active = procs[p].st.active
    BY <1>0, <2>1 DEF WorkerState, Lifecycle
  <2> HIDE DEF new
  <2>3. /\ Save(p, new, "check") \/ SaveLast(p, new)
        /\ UNCHANGED <<task, queue, live>> /\ procs[p].pc = "ascend"
    BY <1>11 DEF Ascend, new
  <2> QED BY <2>2, <2>3, SaveBelongs, SaveLastBelongs
<1>12. CASE CheckCompletion(p)
  <2> DEFINE new == Became(procs[p].st, "blocked")
  <2>1. new \in WorkerState /\ new.active = procs[p].st.active
    BY <1>0 DEF Became, WorkerState, Lifecycle
  <2> HIDE DEF new
  <2>2. CASE SaveLast(p, new)
    BY <1>12, <2>1, <2>2, SaveLastBelongs DEF CheckCompletion
  <2>3. CASE Return(p) /\ UNCHANGED state
    BY <1>12, <2>3, KeptBelongs, ReturnBelongs DEF CheckCompletion
  <2> QED BY <1>12, <2>2, <2>3 DEF CheckCompletion, new
<1>13. CASE StartConflict(p)
  BY <1>13, KeptBelongs, ReturnBelongs DEF StartConflict
<1> QED BY <1>1, <1>2, <1>3, <1>4, <1>5, <1>6, <1>7, <1>8, <1>9, <1>10, <1>11, <1>12, <1>13
        DEF StartStep

LEMMA ControlBelongs ==
    ASSUME TypeInv, CopyInv, BelongInv, NEW p \in Procs, ControlStep(p)
    PROVE  BelongStep(p)
<1> USE DEF MakingPc, Loose
<1>0. procs[p].w \in Workers /\ procs[p].st \in WorkerState /\ state[procs[p].w] \in WorkerState
  BY ProcTyped DEF TypeInv
<1>1. CASE StopRun(p)
  BY <1>1, KeptBelongs, GotoBelongs DEF StopRun
<1>2. CASE SuspendTask(p)
  <2> DEFINE t == procs[p].t
             attempts == IF task[t].attempts = <<>> THEN task[t].attempts
                         ELSE ReplaceLast(task[t].attempts, "paused")
             k == [task[t] EXCEPT !.status = "paused", !.attempts = attempts]
  <2>1. task[t] \in Task
    BY <1>2, OwnTask DEF SuspendTask
  <2> HIDE DEF attempts
  <2>2. k.status # "absent" /\ k.owner = task[t].owner
    BY <2>1 DEF Task
  <2> HIDE DEF k
  <2>3. SetTask(t, k) /\ Goto(p, "rest") /\ UNCHANGED <<state, queue, live>>
        /\ procs[p].pc = "suspend"
    BY <1>2 DEF SuspendTask, k, attempts
  <2> QED BY <2>2, <2>3, OwnTaskBelongs
<1>3. CASE PauseWorker(p)
  <2> DEFINE new == Became(procs[p].st, "paused")
  <2>1. new \in WorkerState /\ new.active = procs[p].st.active
    BY <1>0 DEF Became, WorkerState, Lifecycle
  <2> HIDE DEF new
  <2>2. /\ Save(p, new, "reload") \/ SaveLast(p, new)
        /\ UNCHANGED <<task, queue, live>>
    BY <1>3 DEF PauseWorker, new
  <2> QED BY <2>1, <2>2, SaveBelongs, SaveLastBelongs
<1>4. CASE WakeWorker(p)
  <2> DEFINE new == Became(procs[p].st, "idle")
  <2>1. new \in WorkerState /\ new.active = procs[p].st.active
    BY <1>0 DEF Became, WorkerState, Lifecycle
  <2> HIDE DEF new
  <2>2. Save(p, new, "reassign") /\ UNCHANGED <<task, queue, live>> /\ procs[p].pc = "wake"
    BY <1>4 DEF WakeWorker, new
  <2> QED BY <2>1, <2>2, SaveBelongs
<1>5. CASE ReassignTask(p)
  <2> DEFINE t == procs[p].t
             k == [task[t] EXCEPT !.status = "assigned"]
  <2>1. task[t] \in Task
    BY <1>5, OwnTask DEF ReassignTask
  <2>2. k.status # "absent" /\ k.owner = task[t].owner
    BY <2>1 DEF Task
  <2> HIDE DEF k
  <2>3. /\ SetTask(t, k) /\ UNCHANGED <<state, queue, live>> /\ procs[p].pc = "reassign"
        /\ Goto(p, "start") \/ Goto(p, "adopt")
    BY <1>5 DEF ReassignTask, SetControlStatus, k
  <2> QED BY <2>2, <2>3, OwnTaskBelongs
<1>6. CASE FindWorker(p)
  <2> DEFINE new == [procs[p] EXCEPT !.st = state[procs[p].w], !.pc = "reassign"]
  <2>1. new.pc = "reassign" /\ new.t = procs[p].t /\ new.w = procs[p].w
    BY ProcTyped DEF Process
  <2> HIDE DEF new
  <2>2. /\ Becomes(p, new) \/ Return(p)
        /\ ActiveKept(p) /\ QueueKept(p) /\ RunsKept /\ UNCHANGED task
    BY <1>6, KeptBelongs DEF FindWorker, new
  <2>3. Settled(procs[p].t, procs[p].w)
    BY <1>6, OwnTask DEF FindWorker
  <2> QED BY <2>1, <2>2, <2>3, BecomesBelongs, ReturnBelongs
<1>7. CASE AdoptTask(p)
  <2> DEFINE st == procs[p].st
             adopted == [st EXCEPT !.life = "idle", !.active = procs[p].t]
             cleared == Became(Vacant(st), "idle")
  <2>1. procs[p].t \in Tasks /\ procs[p].pc = "adopt" /\ UNCHANGED <<task, queue, live>>
    BY <1>7, OwnTask DEF AdoptTask
  <2>2. adopted \in WorkerState /\ adopted.active = procs[p].t
    BY <1>0, <2>1 DEF WorkerState, Lifecycle
  <2>3. cleared \in WorkerState /\ cleared.active = NoTask
    BY <1>0 DEF Became, Vacant, WorkerState, Lifecycle
  <2>4. CASE st.life \in {"idle", "paused"}
    <3>1. Save(p, adopted, "start")
      BY <1>7, <2>4 DEF AdoptTask
    <3> HIDE DEF adopted
    <3> QED BY <2>1, <2>2, <3>1, SaveBelongs
  <2>5. CASE st.life \in {"failed", "awaiting_review"}
    <3>1. Save(p, cleared, "readopt")
      BY <1>7, <2>5 DEF AdoptTask
    <3> HIDE DEF cleared
    <3> QED BY <2>1, <2>3, <3>1, SaveBelongs
  <2>6. CASE st.life \notin {"idle", "paused", "failed", "awaiting_review"}
    <3>1. Return(p) /\ UNCHANGED state
      BY <1>7, <2>6 DEF AdoptTask
    <3> QED BY <2>1, <3>1, KeptBelongs, ReturnBelongs
  <2> QED BY <2>4, <2>5, <2>6
<1>8. CASE ReadoptTask(p)
  <2> DEFINE new == [procs[p].st EXCEPT !.active = procs[p].t]
  <2>1. procs[p].t \in Tasks /\ procs[p].pc = "readopt" /\ UNCHANGED <<task, queue, live>>
    BY <1>8, OwnTask DEF ReadoptTask
  <2>2. new \in WorkerState /\ new.active = procs[p].t
    BY <1>0, <2>1 DEF WorkerState
  <2> HIDE DEF new
  <2>3. Save(p, new, "start")
    BY <1>8 DEF ReadoptTask, new
  <2> QED BY <2>1, <2>2, <2>3, SaveBelongs
<1>9. CASE LookAtWorker(p)
  <2> DEFINE st == state[procs[p].w]
             running == st.active = procs[p].t /\ st.life = "executing"
             pc == IF running THEN "stop" ELSE AfterStop(p)
             new == [procs[p] EXCEPT !.st = st, !.pc = pc]
  <2>1. procs[p].t \in Tasks
    BY <1>9, ProcTyped DEF LookAtWorker, Unbound
  <2>2. pc \in Loose \/ (pc = "stop" /\ Settled(procs[p].t, procs[p].w))
    BY <1>0, <2>1 DEF AfterStop, BelongInv, ActiveSettled
  <2>3. pc \notin MakingPc
    BY DEF AfterStop
  <2> HIDE DEF pc
  <2>4. new.pc = pc /\ new.t = procs[p].t /\ new.w = procs[p].w
    BY ProcTyped DEF Process
  <2> HIDE DEF new
  <2>5. Becomes(p, new) /\ ActiveKept(p) /\ QueueKept(p) /\ RunsKept /\ UNCHANGED task
    BY <1>9, KeptBelongs DEF LookAtWorker, new, pc
  <2> QED BY <2>2, <2>3, <2>4, <2>5, BecomesBelongs
<1>10. CASE ReloadWorker(p)
  <2> DEFINE new == [procs[p] EXCEPT !.st = state[procs[p].w], !.pc = AfterStop(p)]
  <2>1. new.pc \in {"dequeue", "void"}
    BY ProcTyped DEF Process, AfterStop
  <2> HIDE DEF new
  <2>2. Becomes(p, new) /\ ActiveKept(p) /\ QueueKept(p) /\ RunsKept /\ UNCHANGED task
    BY <1>10, KeptBelongs DEF ReloadWorker, new
  <2> QED BY <2>1, <2>2, BecomesBelongs
<1>11. CASE CancelQueued(p)
  <2> DEFINE w == procs[p].w
  <2>1. ActiveKept(p) /\ RunsKept /\ UNCHANGED task /\ queue[w] \in Seq(Entry)
    BY <1>0, <1>11, KeptBelongs DEF CancelQueued, TypeInv
  <2>2. \A i \in DOMAIN queue[w] : ListsOf(RemoveAt(queue[w], i), queue[w])
    BY <2>1, RemoveKeeps
  <2>3. /\ \/ UNCHANGED queue
           \/ \E i \in DOMAIN queue[w] : queue' = [queue EXCEPT ![w] = RemoveAt(queue[w], i)]
        /\ Goto(p, "void") \/ Return(p)
    BY <1>11 DEF CancelQueued
  <2>4. \A v \in Workers : ListsOf(queue'[v], queue[v])
    <3>1. CASE UNCHANGED queue
      BY <3>1 DEF ListsOf
    <3>2. ASSUME NEW i \in DOMAIN queue[w], queue' = [queue EXCEPT ![w] = RemoveAt(queue[w], i)]
          PROVE  \A v \in Workers : ListsOf(queue'[v], queue[v])
      <4>1. PICK r : r = RemoveAt(queue[w], i)
        OBVIOUS
      <4> QED BY <2>2, <3>2, <4>1 DEF TypeInv, ListsOf
    <3> QED BY <2>3, <3>1, <3>2
  <2>5. QueueKept(p)
    BY <2>4, KeptBelongs
  <2> QED BY <2>1, <2>3, <2>5, GotoBelongs, ReturnBelongs
<1>12. CASE VoidTask(p)
  <2> DEFINE t == procs[p].t
             k == [task[t] EXCEPT !.status = "canceled"]
  <2>1. t \in Tasks /\ task[t] \in Task /\ UNCHANGED <<state, queue, live>>
    BY <1>12, ProcTyped DEF VoidTask, Unbound, TypeInv
  <2>2. CASE Exists(t)
    <3>1. /\ k.status = "canceled" /\ k.owner = task[t].owner
          /\ k.attempts = task[t].attempts /\ k.handoffs = task[t].handoffs
      BY <2>1 DEF Task
    <3> HIDE DEF k
    <3>2. SetTask(t, k)
      BY <1>12, <2>2 DEF VoidTask, SetControlStatus, k
    <3>3. Goto(p, "vacate") \/ Return(p)
      BY <1>12 DEF VoidTask
    <3> DEFINE new == [procs[p] EXCEPT !.pc = "vacate"]
    <3>4. new.pc = "vacate" /\ Ready.pc = "ready"
      BY ProcTyped, RecordsTyped DEF Process
    <3>5. Becomes(p, new) \/ Becomes(p, Ready)
      BY <3>3 DEF Goto, Return
    <3> HIDE DEF new
    <3> QED BY <2>1, <2>2, <3>1, <3>2, <3>4, <3>5, TaskBelongs
  <2>3. CASE ~Exists(t)
    <3>1. UNCHANGED task /\ Return(p)
      BY <1>12, <2>3 DEF VoidTask
    <3> QED BY <2>1, <3>1, KeptBelongs, ReturnBelongs
  <2> QED BY <2>2, <2>3
<1>13. CASE VacateWorker(p)
  <2> DEFINE st == procs[p].st
             new == [Vacant(st) EXCEPT !.life = IF @ = "paused" THEN "idle" ELSE @]
  <2>1. new \in WorkerState /\ new.active = NoTask
    BY <1>0 DEF Vacant, WorkerState, Lifecycle
  <2> HIDE DEF new
  <2>2. SaveLast(p, new) /\ UNCHANGED <<task, queue, live>>
    BY <1>13 DEF VacateWorker, new
  <2> QED BY <2>1, <2>2, SaveLastBelongs
<1>14. CASE ControlConflict(p)
  BY <1>14, KeptBelongs, ReturnBelongs DEF ControlConflict
<1> QED BY <1>1, <1>2, <1>3, <1>4, <1>5, <1>6, <1>7, <1>8, <1>9, <1>10, <1>11, <1>12,
           <1>13, <1>14 DEF ControlStep

LEMMA ReviewBelongs ==
    ASSUME TypeInv, CopyInv, BelongInv, NEW p \in Procs, ReviewStep(p)
    PROVE  BelongStep(p)
<1> USE DEF MakingPc, Loose
<1>0. procs[p].w \in Workers /\ procs[p].st \in WorkerState /\ state[procs[p].w] \in WorkerState
  BY ProcTyped DEF TypeInv
<1>1. CASE SubmitLoadState(p)
  <2> DEFINE new == [procs[p] EXCEPT !.st = state[procs[p].w], !.pc = "handoff"]
  <2>1. new.pc = "handoff" /\ new.t = procs[p].t /\ new.w = procs[p].w
    BY ProcTyped DEF Process
  <2> HIDE DEF new
  <2>2. /\ Becomes(p, new) \/ Return(p)
        /\ ActiveKept(p) /\ QueueKept(p) /\ RunsKept /\ UNCHANGED task
    BY <1>1, KeptBelongs DEF SubmitLoadState, new
  <2>3. Settled(procs[p].t, procs[p].w)
    BY <1>1, OwnTask DEF SubmitLoadState
  <2> QED BY <2>1, <2>2, <2>3, BecomesBelongs, ReturnBelongs
<1>2. CASE AppendHandoff(p)
  <2> DEFINE t == procs[p].t
             handoffs == Append(task[t].handoffs, "pending")
             k == [task[t] EXCEPT !.status = "awaiting_review", !.handoffs = handoffs]
  <2>1. task[t] \in Task
    BY <1>2, OwnTask DEF AppendHandoff
  <2> HIDE DEF handoffs
  <2>2. k.status # "absent" /\ k.owner = task[t].owner
    BY <2>1 DEF Task
  <2> HIDE DEF k
  <2>3. SetTask(t, k) /\ Goto(p, "await") /\ UNCHANGED <<state, queue, live>>
        /\ procs[p].pc = "handoff"
    BY <1>2 DEF AppendHandoff, k, handoffs
  <2> QED BY <2>2, <2>3, OwnTaskBelongs
<1>3. CASE AwaitReview(p)
  <2> DEFINE new == Became(procs[p].st, "awaiting_review")
  <2>1. new \in WorkerState /\ new.active = procs[p].st.active
    BY <1>0 DEF Became, WorkerState, Lifecycle
  <2> HIDE DEF new
  <2>2. SaveLast(p, new) /\ UNCHANGED <<task, queue, live>>
    BY <1>3 DEF AwaitReview, new
  <2> QED BY <2>1, <2>2, SaveLastBelongs
<1>4. CASE VerdictLoadState(p)
  <2> DEFINE new == [procs[p] EXCEPT !.st = state[procs[p].w], !.pc = "decide"]
  <2>1. new.pc = "decide" /\ new.t = procs[p].t /\ new.w = procs[p].w
    BY ProcTyped DEF Process
  <2> HIDE DEF new
  <2>2. /\ Becomes(p, new)
        /\ ActiveKept(p) /\ QueueKept(p) /\ RunsKept /\ UNCHANGED task
    BY <1>4, KeptBelongs DEF VerdictLoadState, new
  <2>3. Settled(procs[p].t, procs[p].w)
    BY <1>4, OwnTask DEF VerdictLoadState
  <2> QED BY <2>1, <2>2, <2>3, BecomesBelongs
<1>5. CASE DecideHandoff(p)
  <2> DEFINE t == procs[p].t
             accepted == procs[p].op = "accept"
             status == IF accepted THEN "accepted" ELSE "pending"
             handoffs == ReplaceLast(task[t].handoffs,
                                     IF accepted THEN "accepted" ELSE "rejected")
             k == [task[t] EXCEPT !.status = status, !.handoffs = handoffs]
  <2>1. task[t] \in Task /\ status # "absent"
    BY <1>5, OwnTask DEF DecideHandoff
  <2> HIDE DEF handoffs, status
  <2>2. k.status # "absent" /\ k.owner = task[t].owner
    BY <2>1 DEF Task
  <2> HIDE DEF k
  <2>3. /\ SetTask(t, k) /\ UNCHANGED <<state, queue, live>> /\ procs[p].pc = "decide"
        /\ Goto(p, "close") \/ Goto(p, "requeue")
    BY <1>5 DEF DecideHandoff, k, handoffs, status
  <2> QED BY <2>2, <2>3, OwnTaskBelongs
<1>6. CASE RequeueTask(p)
  <2> DEFINE w == procs[p].w
             t == procs[p].t
  <2>1. /\ t \in Tasks /\ Settled(t, w) /\ queue[w] \in Seq(Entry)
        /\ ActiveKept(p) /\ RunsKept /\ UNCHANGED task /\ procs[p].pc = "requeue"
    BY <1>0, <1>6, OwnTask, KeptBelongs DEF RequeueTask, TypeInv
  <2>2. CASE Return(p) /\ UNCHANGED queue
    BY <2>1, <2>2, KeptBelongs, ReturnBelongs
  <2>3. CASE queue' = [queue EXCEPT ![w] = Enqueue(@, t)] /\ Goto(p, "close")
    <3>1. \A u \in Tasks : Queued(Enqueue(queue[w], t), u) => u = t \/ Queued(queue[w], u)
      BY <2>1, EnqueueKeeps
    <3>2. queue'[w] = Enqueue(queue[w], t) /\ \A v \in Workers \ {w} : queue'[v] = queue[v]
      BY <1>0, <2>3 DEF TypeInv
    <3>3. QueueKept(p)
      BY <2>1, <3>1, <3>2 DEF QueueKept, BelongInv, QueuesSettled, Given
    <3> QED BY <2>1, <2>3, <3>3, GotoBelongs
  <2> QED BY <1>6, <2>2, <2>3 DEF RequeueTask
<1>7. CASE CloseReview(p)
  <2> DEFINE new == Became(Vacant(procs[p].st), "idle")
  <2>1. new \in WorkerState /\ new.active = NoTask
    BY <1>0 DEF Became, Vacant, WorkerState, Lifecycle
  <2> HIDE DEF new
  <2>2. SaveLast(p, new) /\ UNCHANGED <<task, queue, live>>
    BY <1>7 DEF CloseReview, new
  <2> QED BY <2>1, <2>2, SaveLastBelongs
<1>8. CASE ReviewConflict(p)
  BY <1>8, KeptBelongs, ReturnBelongs DEF ReviewConflict
<1> QED BY <1>1, <1>2, <1>3, <1>4, <1>5, <1>6, <1>7, <1>8 DEF ReviewStep

\* A new invocation with a task, or with none.
LEMMA BeginBelongs ==
    ASSUME TypeInv, BelongInv, NEW p \in Procs, NEW cmd, NEW pc, NEW w, NEW t, NEW st,
           Begin(p, cmd, pc, w, t, st), UNCHANGED <<state, task, queue, live>>,
           pc \notin MakingPc, pc \notin Loose => Settled(t, w)
    PROVE  BelongStep(p)
<1> DEFINE new == [Ready EXCEPT !.op = cmd, !.pc = pc, !.w = w, !.t = t, !.st = st]
<1>1. new.pc = pc /\ new.t = t /\ new.w = w
  BY DEF Ready
<1>2. Becomes(p, new)
  BY DEF Begin
<1> HIDE DEF new
<1> QED BY <1>1, <1>2, KeptBelongs, BecomesBelongs

\* A task that was launched, submitted, paused or failed has no maker any more.
LEMMA UsedSettled ==
    ASSUME TypeInv, BelongInv, NEW t \in Tasks, Exists(t), ~Unused(task[t], task[t].owner)
    PROVE  Settled(t, task[t].owner)
BY DEF BelongInv, MakersApart, MadeBy, Settled, Unused

LEMMA InvokeBelongs ==
    ASSUME TypeInv, BelongInv, NEW p \in Procs, Invoke(p)
    PROVE  BelongStep(p)
<1> USE DEF MakingPc, Loose
<1>1. CASE \E w \in Workers, t \in Tasks : BeginIntake(p, w, t)
  BY <1>1, BeginBelongs DEF BeginIntake
<1>2. CASE \E w \in Workers : BeginStart(p, w)
  BY <1>2, BeginBelongs DEF BeginStart
<1>3. CASE BeginSchedule(p)
  BY <1>3, BeginBelongs DEF BeginSchedule
<1>4. ASSUME NEW w \in Workers, state[w].active # NoTask PROVE Settled(state[w].active, w)
  BY <1>4 DEF TypeInv, WorkerState, BelongInv, ActiveSettled
<1>5. CASE \E w \in Workers : BeginPause(p, w)
  BY <1>4, <1>5, BeginBelongs DEF BeginPause
<1>6. CASE \E w \in Workers : BeginResume(p, w)
  BY <1>4, <1>6, BeginBelongs DEF BeginResume
<1>7. CASE \E t \in Tasks : BeginRetry(p, t)
  <2>1. PICK t \in Tasks : BeginRetry(p, t)
    BY <1>7
  <2>2. Settled(t, task[t].owner)
    BY <2>1, UsedSettled DEF BeginRetry, Exists, Unused
  <2> QED BY <2>1, <2>2, BeginBelongs DEF BeginRetry
<1>8. CASE \E t \in Tasks : BeginCancel(p, t)
  <2>1. PICK t \in Tasks : BeginCancel(p, t)
    BY <1>8
  <2> DEFINE new == [Ready EXCEPT !.op = "cancel", !.pc = "look", !.w = task[t].owner,
                                  !.t = t, !.status = task[t].status]
  <2>2. new.pc = "look"
    BY DEF Ready
  <2>3. Becomes(p, new) /\ UNCHANGED <<state, task, queue, live>>
    BY <2>1 DEF BeginCancel
  <2> HIDE DEF new
  <2> QED BY <2>2, <2>3, KeptBelongs, BecomesBelongs
<1>9. CASE \E t \in Tasks : BeginSubmit(p, t)
  <2>1. PICK t \in Tasks : BeginSubmit(p, t)
    BY <1>9
  <2>2. Settled(t, task[t].owner)
    BY <2>1, UsedSettled DEF BeginSubmit, Exists, Unused
  <2> QED BY <2>1, <2>2, BeginBelongs DEF BeginSubmit
<1>10. CASE \E t \in Tasks : BeginVerdict(p, t)
  <2>1. PICK t \in Tasks : BeginVerdict(p, t)
    BY <1>10
  <2>2. Settled(t, task[t].owner)
    BY <2>1, UsedSettled DEF BeginVerdict, Unused
  <2> QED BY <2>1, <2>2, BeginBelongs DEF BeginVerdict
<1> QED BY <1>1, <1>2, <1>3, <1>5, <1>6, <1>7, <1>8, <1>9, <1>10 DEF Invoke

\* What an operator, the clock or the end of a run does to the worker states and
\* the queues.
LEMMA QuietSteps ==
    ASSUME TypeInv, NEW w \in Workers, Operate(w) \/ ExpireLease(w)
    PROVE  /\ UNCHANGED <<procs, task, live>>
           /\ \A v \in Workers : state'[v].active \in {NoTask, state[v].active}
           /\ \A v \in Workers : ListsOf(queue'[v], queue[v])
<1>1. queue[w] \in Seq(Entry) /\ DOMAIN queue[w] = 1 .. Len(queue[w])
  BY LenProperties DEF TypeInv
<1>2. ASSUME NEW r, queue' = [queue EXCEPT ![w] = r], ListsOf(r, queue[w])
      PROVE  \A v \in Workers : ListsOf(queue'[v], queue[v])
  BY <1>2 DEF TypeInv, ListsOf
<1>3. CASE ReorderQueue(w)
  <2>1. PICK i, j \in DOMAIN queue[w] : queue' = [queue EXCEPT ![w] = Reorder(queue[w], i, j)]
    BY <1>3 DEF ReorderQueue
  <2>2. ListsOf(Reorder(queue[w], i, j), queue[w])
    BY <1>1, ReorderKeeps
  <2> QED BY <1>2, <1>3, <2>1, <2>2 DEF ReorderQueue
<1>4. CASE RemoveFromQueue(w)
  <2>1. PICK i \in DOMAIN queue[w] : queue' = [queue EXCEPT ![w] = RemoveAt(queue[w], i)]
    BY <1>4 DEF RemoveFromQueue
  <2>2. ListsOf(RemoveAt(queue[w], i), queue[w])
    BY <1>1, RemoveKeeps
  <2> QED BY <1>2, <1>4, <2>1, <2>2 DEF RemoveFromQueue
<1>5. CASE ResetWorker(w)
  <2>1. Saved(Became(Vacant(state[w]), "idle")).active = NoTask
    BY DEF Saved, Became, Vacant, TypeInv, WorkerState
  <2>2. \A v \in Workers : state'[v].active \in {NoTask, state[v].active}
    BY <1>5, <2>1 DEF ResetWorker, TypeInv
  <2> QED BY <1>5, <2>2 DEF ResetWorker, ListsOf
<1>6. CASE ExpireLease(w)
  <2>1. ListsOf(Expire(queue[w], 1), queue[w])
    BY <1>1, <1>6, ExpireKeeps DEF ExpireLease
  <2>2. queue' = [queue EXCEPT ![w] = Expire(queue[w], 1)]
    BY <1>6 DEF ExpireLease
  <2> QED BY <1>2, <1>6, <2>1, <2>2 DEF ExpireLease
<1> QED BY <1>3, <1>4, <1>5, <1>6 DEF Operate

LEMMA RunEnds ==
    ASSUME TypeInv, NEW r \in live, RunCompletes(r)
    PROVE  /\ UNCHANGED <<procs, task, queue>>
           /\ live' \subseteq live
           /\ \A v \in Workers : state'[v].active = state[v].active
<1> DEFINE w == task[r[1]].owner
<1>1. w \in Workers
  BY DEF TypeInv, Run, Task
<1>2. Saved(Became(state[w], "blocked")).active = state[w].active
  BY <1>1 DEF Saved, Became, TypeInv, WorkerState
<1>3. \A v \in Workers : state'[v].active = state[v].active
  <2>1. CASE UNCHANGED state
    BY <2>1
  <2>2. CASE state' = [state EXCEPT ![w] = Saved(Became(state[w], "blocked"))]
    <3>1. PICK new : new = Saved(Became(state[w], "blocked"))
      OBVIOUS
    <3> QED BY <1>1, <1>2, <2>2, <3>1 DEF TypeInv
  <2> QED BY <2>1, <2>2 DEF RunCompletes
<1> QED BY <1>3 DEF RunCompletes

LEMMA InitBelongs == Init => BelongInv
<1> SUFFICES ASSUME Init PROVE BelongInv
  OBVIOUS
<1>1. \A p \in Procs : procs[p].pc = "ready"
  BY RecordsTyped DEF Init
<1>2. \A w \in Workers : state[w].active = NoTask /\ queue[w] = <<>>
  BY DEF Init, NewState
<1>3. \A t : ~Queued(<<>>, t)
  BY DEF Queued
<1>4. live = {}
  BY DEF Init
<1>5. MakersApart /\ ProcsSettled
  BY <1>1 DEF MakersApart, ProcsSettled, MakingPc, Loose
<1>6. QueuesSettled /\ ActiveSettled /\ RunsSettled
  BY <1>2, <1>3, <1>4, NoTaskAssumption DEF QueuesSettled, ActiveSettled, RunsSettled
<1> QED BY <1>5, <1>6 DEF BelongInv

LEMMA NextBelongs == TypeInv /\ CopyInv /\ BelongInv /\ [Next]_vars => BelongInv'
<1> SUFFICES ASSUME TypeInv, CopyInv, BelongInv, [Next]_vars PROVE BelongInv'
  OBVIOUS
<1>1. TypeInv'
  BY NextTyped
<1>2. CASE \E p \in Procs : Invoke(p) \/ Step(p)
  BY <1>1, <1>2, InvokeBelongs, IntakeBelongs, ScheduleBelongs, StartBelongs, ControlBelongs,
     ReviewBelongs, StepBelongs DEF Step
<1>3. CASE \E w \in Workers : Operate(w) \/ ExpireLease(w)
  BY <1>1, <1>3, QuietSteps, QuietBelongs
<1>4. CASE \E r \in live : RunCompletes(r)
  <2>1. PICK r \in live : RunCompletes(r)
    BY <1>4
  <2>2. \A w \in Workers : ListsOf(queue'[w], queue[w])
    BY <2>1, RunEnds DEF ListsOf
  <2> QED BY <1>1, <2>1, <2>2, RunEnds, QuietBelongs
<1>5. CASE \E p \in Procs : Crash(p)
  <2>1. PICK p \in Procs : Crash(p)
    BY <1>5
  <2> QED BY <1>1, <2>1, KeptBelongs, ReturnBelongs, StepBelongs DEF Crash
<1>6. CASE UNCHANGED vars
  BY <1>1, <1>6, QuietBelongs DEF vars, ListsOf
<1> QED BY <1>2, <1>3, <1>4, <1>5, <1>6 DEF Next

\* The worker's active_task_id (workerdomain) names a task file that exists and
\* that belongs to that worker, whatever assign takes back, cancel voids and the
\* verdicts requeue, and whichever invocations die half way.
THEOREM ActiveTasksBelong == Spec => []ActiveTaskBelongs
<1>1. TypeInv /\ BelongInv => ActiveTaskBelongs
  BY DEF TypeInv, WorkerState, BelongInv, ActiveSettled, Settled, ActiveTaskBelongs
<1> QED BY <1>1, InitTyped, NextTyped, InitCopy, NextCopy, InitBelongs, NextBelongs, PTL DEF Spec

-----------------------------------------------------------------------------
(* What a paused worker has left running.  Pause stops the run that its copy *)
(* names; as long as the copy is the record on disk no other run of the      *)
(* task can come up, because only a starting worker launches.                *)

StopPc == {"stop", "suspend", "rest"}
ScanPc == {"lease", "inspect", "reserve"}

Stopping == \A p \in Procs : procs[p].pc \in StopPc => procs[p].st.active = procs[p].t

Stopped ==
    \A p \in Procs : procs[p].pc \in {"suspend", "rest"} /\ Fresh(p) =>
        <<procs[p].t, procs[p].st.run>> \notin live

\* The scheduler only takes up workers that it saw idle.
ScansIdle ==
    \A p \in Procs : procs[p].pc \in ScanPc => procs[p].snap[procs[p].w].life = "idle"

PauseInv ==
    /\ PausedIsStopped
    /\ Stopping
    /\ Stopped
    /\ ScansIdle

\* What a step of p may do.
PauseStep(p) ==
    /\ \A r \in live' : r \in live \/ (procs[p].pc = "launch" /\ r = ThisRun(p))
    /\ \A w \in Workers : state'[w].life = "paused" =>
          \/ state'[w] = state[w]
          \/ <<state'[w].active, state'[w].run>> \notin live'
    /\ procs'[p].pc \in StopPc => procs'[p].st.active = procs'[p].t
    /\ procs'[p].pc \in {"suspend", "rest"} =>
          \/ procs[p].pc = "suspend" /\ live' = live /\ state' = state
                /\ procs'[p] = [procs[p] EXCEPT !.pc = "rest"]
          \/ <<procs'[p].t, procs'[p].st.run>> \notin live'
    /\ procs'[p].pc \in ScanPc => procs'[p].snap[procs'[p].w].life = "idle"

\* A launch is of another task than the one that a paused or executing worker has.
LEMMA LaunchElsewhere ==
    ASSUME TypeInv, CopyInv, BelongInv, NEW p \in Procs, procs[p].pc = "launch",
           NEW w \in Workers, state[w].life # "starting"
    PROVE  ~Settled(procs[p].t, w)
<1>1. Settled(procs[p].t, procs[p].w)
  BY OwnTask DEF Loose, MakingPc
<1>2. state[procs[p].w].life = "starting"
  BY DEF CopyInv, LaunchExclusive, Launching
<1> QED BY <1>1, <1>2 DEF Settled

LEMMA StepPauses ==
    ASSUME TypeInv, TypeInv', CopyInv, BelongInv, PauseInv, NEW p \in Procs, PauseStep(p),
           \A q \in Procs \ {p} : procs'[q] = procs[q],
           \A w \in Workers : Advances(w)
    PROVE  PauseInv'
<1>1. ASSUME NEW w \in Workers, state'[w].life = "paused"
      PROVE  <<state'[w].active, state'[w].run>> \notin live'
  <2>1. CASE state'[w] = state[w]
    <3> SUFFICES ASSUME <<state[w].active, state[w].run>> \in live' PROVE FALSE
      BY <2>1
    <3>1. <<state[w].active, state[w].run>> \notin live
      BY <1>1, <2>1 DEF PauseInv, PausedIsStopped
    <3>2. procs[p].pc = "launch" /\ <<state[w].active, state[w].run>> = ThisRun(p)
      BY <3>1 DEF PauseStep
    <3>3. procs[p].t = state[w].active /\ procs[p].t \in Tasks
      BY <3>2, ProcTyped DEF ThisRun, Unbound
    <3>4. Settled(procs[p].t, w)
      BY <3>3 DEF BelongInv, ActiveSettled
    <3> QED BY <1>1, <2>1, <3>2, <3>4, LaunchElsewhere
  <2> QED BY <1>1, <2>1 DEF PauseStep
<1>2. ASSUME NEW q \in Procs, procs'[q].pc \in {"suspend", "rest"},
             procs'[q].st.rev = state'[procs'[q].w].rev
      PROVE  <<procs'[q].t, procs'[q].st.run>> \notin live'
  <2>1. CASE q # p
    <3>1. procs'[q] = procs[q] /\ procs[q].w \in Workers /\ procs[q].st \in WorkerState
      BY <2>1, ProcTyped
    <3>2. Fresh(q)
      <4>1. /\ procs[q].st.rev \in Nat /\ state[procs[q].w].rev \in Nat
            /\ procs[q].st.rev <= state[procs[q].w].rev
        BY <3>1 DEF TypeInv, WorkerState, CopyInv, CopyOK, IsCopy
      <4> QED BY <1>2, <3>1, <4>1 DEF Advances, Fresh
    <3>3. <<procs[q].t, procs[q].st.run>> \notin live
      BY <1>2, <3>1, <3>2 DEF PauseInv, Stopped
    <3>4. state[procs[q].w].life = "executing"
      BY <1>2, <3>1, <3>2, FreshCopy, LifeKnown DEF LifeAt
    <3>5. Settled(procs[q].t, procs[q].w)
      BY <1>2, <3>1, OwnTask DEF Loose, MakingPc
    <3>6. procs[p].pc = "launch" => <<procs[q].t, procs[q].st.run>> # ThisRun(p)
      BY <3>1, <3>4, <3>5, LaunchElsewhere DEF ThisRun
    <3> QED BY <3>1, <3>3, <3>6 DEF PauseStep
  <2>2. CASE q = p /\ procs[p].pc = "suspend" /\ live' = live /\ state' = state
             /\ procs'[p] = [procs[p] EXCEPT !.pc = "rest"]
    <3>1. procs'[p].t = procs[p].t /\ procs'[p].st = procs[p].st /\ procs'[p].w = procs[p].w
      BY <2>2, ProcTyped DEF Process
    <3>2. Fresh(p)
      BY <1>2, <2>2, <3>1 DEF Fresh
    <3> QED BY <2>2, <3>1, <3>2 DEF PauseInv, Stopped
  <2> QED BY <1>2, <2>1, <2>2 DEF PauseStep
<1>3. PausedIsStopped' /\ Stopped'
  BY <1>1, <1>2 DEF PausedIsStopped, Stopped, Fresh
<1>4. Stopping' /\ ScansIdle'
  BY DEF PauseInv, Stopping, ScansIdle, PauseStep
<1> QED BY <1>3, <1>4 DEF PauseInv

\* A step of no invocation.
LEMMA QuietPauses ==
    ASSUME TypeInv, TypeInv', CopyInv, PauseInv, UNCHANGED procs, live' \subseteq live,
           \A w \in Workers : Advances(w),
           \A w \in Workers : state'[w] = state[w] \/ state'[w].life # "paused"
    PROVE  PauseInv'
<1>1. PausedIsStopped'
  BY DEF PauseInv, PausedIsStopped
<1>2. ASSUME NEW q \in Procs, procs[q].st.rev = state'[procs[q].w].rev
      PROVE  Fresh(q)
  <2>1. /\ procs[q].st.rev \in Nat /\ state[procs[q].w].rev \in Nat /\ procs[q].w \in Workers
        /\ procs[q].st.rev <= state[procs[q].w].rev
    BY ProcTyped DEF TypeInv, WorkerState, CopyInv, CopyOK, IsCopy
  <2> QED BY <1>2, <2>1 DEF Advances, Fresh
<1>3. Stopped'
  BY <1>2 DEF PauseInv, Stopped, Fresh
<1>4. Stopping' /\ ScansIdle'
  BY DEF PauseInv, Stopping, ScansIdle
<1> QED BY <1>1, <1>3, <1>4 DEF PauseInv

(* The steps every action is built from. *)

\* No worker is paused that was not.
Unpaused == \A w \in Workers : state'[w] = state[w] \/ state'[w].life # "paused"

LEMMA WriteUnpaused ==
    ASSUME TypeInv, NEW w, NEW new \in WorkerState, new.life # "paused",
           state' = [state EXCEPT ![w] = Saved(new)]
    PROVE  Unpaused
<1>1. Saved(new).life = new.life
  BY DEF Saved, WorkerState
<1> QED BY <1>1 DEF Unpaused, TypeInv

LEMMA BecomesPauses ==
    ASSUME TypeInv, NEW p \in Procs, NEW new, Becomes(p, new), new.pc \notin StopPc \cup ScanPc,
           live' \subseteq live, UNCHANGED state \/ Unpaused
    PROVE  PauseStep(p)
<1>1. procs'[p] = new
  BY DEF Becomes, TypeInv
<1>2. new.pc \notin {"suspend", "rest"}
  BY DEF StopPc
<1> QED BY <1>1, <1>2 DEF PauseStep, Unpaused

LEMMA ReturnPauses ==
    ASSUME TypeInv, NEW p \in Procs, Return(p), live' \subseteq live, UNCHANGED state \/ Unpaused
    PROVE  PauseStep(p)
BY RecordsTyped, BecomesPauses DEF Return, StopPc, ScanPc

LEMMA GotoPauses ==
    ASSUME TypeInv, NEW p \in Procs, NEW pc, Goto(p, pc), pc \notin StopPc \cup ScanPc,
           live' \subseteq live, UNCHANGED state \/ Unpaused
    PROVE  PauseStep(p)
<1> DEFINE new == [procs[p] EXCEPT !.pc = pc]
<1>1. new.pc = pc /\ Becomes(p, new)
  BY GoingOn DEF Goto
<1> HIDE DEF new
<1> QED BY <1>1, BecomesPauses

LEMMA SavePauses ==
    ASSUME TypeInv, NEW p \in Procs, NEW new \in WorkerState, NEW pc, Save(p, new, pc),
           new.life # "paused", pc \notin StopPc \cup ScanPc, UNCHANGED live
    PROVE  PauseStep(p)
<1> DEFINE saved == Saved(new)
           c == [procs[p] EXCEPT !.st = saved, !.pc = pc]
<1>1. c.pc = pc
  BY ProcTyped DEF Process
<1>2. Becomes(p, c) /\ state' = [state EXCEPT ![procs[p].w] = Saved(new)]
  BY DEF Save
<1> HIDE DEF c
<1> QED BY <1>1, <1>2, WriteUnpaused, BecomesPauses

LEMMA SaveLastPauses ==
    ASSUME TypeInv, NEW p \in Procs, NEW new \in WorkerState, SaveLast(p, new),
           new.life # "paused", UNCHANGED live
    PROVE  PauseStep(p)
BY WriteUnpaused, ReturnPauses DEF SaveLast

\* What an invocation writes with its copy when the copy is the record on disk.
LEMMA WritePauses ==
    ASSUME TypeInv, NEW p \in Procs, NEW new \in WorkerState,
           state' = [state EXCEPT ![procs[p].w] = Saved(new)],
           NEW c, Becomes(p, c), c.pc \notin StopPc \cup ScanPc,
           <<new.active, new.run>> \notin live, UNCHANGED live
    PROVE  PauseStep(p)
<1>1. Saved(new).active = new.active /\ Saved(new).run = new.run
  BY DEF Saved, WorkerState
<1>2. /\ state'[procs[p].w] = Saved(new)
      /\ \A w \in Workers \ {procs[p].w} : state'[w] = state[w]
  BY ProcTyped DEF TypeInv
<1>3. procs'[p] = c
  BY DEF Becomes, TypeInv
<1>4. c.pc \notin {"suspend", "rest"}
  BY DEF StopPc
<1> QED BY <1>1, <1>2, <1>3, <1>4 DEF PauseStep

LEMMA BeginPauses ==
    ASSUME TypeInv, NEW p \in Procs, NEW cmd, NEW pc, NEW w, NEW t, NEW st,
           Begin(p, cmd, pc, w, t, st), UNCHANGED <<state, live>>,
           pc \notin {"suspend", "rest"} \cup ScanPc, pc = "stop" => st.active = t
    PROVE  PauseStep(p)
<1> DEFINE new == [Ready EXCEPT !.op = cmd, !.pc = pc, !.w = w, !.t = t, !.st = st]
<1>1. new.pc = pc /\ new.t = t /\ new.st = st
  BY DEF Ready
<1>2. Becomes(p, new)
  BY DEF Begin
<1> HIDE DEF new
<1>3. procs'[p] = new
  BY <1>2 DEF Becomes, TypeInv
<1> QED BY <1>1, <1>3 DEF PauseStep, StopPc

-----------------------------------------------------------------------------
(* The actions. *)

LEMMA IntakePauses ==
    ASSUME TypeInv, CopyInv, BelongInv, NEW p \in Procs, IntakeStep(p)
    PROVE  PauseStep(p)
<1> USE DEF StopPc, ScanPc
<1>1. CASE CreateTask(p)
  BY <1>1, ReturnPauses, GotoPauses DEF CreateTask
<1>2. CASE EnqueueTask(p)
  BY <1>2, ReturnPauses, GotoPauses DEF EnqueueTask
<1>3. CASE ActivateTask(p)
  <2> DEFINE t == procs[p].t
             new == [procs[p].st EXCEPT !.active = t]
  <2>1. CASE Goto(p, "rollback") /\ UNCHANGED state
    BY <1>3, <2>1, GotoPauses DEF ActivateTask
  <2>2. CASE SaveLast(p, new)
    <3>1. t \in Tasks /\ MadeBy(p, t) /\ UNCHANGED live
      BY <1>3, ProcTyped DEF ActivateTask, Unbound, MadeBy, MakingPc
    <3>2. new \in WorkerState /\ new.active = t
      BY <3>1, ProcTyped DEF WorkerState
    <3> HIDE DEF new
    <3>3. \A n : <<t, n>> \notin live
      BY <3>1 DEF BelongInv, RunsSettled, Settled
    <3>4. Becomes(p, Ready) /\ state' = [state EXCEPT ![procs[p].w] = Saved(new)]
      BY <2>2 DEF SaveLast, Return
    <3> QED BY <3>1, <3>2, <3>3, <3>4, RecordsTyped, WritePauses
  <2> QED BY <1>3, <2>1, <2>2 DEF ActivateTask
<1>4. CASE RollbackTask(p)
  BY <1>4, ReturnPauses DEF RollbackTask
<1> QED BY <1>1, <1>2, <1>3, <1>4 DEF IntakeStep

LEMMA NextWorkerPauses ==
    ASSUME TypeInv, NEW p \in Procs, NextWorker(p), UNCHANGED <<state, live>>
    PROVE  PauseStep(p)
<1>1. CASE procs[p].w < NumWorkers
  <2> DEFINE new == [procs[p] EXCEPT !.w = procs[p].w + 1, !.pc = "consider"]
  <2>1. new.pc = "consider" /\ Becomes(p, new)
    BY <1>1, ProcTyped DEF NextWorker, Process
  <2> HIDE DEF new
  <2> QED BY <2>1, BecomesPauses DEF StopPc, ScanPc
<1> QED BY <1>1, ReturnPauses DEF NextWorker

\* The scan goes on with a worker that was seen idle.
LEMMA ScanPauses ==
    ASSUME TypeInv, NEW p \in Procs, NEW new, Becomes(p, new), new.pc \in ScanPc,
           UNCHANGED <<state, live>>, new.snap[new.w].life = "idle"
    PROVE  PauseStep(p)
<1>1. procs'[p] = new
  BY DEF Becomes, TypeInv
<1> QED BY <1>1 DEF PauseStep, StopPc, ScanPc

LEMMA SchedulePauses ==
    ASSUME TypeInv, CopyInv, BelongInv, PauseInv, NEW p \in Procs, ScheduleStep(p)
    PROVE  PauseStep(p)
<1> USE DEF StopPc, ScanPc
<1>0. ASSUME NEW pc
      PROVE  /\ [procs[p] EXCEPT !.pc = pc].pc = pc
             /\ [procs[p] EXCEPT !.pc = pc].w = procs[p].w
             /\ [procs[p] EXCEPT !.pc = pc].snap = procs[p].snap
  BY ProcTyped DEF Process
<1>1. CASE SnapshotWorker(p)
  <2> DEFINE w == procs[p].w
             snap == [procs[p].snap EXCEPT ![w] = state[w]]
             next == [procs[p] EXCEPT !.snap = snap, !.w = w + 1]
             first == [procs[p] EXCEPT !.snap = snap, !.w = 1, !.pc = "consider"]
  <2>1. next.pc = "snapshot" /\ first.pc = "consider"
    BY <1>1, ProcTyped DEF Process, SnapshotWorker
  <2>2. Becomes(p, next) \/ Return(p) \/ Becomes(p, first)
    BY <1>1 DEF SnapshotWorker
  <2> HIDE DEF next, first
  <2> QED BY <1>1, <2>1, <2>2, BecomesPauses, ReturnPauses DEF SnapshotWorker
<1>2. CASE ConsiderWorker(p)
  <2> DEFINE new == [procs[p] EXCEPT !.pc = "lease"]
  <2>1. CASE Eligible(p) /\ Goto(p, "lease")
    <3>1. new.pc = "lease" /\ new.snap[new.w].life = "idle" /\ Becomes(p, new)
      BY <1>0, <2>1 DEF Goto, Eligible
    <3> HIDE DEF new
    <3> QED BY <1>2, <3>1, ScanPauses DEF ConsiderWorker
  <2> QED BY <1>2, <2>1, NextWorkerPauses DEF ConsiderWorker
<1>3. CASE LeaseHead(p)
  <2> DEFINE w == procs[p].w
             new == [procs[p] EXCEPT !.t = queue[w][1].task, !.pc = "inspect"]
  <2>1. CASE Becomes(p, new)
    <3>1. new.pc = "inspect" /\ new.w = w /\ new.snap = procs[p].snap
      BY ProcTyped DEF Process
    <3>2. procs[p].snap[w].life = "idle"
      BY <1>3 DEF LeaseHead, PauseInv, ScansIdle
    <3> HIDE DEF new
    <3> QED BY <1>3, <2>1, <3>1, <3>2, ScanPauses DEF LeaseHead
  <2>2. CASE Return(p) \/ NextWorker(p)
    BY <1>3, <2>2, ReturnPauses, NextWorkerPauses DEF LeaseHead
  <2> QED BY <1>3, <2>1, <2>2 DEF LeaseHead
<1>4. CASE InspectTask(p)
  <2> DEFINE new == [procs[p] EXCEPT !.pc = "reserve"]
  <2>1. CASE Goto(p, "reserve")
    <3>1. new.pc = "reserve" /\ new.snap[new.w].life = "idle" /\ Becomes(p, new)
      BY <1>0, <1>4, <2>1 DEF Goto, InspectTask, PauseInv, ScansIdle
    <3> HIDE DEF new
    <3> QED BY <1>4, <3>1, ScanPauses DEF InspectTask
  <2>2. CASE Goto(p, "giveback") \/ Goto(p, "skip")
    BY <1>4, <2>2, GotoPauses DEF InspectTask
  <2> QED BY <1>4, <2>1, <2>2 DEF InspectTask
<1>5. CASE GiveLeaseBack(p)
  BY <1>5, ReturnPauses, NextWorkerPauses DEF GiveLeaseBack
<1>6. CASE ReserveWorker(p)
  <2> DEFINE w == procs[p].w
             new == [procs[p].snap[w] EXCEPT !.active = procs[p].t]
  <2>1. CASE UNCHANGED state /\ Goto(p, "giveback")
    BY <1>6, <2>1, GotoPauses DEF ReserveWorker
  <2>2. CASE state' = [state EXCEPT ![w] = Saved(new)] /\ Goto(p, "mark")
    <3>1. procs[p].snap[w].life = "idle"
      BY <1>6 DEF ReserveWorker, PauseInv, ScansIdle
    <3>2. procs[p].t \in Tasks /\ w \in Workers
      BY <1>6, OwnTask DEF ReserveWorker, Loose, MakingPc
    <3>3. new \in WorkerState /\ new.life = "idle"
      BY <3>1, <3>2, ProcTyped DEF WorkerState
    <3> HIDE DEF new
    <3> QED BY <1>6, <2>2, <3>3, WriteUnpaused, GotoPauses DEF ReserveWorker
  <2> QED BY <1>6, <2>1, <2>2 DEF ReserveWorker
<1>7. CASE MarkAssigned(p)
  BY <1>7, ReturnPauses, GotoPauses DEF MarkAssigned
<1>8. CASE CommitLease(p)
  BY <1>8, ReturnPauses, GotoPauses DEF CommitLease
<1> QED BY <1>1, <1>2, <1>3, <1>4, <1>5, <1>6, <1>7, <1>8 DEF ScheduleStep

LEMMA StartPauses ==
    ASSUME TypeInv, CopyInv, BelongInv, NEW p \in Procs, StartStep(p)
    PROVE  PauseStep(p)
<1> USE DEF StopPc, ScanPc
<1>0. procs[p].w \in Workers /\ procs[p].st \in WorkerState /\ LifeAt(procs[p].pc, procs[p].st)
  BY ProcTyped, LifeKnown
<1>1. CASE StartLoadState(p)
  <2> DEFINE st == state[procs[p].w]
             new == [procs[p] EXCEPT !.st = st, !.t = st.active, !.pc = "restore"]
  <2>1. new.pc = "restore"
    BY ProcTyped DEF Process
  <2> HIDE DEF new
  <2>2. (Becomes(p, new) \/ Return(p)) /\ UNCHANGED <<state, live>>
    BY <1>1 DEF StartLoadState, new
  <2> QED BY <2>1, <2>2, BecomesPauses, ReturnPauses
<1>2. CASE StartLoadTask(p)
  BY <1>2, ReturnPauses, GotoPauses DEF StartLoadTask
<1>3. CASE ClaimWorktree(p)
  BY <1>3, ReturnPauses, GotoPauses DEF ClaimWorktree
<1>4. CASE SaveLocation(p)
  BY <1>0, <1>4, SavePauses DEF SaveLocation, LifeAt
<1>5. CASE StartFails(p)
  BY <1>5, ReturnPauses DEF StartFails
<1>6. CASE Depart(p)
  <2> DEFINE new == Became(procs[p].st, "starting")
  <2>1. new \in WorkerState /\ new.life = "starting"
    BY <1>0 DEF Became, WorkerState, Lifecycle
  <2> HIDE DEF new
  <2>2. Save(p, new, "launch") /\ UNCHANGED live
    BY <1>6 DEF Depart, new
  <2> QED BY <2>1, <2>2, SavePauses
<1>7. CASE Launch(p)
  <2>1. PICK out \in Outcome \ {"none"} :
           /\ Becomes(p, [procs[p] EXCEPT !.out = out, !.pc = "record"])
           /\ live' = IF out = "async" THEN live \cup {ThisRun(p)} ELSE live
    BY <1>7 DEF Launch
  <2> DEFINE new == [procs[p] EXCEPT !.out = out, !.pc = "record"]
  <2>2. new.pc = "record" /\ procs'[p] = new
    BY <2>1, ProcTyped DEF Process, Becomes, TypeInv
  <2> HIDE DEF new
  <2> QED BY <1>7, <2>1, <2>2 DEF Launch, PauseStep
<1>8. CASE RecordAttempt(p)
  BY <1>8, GotoPauses DEF RecordAttempt
<1>9. CASE SettleFailed(p)
  <2> DEFINE run == IF procs[p].out = "norun" THEN 0 ELSE Len(task[procs[p].t].attempts)
             new == [procs[p].st EXCEPT !.life = "failed", !.run = run]
  <2>1. run \in Nat
    <3>1. task[procs[p].t] \in Task
      BY <1>9, OwnTask DEF SettleFailed, Loose, MakingPc
    <3> QED BY <3>1, LenProperties DEF Task
  <2> HIDE DEF run
  <2>2. new \in WorkerState /\ new.life = "failed"
    BY <1>0, <2>1 DEF WorkerState, Lifecycle
  <2> HIDE DEF new
  <2>3. SaveLast(p, new) /\ UNCHANGED live
    BY <1>9 DEF SettleFailed, new, run
  <2> QED BY <2>2, <2>3, SaveLastPauses
<1>10. CASE TransferClaim(p)
  BY <1>10, GotoPauses DEF TransferClaim
<1>11. CASE Ascend(p)
  <2> DEFINE new == [procs[p].st EXCEPT !.life = "executing",
                                        !.run = Len(task[procs[p].t].attempts)]
  <2>1. Len(task[procs[p].t].attempts) \in Nat
    <3>1. task[procs[p].t] \in Task
      BY <1>11, OwnTask DEF Ascend, Loose, MakingPc
    <3> QED BY <3>1, LenProperties DEF Task
  <2>2. new \in WorkerState /\ new.life = "executing"
    BY <1>0, <2>1 DEF WorkerState, Lifecycle
  <2> HIDE DEF new
  <2>3. (Save(p, new, "check") \/ SaveLast(p, new)) /\ UNCHANGED live
    BY <1>11 DEF Ascend, new
  <2> QED BY <2>2, <2>3, SavePauses, SaveLastPauses
<1>12. CASE CheckCompletion(p)
  <2> DEFINE new == Became(procs[p].st, "blocked")
  <2>1. new \in WorkerState /\ new.life = "blocked"
    BY <1>0 DEF Became, WorkerState, Lifecycle
  <2> HIDE DEF new
  <2>2. (SaveLast(p, new) \/ (Return(p) /\ UNCHANGED state)) /\ UNCHANGED live
    BY <1>12 DEF CheckCompletion, new
  <2> QED BY <2>1, <2>2, SaveLastPauses, ReturnPauses
<1>13. CASE StartConflict(p)
  BY <1>13, ReturnPauses DEF StartConflict
<1> QED BY <1>1, <1>2, <1>3, <1>4, <1>5, <1>6, <1>7, <1>8, <1>9, <1>10, <1>11, <1>12, <1>13
        DEF StartStep

LEMMA ControlPauses ==
    ASSUME TypeInv, CopyInv, BelongInv, PauseInv, NEW p \in Procs, ControlStep(p)
    PROVE  PauseStep(p)
<1> USE DEF StopPc, ScanPc
<1>0. procs[p].w \in Workers /\ procs[p].st \in WorkerState /\ LifeAt(procs[p].pc, procs[p].st)
  BY ProcTyped, LifeKnown
<1>1. CASE StopRun(p)
  <2> DEFINE new == [procs[p] EXCEPT !.pc = "suspend"]
  <2>1. new.pc = "suspend" /\ new.t = procs[p].t /\ new.st = procs[p].st
    BY ProcTyped DEF Process
  <2>2. procs'[p] = new
    BY <1>1 DEF StopRun, Goto, Becomes, TypeInv
  <2> HIDE DEF new
  <2>3. procs[p].st.active = procs[p].t
    BY <1>1 DEF StopRun, PauseInv, Stopping
  <2> QED BY <1>1, <2>1, <2>2, <2>3 DEF StopRun, PauseStep
<1>2. CASE SuspendTask(p)
  <2> DEFINE new == [procs[p] EXCEPT !.pc = "rest"]
  <2>1. new.pc = "rest" /\ new.t = procs[p].t /\ new.st = procs[p].st
    BY ProcTyped DEF Process
  <2>2. procs'[p] = [procs[p] EXCEPT !.pc = "rest"] /\ procs'[p] = new
    BY <1>2 DEF SuspendTask, Goto, Becomes, TypeInv
  <2> HIDE DEF new
  <2>3. procs[p].st.active = procs[p].t
    BY <1>2 DEF SuspendTask, PauseInv, Stopping
  <2> QED BY <1>2, <2>1, <2>2, <2>3 DEF SuspendTask, PauseStep
<1>3. CASE PauseWorker(p)
  <2> DEFINE new == Became(procs[p].st, "paused")
             saved == Saved(new)
             c == [procs[p] EXCEPT !.st = saved, !.pc = "reload"]
  <2>1. new \in WorkerState /\ new.active = procs[p].st.active /\ new.run = procs[p].st.run
    BY <1>0 DEF Became, WorkerState, Lifecycle
  <2> HIDE DEF new
  <2>2. <<new.active, new.run>> \notin live
    BY <1>3, <2>1 DEF PauseWorker, PauseInv, Stopping, Stopped, Save, SaveLast
  <2>3. c.pc = "reload" /\ Ready.pc = "ready"
    BY ProcTyped, RecordsTyped DEF Process
  <2>4. /\ state' = [state EXCEPT ![procs[p].w] = Saved(new)]
        /\ Becomes(p, c) \/ Becomes(p, Ready)
        /\ UNCHANGED live
    BY <1>3 DEF PauseWorker, Save, SaveLast, Return, new
  <2> HIDE DEF c
  <2> QED BY <2>1, <2>2, <2>3, <2>4, WritePauses
<1>4. CASE WakeWorker(p)
  <2> DEFINE new == Became(procs[p].st, "idle")
  <2>1. new \in WorkerState /\ new.life = "idle"
    BY <1>0 DEF Became, WorkerState, Lifecycle
  <2> HIDE DEF new
  <2>2. Save(p, new, "reassign") /\ UNCHANGED live
    BY <1>4 DEF WakeWorker, new
  <2> QED BY <2>1, <2>2, SavePauses
<1>5. CASE ReassignTask(p)
  BY <1>5, GotoPauses DEF ReassignTask
<1>6. CASE FindWorker(p)
  <2> DEFINE new == [procs[p] EXCEPT !.st = state[procs[p].w], !.pc = "reassign"]
  <2>1. new.pc = "reassign"
    BY ProcTyped DEF Process
  <2> HIDE DEF new
  <2>2. (Becomes(p, new) \/ Return(p)) /\ UNCHANGED <<state, live>>
    BY <1>6 DEF FindWorker, new
  <2> QED BY <2>1, <2>2, BecomesPauses, ReturnPauses
<1>7. CASE AdoptTask(p)
  <2> DEFINE st == procs[p].st
             adopted == [st EXCEPT !.life = "idle", !.active = procs[p].t]
             cleared == Became(Vacant(st), "idle")
  <2>1. procs[p].t \in Tasks
    BY <1>7, OwnTask DEF AdoptTask, Loose, MakingPc
  <2>2. adopted \in WorkerState /\ adopted.life = "idle"
    BY <1>0, <2>1 DEF WorkerState, Lifecycle
  <2>3. cleared \in WorkerState /\ cleared.life = "idle"
    BY <1>0 DEF Became, Vacant, WorkerState, Lifecycle
  <2> HIDE DEF adopted, cleared
  <2>4. /\ \/ Save(p, adopted, "start")
           \/ Save(p, cleared, "readopt")
           \/ Return(p) /\ UNCHANGED state
        /\ UNCHANGED live
    BY <1>7 DEF AdoptTask, adopted, cleared
  <2> QED BY <2>2, <2>3, <2>4, SavePauses, ReturnPauses
<1>8. CASE ReadoptTask(p)
  <2> DEFINE new == [procs[p].st EXCEPT !.active = procs[p].t]
  <2>1. procs[p].t \in Tasks
    BY <1>8, OwnTask DEF ReadoptTask, Loose, MakingPc
  <2>2. new \in WorkerState /\ new.life = "idle"
    BY <1>0, <1>8, <2>1 DEF WorkerState, ReadoptTask, LifeAt
  <2> HIDE DEF new
  <2>3. Save(p, new, "start") /\ UNCHANGED live
    BY <1>8 DEF ReadoptTask, new
  <2> QED BY <2>2, <2>3, SavePauses
<1>9. CASE LookAtWorker(p)
  <2> DEFINE st == state[procs[p].w]
             running == st.active = procs[p].t /\ st.life = "executing"
             pc == IF running THEN "stop" ELSE AfterStop(p)
             new == [procs[p] EXCEPT !.st = st, !.pc = pc]
  <2>1. pc \in {"dequeue", "void"} \/ (pc = "stop" /\ st.active = procs[p].t)
    BY DEF AfterStop
  <2> HIDE DEF pc
  <2>2. new.pc = pc /\ new.t = procs[p].t /\ new.st = st
    BY ProcTyped DEF Process
  <2> HIDE DEF new
  <2>3. Becomes(p, new) /\ UNCHANGED <<state, live>>
    BY <1>9 DEF LookAtWorker, new, pc
  <2>4. procs'[p] = new
    BY <2>3 DEF Becomes, TypeInv
  <2> QED BY <2>1, <2>2, <2>3, <2>4 DEF PauseStep
<1>10. CASE ReloadWorker(p)
  <2> DEFINE new == [procs[p] EXCEPT !.st = state[procs[p].w], !.pc = AfterStop(p)]
  <2>1. new.pc \in {"dequeue", "void"}
    BY ProcTyped DEF Process, AfterStop
  <2> HIDE DEF new
  <2>2. Becomes(p, new) /\ UNCHANGED <<state, live>>
    BY <1>10 DEF ReloadWorker, new
  <2> QED BY <2>1, <2>2, BecomesPauses
<1>11. CASE CancelQueued(p)
  BY <1>11, ReturnPauses, GotoPauses DEF CancelQueued
<1>12. CASE VoidTask(p)
  BY <1>12, ReturnPauses, GotoPauses DEF VoidTask
<1>13. CASE VacateWorker(p)
  <2> DEFINE st == procs[p].st
             new == [Vacant(st) EXCEPT !.life = IF @ = "paused" THEN "idle" ELSE @]
  <2>1. new \in WorkerState /\ new.life # "paused"
    BY <1>0 DEF Vacant, WorkerState, Lifecycle
  <2> HIDE DEF new
  <2>2. SaveLast(p, new) /\ UNCHANGED live
    BY <1>13 DEF VacateWorker, new
  <2> QED BY <2>1, <2>2, SaveLastPauses
<1>14. CASE ControlConflict(p)
  BY <1>14, ReturnPauses DEF ControlConflict
<1> QED BY <1>1, <1>2, <1>3, <1>4, <1>5, <1>6, <1>7, <1>8, <1>9, <1>10, <1>11, <1>12,
           <1>13, <1>14 DEF ControlStep

LEMMA ReviewPauses ==
    ASSUME TypeInv, CopyInv, BelongInv, NEW p \in Procs, ReviewStep(p)
    PROVE  PauseStep(p)
<1> USE DEF StopPc, ScanPc
<1>0. procs[p].w \in Workers /\ procs[p].st \in WorkerState
  BY ProcTyped
<1>1. CASE SubmitLoadState(p)
  <2> DEFINE new == [procs[p] EXCEPT !.st = state[procs[p].w], !.pc = "handoff"]
  <2>1. new.pc = "handoff"
    BY ProcTyped DEF Process
  <2> HIDE DEF new
  <2>2. (Becomes(p, new) \/ Return(p)) /\ UNCHANGED <<state, live>>
    BY <1>1 DEF SubmitLoadState, new
  <2> QED BY <2>1, <2>2, BecomesPauses, ReturnPauses
<1>2. CASE AppendHandoff(p)
  BY <1>2, GotoPauses DEF AppendHandoff
<1>3. CASE AwaitReview(p)
  <2> DEFINE new == Became(procs[p].st, "awaiting_review")
  <2>1. new \in WorkerState /\ new.life = "awaiting_review"
    BY <1>0 DEF Became, WorkerState, Lifecycle
  <2> HIDE DEF new
  <2>2. SaveLast(p, new) /\ UNCHANGED live
    BY <1>3 DEF AwaitReview, new
  <2> QED BY <2>1, <2>2, SaveLastPauses
<1>4. CASE VerdictLoadState(p)
  <2> DEFINE new == [procs[p] EXCEPT !.st = state[procs[p].w], !.pc = "decide"]
  <2>1. new.pc = "decide"
    BY ProcTyped DEF Process
  <2> HIDE DEF new
  <2>2. Becomes(p, new) /\ UNCHANGED <<state, live>>
    BY <1>4 DEF VerdictLoadState, new
  <2> QED BY <2>1, <2>2, BecomesPauses
<1>5. CASE DecideHandoff(p)
  BY <1>5, GotoPauses DEF DecideHandoff
<1>6. CASE RequeueTask(p)
  BY <1>6, ReturnPauses, GotoPauses DEF RequeueTask
<1>7. CASE CloseReview(p)
  <2> DEFINE new == Became(Vacant(procs[p].st), "idle")
  <2>1. new \in WorkerState /\ new.life = "idle"
    BY <1>0 DEF Became, Vacant, WorkerState, Lifecycle
  <2> HIDE DEF new
  <2>2. SaveLast(p, new) /\ UNCHANGED live
    BY <1>7 DEF CloseReview, new
  <2> QED BY <2>1, <2>2, SaveLastPauses
<1>8. CASE ReviewConflict(p)
  BY <1>8, ReturnPauses DEF ReviewConflict
<1> QED BY <1>1, <1>2, <1>3, <1>4, <1>5, <1>6, <1>7, <1>8 DEF ReviewStep

LEMMA InvokePauses ==
    ASSUME TypeInv, NEW p \in Procs, Invoke(p)
    PROVE  PauseStep(p)
<1> USE DEF ScanPc
<1>1. CASE \E w \in Workers, t \in Tasks : BeginIntake(p, w, t)
  BY <1>1, BeginPauses DEF BeginIntake
<1>2. CASE \E w \in Workers : BeginStart(p, w)
  BY <1>2, BeginPauses DEF BeginStart
<1>3. CASE BeginSchedule(p)
  BY <1>3, BeginPauses DEF BeginSchedule
<1>4. CASE \E w \in Workers : BeginPause(p, w)
  BY <1>4, BeginPauses DEF BeginPause
<1>5. CASE \E w \in Workers : BeginResume(p, w)
  BY <1>5, BeginPauses DEF BeginResume
<1>6. CASE \E t \in Tasks : BeginRetry(p, t)
  BY <1>6, BeginPauses DEF BeginRetry
<1>7. CASE \E t \in Tasks : BeginCancel(p, t)
  <2>1. PICK t \in Tasks : BeginCancel(p, t)
    BY <1>7
  <2> DEFINE new == [Ready EXCEPT !.op = "cancel", !.pc = "look", !.w = task[t].owner,
                                  !.t = t, !.status = task[t].status]
  <2>2. new.pc = "look"
    BY DEF Ready
  <2>3. Becomes(p, new) /\ UNCHANGED <<state, live>>
    BY <2>1 DEF BeginCancel
  <2> HIDE DEF new
  <2> QED BY <2>2, <2>3, BecomesPauses DEF StopPc
<1>8. CASE \E t \in Tasks : BeginSubmit(p, t)
  BY <1>8, BeginPauses DEF BeginSubmit
<1>9. CASE \E t \in Tasks : BeginVerdict(p, t)
  BY <1>9, BeginPauses DEF BeginVerdict
<1> QED BY <1>1, <1>2, <1>3, <1>4, <1>5, <1>6, <1>7, <1>8, <1>9 DEF Invoke

LEMMA InitPauses == Init => PauseInv
<1> SUFFICES ASSUME Init PROVE PauseInv
  OBVIOUS
<1>1. live = {} /\ \A p \in Procs : procs[p].pc = "ready"
  BY RecordsTyped DEF Init
<1> QED BY <1>1 DEF PauseInv, PausedIsStopped, Stopping, Stopped, ScansIdle, StopPc, ScanPc

\* What everybody but the invocations does to the states of the workers.
LEMMA QuietUnpauses ==
    ASSUME TypeInv
    PROVE  /\ \A w \in Workers : Operate(w) \/ ExpireLease(w) => UNCHANGED state \/ Unpaused
           /\ \A r \in live : RunCompletes(r) => UNCHANGED state \/ Unpaused
<1>1. ASSUME NEW w \in Workers, ResetWorker(w) PROVE Unpaused
  <2> DEFINE new == Became(Vacant(state[w]), "idle")
  <2>1. new \in WorkerState /\ new.life = "idle"
    BY DEF Became, Vacant, WorkerState, Lifecycle, TypeInv
  <2> HIDE DEF new
  <2>2. state' = [state EXCEPT ![w] = Saved(new)]
    BY <1>1 DEF ResetWorker, new
  <2> QED BY <2>1, <2>2, WriteUnpaused
<1>2. ASSUME NEW r \in live, RunCompletes(r) PROVE UNCHANGED state \/ Unpaused
  <2> DEFINE w == task[r[1]].owner
             new == Became(state[w], "blocked")
  <2>1. w \in Workers
    BY DEF TypeInv, Run, Task
  <2>2. new \in WorkerState /\ new.life = "blocked"
    BY <2>1 DEF Became, WorkerState, Lifecycle, TypeInv
  <2>3. UNCHANGED state \/ state' = [state EXCEPT ![w] = Saved(new)]
    BY <1>2 DEF RunCompletes
  <2> HIDE DEF new, w
  <2> QED BY <2>2, <2>3, WriteUnpaused
<1> QED BY <1>1, <1>2 DEF Operate, ReorderQueue, RemoveFromQueue, ExpireLease

LEMMA NextPauses == TypeInv /\ CopyInv /\ BelongInv /\ PauseInv /\ [Next]_vars => PauseInv'
<1> SUFFICES ASSUME TypeInv, CopyInv, BelongInv, PauseInv, [Next]_vars PROVE PauseInv'
  OBVIOUS
<1>1. TypeInv' /\ \A w \in Workers : Advances(w)
  BY NextTyped, NextGood DEF GoodStep
<1>2. ASSUME NEW p \in Procs, PauseStep(p), BelongStep(p)
      PROVE  PauseInv'
  BY <1>1, <1>2, StepPauses DEF BelongStep
<1>3. CASE \E p \in Procs : Invoke(p) \/ Step(p)
  <2>1. PICK p \in Procs : Invoke(p) \/ Step(p)
    BY <1>3
  <2>2. PauseStep(p)
    BY <2>1, InvokePauses, IntakePauses, SchedulePauses, StartPauses, ControlPauses,
       ReviewPauses DEF Step
  <2>3. BelongStep(p)
    BY <2>1, InvokeBelongs, IntakeBelongs, ScheduleBelongs, StartBelongs, ControlBelongs,
       ReviewBelongs DEF Step
  <2> QED BY <1>2, <2>2, <2>3
<1>4. CASE \E w \in Workers : Operate(w) \/ ExpireLease(w)
  BY <1>1, <1>4, QuietSteps, QuietUnpauses, QuietPauses DEF Unpaused
<1>5. CASE \E r \in live : RunCompletes(r)
  BY <1>1, <1>5, RunEnds, QuietUnpauses, QuietPauses DEF Unpaused
<1>6. CASE \E p \in Procs : Crash(p)
  <2>1. PICK p \in Procs : Crash(p)
    BY <1>6
  <2> QED BY <1>2, <2>1, KeptBelongs, ReturnBelongs, ReturnPauses DEF Crash
<1>7. CASE UNCHANGED vars
  BY <1>1, <1>7, QuietPauses DEF vars
<1> QED BY <1>3, <1>4, <1>5, <1>6, <1>7 DEF Next

\* A worker whose record says paused has no process left for the run the record
\* names (control.go, Pause), although pause and cancel stop the run that their
\* copy names, write the record two steps later, and other invocations launch
\* new runs of the same worker all the while.
THEOREM PausedAreStopped == Spec => []PausedIsStopped
<1>1. PauseInv => PausedIsStopped
  BY DEF PauseInv
<1> QED BY <1>1, InitTyped, NextTyped, InitCopy, NextCopy, InitBelongs, NextBelongs,
           InitPauses, NextPauses, PTL DEF Spec

-----------------------------------------------------------------------------
(* Who works in a worktree.  As long as no invocation dies, the claim on a   *)
(* worktree is with the invocation that launches there until it is handed to *)
(* the run; a claim of either is alive, so nobody else takes it.             *)

HoldPc == {"locate", "depart", "launch", "record", "settle"}

\* r is the run that p has just launched and not yet handed its claim to.
Leads(p, r) ==
    LET made == Len(task[procs[p].t].attempts)
    IN  /\ procs[p].pc \in {"record", "settle"}
        /\ procs[p].out = "async"
        /\ r = <<procs[p].t, IF procs[p].pc = "record" THEN made + 1 ELSE made>>

Holders == \A p \in Procs : procs[p].pc \in HoldPc => claim[WorktreeOf[procs[p].w]] = p

Held(d, r) == claim[d] = r \/ \E p \in Procs : claim[d] = p /\ Leads(p, r)

RunsHeld == \A r \in live : Held(WorktreeOf[task[r[1]].owner], r)

HeldInv == Holders /\ RunsHeld

\* The attempts of a task are counted by the invocation that launches it.
AttemptsKept(p) ==
    \A t \in Tasks, w \in Workers : Settled(t, w) =>
        \/ Len(task'[t].attempts) = Len(task[t].attempts)
        \/ procs[p].pc = "record" /\ procs[p].t = t

\* What a step of p may do.
HeldStep(p) ==
    /\ \A q \in Procs \ {p}, d \in Worktrees : claim[d] = q => claim'[d] = q
    /\ \A r \in live, d \in Worktrees : claim[d] = r => claim'[d] = r
    /\ procs'[p].pc \in HoldPc => claim'[WorktreeOf[procs'[p].w]] = p
    /\ \A r \in live' : r \in live \/ Leads(p, r)'
    /\ \A r \in live, d \in Worktrees :
          d = WorktreeOf[procs[p].w] /\ claim[d] = p /\ Leads(p, r) =>
             claim'[d] = r \/ (claim'[d] = p /\ Leads(p, r)')
    /\ AttemptsKept(p)

LEMMA LaunchersApart ==
    ASSUME TypeInv, CopyInv, BelongInv, NEW p \in Procs, NEW q \in Procs,
           procs[p].pc \in {"record", "settle"}, procs[q].pc \in {"record", "settle"},
           procs[p].t = procs[q].t
    PROVE  p = q
<1>1. Settled(procs[p].t, procs[p].w) /\ Settled(procs[q].t, procs[q].w)
  BY OwnTask DEF Loose, MakingPc
<1>2. procs[p].w = procs[q].w
  BY <1>1 DEF Settled
<1> QED BY <1>2 DEF CopyInv, LaunchExclusive, Launching

LEMMA StepHolds ==
    ASSUME TypeInv, TypeInv', CopyInv, BelongInv, HeldInv, NEW p \in Procs, BelongStep(p),
           HeldStep(p)
    PROVE  HeldInv'
<1>1. \A q \in Procs \ {p} : procs'[q] = procs[q]
  BY DEF BelongStep
<1>2. \A w \in Workers : WorktreeOf[w] \in Worktrees
  BY WorktreeAssumption
<1>3. Holders'
  <2> SUFFICES ASSUME NEW q \in Procs, procs'[q].pc \in HoldPc
               PROVE  claim'[WorktreeOf[procs'[q].w]] = q
    BY DEF Holders
  <2>1. CASE q = p
    BY <2>1 DEF HeldStep
  <2>2. CASE q # p
    BY <1>1, <1>2, <2>2, ProcTyped DEF HeldInv, Holders, HeldStep
  <2> QED BY <2>1, <2>2
<1>4. ASSUME NEW t \in Tasks, NEW w \in Workers, Settled(t, w)
      PROVE  task[t].owner = w /\ task'[t].owner = w
  BY <1>4 DEF Settled, BelongStep
<1>5. RunsHeld'
  <2> SUFFICES ASSUME NEW r \in live'
               PROVE  Held(WorktreeOf[task[r[1]].owner], r)'
    BY DEF RunsHeld
  <2>0. r[1] \in Tasks
    BY DEF TypeInv, Run
  <2>1. CASE r \in live
    <3>1. PICK w \in Workers : Settled(r[1], w)
      BY <2>1 DEF BelongInv, RunsSettled
    <3>2. task[r[1]].owner = w /\ task'[r[1]].owner = w
      BY <1>4, <2>0, <3>1
    <3>3. PICK d \in Worktrees : d = WorktreeOf[w]
      BY <1>2
    <3>4. Held(d, r)
      BY <2>1, <3>2, <3>3 DEF HeldInv, RunsHeld
    <3>5. ASSUME claim[d] = r
          PROVE  Held(d, r)'
      BY <2>1, <3>3, <3>5 DEF HeldStep, Held
    <3>6. ASSUME NEW q \in Procs, claim[d] = q, Leads(q, r)
          PROVE  Held(d, r)'
      <4>1. CASE q = p
        <5>1. Settled(procs[p].t, procs[p].w) /\ r[1] = procs[p].t
          BY <3>6, <4>1, OwnTask DEF Leads, Loose, MakingPc
        <5>2. d = WorktreeOf[procs[p].w]
          BY <3>1, <3>3, <5>1 DEF Settled
        <5> QED BY <2>1, <3>3, <3>6, <4>1, <5>2 DEF HeldStep, Held
      <4>2. CASE q # p
        <5>1. claim'[d] = q /\ procs'[q] = procs[q]
          BY <1>1, <3>3, <3>6, <4>2 DEF HeldStep
        <5>2. procs[q].t \in Tasks /\ procs[q].w \in Workers /\ Settled(procs[q].t, procs[q].w)
          BY <3>6, OwnTask DEF Leads, Loose, MakingPc
        <5>3. ~(procs[p].pc = "record" /\ procs[p].t = procs[q].t)
          BY <3>6, <4>2, LaunchersApart DEF Leads
        <5>4. Len(task'[procs[q].t].attempts) = Len(task[procs[q].t].attempts)
          BY <5>2, <5>3 DEF HeldStep, AttemptsKept
        <5>5. Leads(q, r)'
          BY <3>6, <5>1, <5>4 DEF Leads
        <5> QED BY <5>1, <5>5 DEF Held
      <4> QED BY <4>1, <4>2
    <3>7. Held(d, r)'
      BY <3>4, <3>5, <3>6 DEF Held
    <3> QED BY <3>2, <3>3, <3>7
  <2>2. CASE r \notin live
    <3>1. Leads(p, r)'
      BY <2>2 DEF HeldStep
    <3>2. procs'[p].pc \in HoldPc \ Loose /\ r[1] = procs'[p].t
      BY <3>1 DEF Leads, HoldPc, Loose, MakingPc
    <3>3. procs'[p].w \in Workers
      BY ProcTyped DEF TypeInv, Bound, Process
    <3>4. Settled(r[1], procs'[p].w)
      BY <3>2 DEF BelongStep
    <3>5. task'[r[1]].owner = procs'[p].w
      BY <1>4, <2>0, <3>3, <3>4
    <3>6. claim'[WorktreeOf[task'[r[1]].owner]] = p
      BY <3>2, <3>5 DEF HeldStep
    <3> QED BY <3>1, <3>6 DEF Held
  <2> QED BY <2>1, <2>2
<1> QED BY <1>3, <1>5 DEF HeldInv

\* A step of no invocation.
LEMMA QuietHolds ==
    ASSUME HeldInv, UNCHANGED <<procs, task, claim>>, live' \subseteq live
    PROVE  HeldInv'
BY DEF HeldInv, Holders, RunsHeld, Held, Leads

LEMMA HeldIsOne ==
    ASSUME TypeInv, HeldInv
    PROVE  OneRunPerWorktree
<1> SUFFICES ASSUME NEW r \in live, NEW s \in live,
                    WorktreeOf[task[r[1]].owner] = WorktreeOf[task[s[1]].owner]
             PROVE  r = s
  BY DEF OneRunPerWorktree
<1> DEFINE d == WorktreeOf[task[r[1]].owner]
<1>1. Held(d, r) /\ Held(d, s)
  BY DEF HeldInv, RunsHeld
<1>2. r \in Tasks \X Nat /\ s \in Tasks \X Nat
  BY DEF TypeInv, Run
<1>3. r \notin Procs /\ s \notin Procs
  BY <1>2, ClaimAssumption
<1> HIDE DEF d
<1> QED BY <1>1, <1>3 DEF Held, Leads

-----------------------------------------------------------------------------
(* Where the steps lead. *)

LEMMA GotoIs ==
    ASSUME TypeInv, NEW p \in Procs, NEW pc, Goto(p, pc)
    PROVE  /\ procs'[p].pc = pc
           /\ procs'[p].op = procs[p].op
           /\ procs'[p].w = procs[p].w
           /\ procs'[p].t = procs[p].t
           /\ procs'[p].st = procs[p].st
           /\ procs'[p].out = procs[p].out
           /\ procs'[p].snap = procs[p].snap
<1> DEFINE new == [procs[p] EXCEPT !.pc = pc]
<1>1. procs'[p] = new
  BY DEF Goto, Becomes, TypeInv
<1>2. /\ new.pc = pc
      /\ new.op = procs[p].op
      /\ new.w = procs[p].w
      /\ new.t = procs[p].t
      /\ new.st = procs[p].st
      /\ new.out = procs[p].out
      /\ new.snap = procs[p].snap
  BY ProcTyped DEF Process
<1> HIDE DEF new
<1> QED BY <1>1, <1>2

LEMMA ReturnIs ==
    ASSUME TypeInv, NEW p \in Procs, Return(p)
    PROVE  procs'[p] = Ready /\ procs'[p].pc = "ready" /\ procs'[p].op = "none"
BY RecordsTyped DEF Return, Becomes, TypeInv, Ready

LEMMA SaveIs ==
    ASSUME TypeInv, NEW p \in Procs, NEW new, NEW pc, Save(p, new, pc)
    PROVE  /\ procs'[p].pc = pc
           /\ procs'[p].op = procs[p].op
           /\ procs'[p].w = procs[p].w
           /\ procs'[p].t = procs[p].t
           /\ procs'[p].st = Saved(new)
           /\ procs'[p].out = procs[p].out
           /\ procs'[p].snap = procs[p].snap
<1> DEFINE saved == Saved(new)
           c == [procs[p] EXCEPT !.st = saved, !.pc = pc]
<1>1. procs'[p] = c
  BY DEF Save, Becomes, TypeInv
<1> HIDE DEF saved
<1>2. /\ c.pc = pc
      /\ c.op = procs[p].op
      /\ c.w = procs[p].w
      /\ c.t = procs[p].t
      /\ c.st = saved
      /\ c.out = procs[p].out
      /\ c.snap = procs[p].snap
  BY ProcTyped DEF Process
<1> HIDE DEF c
<1> QED BY <1>1, <1>2 DEF saved

LEMMA SaveLastIs ==
    ASSUME TypeInv, NEW p \in Procs, NEW new, SaveLast(p, new)
    PROVE  procs'[p] = Ready /\ procs'[p].pc = "ready" /\ procs'[p].op = "none"
BY ReturnIs DEF SaveLast

LEMMA BecomesIs ==
    ASSUME TypeInv, NEW p \in Procs, NEW new, Becomes(p, new)
    PROVE  procs'[p] = new
BY DEF Becomes, TypeInv

LEMMA BeginIs ==
    ASSUME TypeInv, NEW p \in Procs, NEW cmd, NEW pc, NEW w, NEW t, NEW st,
           Begin(p, cmd, pc, w, t, st)
    PROVE  /\ procs[p].pc = "ready"
           /\ procs'[p].op = cmd
           /\ cmd \in Commands
           /\ procs'[p].pc = pc
           /\ procs'[p].w = w
           /\ procs'[p].t = t
           /\ procs'[p].st = st
<1> DEFINE new == [Ready EXCEPT !.op = cmd, !.pc = pc, !.w = w, !.t = t, !.st = st]
<1>1. new.op = cmd /\ new.pc = pc /\ new.w = w /\ new.t = t /\ new.st = st
  BY DEF Ready
<1>2. procs'[p] = new
  BY DEF Begin, Becomes, TypeInv
<1> HIDE DEF new
<1> QED BY <1>1, <1>2 DEF Begin

LEMMA NextWorkerIs ==
    ASSUME TypeInv, NEW p \in Procs, NextWorker(p)
    PROVE  \/ procs'[p] = Ready /\ procs'[p].pc = "ready" /\ procs'[p].op = "none"
           \/ /\ procs'[p].pc = "consider"
              /\ procs'[p].op = procs[p].op
              /\ procs'[p].w = procs[p].w + 1
              /\ procs'[p].snap = procs[p].snap
<1>1. CASE procs[p].w < NumWorkers
  <2> DEFINE new == [procs[p] EXCEPT !.w = procs[p].w + 1, !.pc = "consider"]
  <2>1. /\ new.pc = "consider"
        /\ new.op = procs[p].op
        /\ new.w = procs[p].w + 1
        /\ new.snap = procs[p].snap
    BY ProcTyped DEF Process
  <2>2. procs'[p] = new
    BY <1>1, BecomesIs DEF NextWorker
  <2> HIDE DEF new
  <2> QED BY <2>1, <2>2
<1> QED BY <1>1, ReturnIs DEF NextWorker

LEMMA IntakeMoves ==
    ASSUME TypeInv, NEW p \in Procs, IntakeStep(p)
    PROVE  /\ procs'[p].pc \in {"ready", "activate", "queue", "rollback"}
           /\ procs'[p].op \in {"none", procs[p].op}
BY GotoIs, ReturnIs, SaveLastIs DEF IntakeStep, CreateTask, EnqueueTask, ActivateTask, RollbackTask

\* A copy of the worker's state is loaded.
LEMMA LoadIs ==
    ASSUME TypeInv, NEW p \in Procs, NEW pc,
           Becomes(p, [procs[p] EXCEPT !.st = state[procs[p].w], !.pc = pc])
    PROVE  procs'[p].pc = pc /\ procs'[p].op = procs[p].op
<1> DEFINE new == [procs[p] EXCEPT !.st = state[procs[p].w], !.pc = pc]
<1>1. new.pc = pc /\ new.op = procs[p].op
  BY ProcTyped DEF Process
<1>2. procs'[p] = new
  BY BecomesIs
<1> HIDE DEF new
<1> QED BY <1>1, <1>2

RelaunchPc == {"wake", "find", "reassign", "adopt", "readopt"}

\* Only resume and retry go on to Start.
LEMMA ControlMoves ==
    ASSUME TypeInv, NEW p \in Procs, ControlStep(p)
    PROVE  /\ \/ procs'[p].pc \in {"ready", "suspend", "rest", "reload", "stop", "dequeue", "void",
                                   "vacate"}
              \/ procs[p].pc \in RelaunchPc /\ procs'[p].pc \in RelaunchPc \cup {"start"}
           /\ procs'[p].op \in {"none", procs[p].op}
<1> USE DEF RelaunchPc
<1>1. CASE StopRun(p) \/ SuspendTask(p) \/ CancelQueued(p) \/ VoidTask(p)
  BY <1>1, GotoIs, ReturnIs DEF StopRun, SuspendTask, CancelQueued, VoidTask
<1>2. CASE ReassignTask(p)
  <2>1. PICK pc \in {"start", "adopt"} : Goto(p, pc)
    BY <1>2 DEF ReassignTask
  <2> QED BY <1>2, <2>1, GotoIs DEF ReassignTask
<1>3. CASE PauseWorker(p) \/ VacateWorker(p) \/ ControlConflict(p)
  BY <1>3, SaveIs, SaveLastIs, ReturnIs DEF PauseWorker, VacateWorker, ControlConflict
<1>4. CASE WakeWorker(p) \/ ReadoptTask(p)
  BY <1>4, SaveIs DEF WakeWorker, ReadoptTask
<1>5. CASE AdoptTask(p)
  <2>1. \/ \E new : Save(p, new, "start") \/ Save(p, new, "readopt")
        \/ Return(p)
    BY <1>5 DEF AdoptTask
  <2> QED BY <1>5, <2>1, SaveIs, ReturnIs DEF AdoptTask
<1>6. CASE FindWorker(p)
  <2>1. \/ \E pc \in {"reassign"} :
              Becomes(p, [procs[p] EXCEPT !.st = state[procs[p].w], !.pc = pc])
        \/ Return(p)
    BY <1>6 DEF FindWorker
  <2> QED BY <1>6, <2>1, LoadIs, ReturnIs DEF FindWorker
<1>7. CASE LookAtWorker(p) \/ ReloadWorker(p)
  <2>1. PICK pc \in {"stop", "dequeue", "void"} :
           Becomes(p, [procs[p] EXCEPT !.st = state[procs[p].w], !.pc = pc])
    BY <1>7 DEF LookAtWorker, ReloadWorker, AfterStop
  <2> QED BY <2>1, LoadIs
<1> QED BY <1>1, <1>2, <1>3, <1>4, <1>5, <1>6, <1>7 DEF ControlStep

LEMMA ReviewMoves ==
    ASSUME TypeInv, NEW p \in Procs, ReviewStep(p)
    PROVE  /\ procs'[p].pc \in {"ready", "handoff", "await", "decide", "requeue", "close"}
           /\ procs'[p].op \in {"none", procs[p].op}
<1>1. CASE SubmitLoadState(p) \/ VerdictLoadState(p)
  <2>1. \/ \E pc \in {"handoff", "decide"} :
              Becomes(p, [procs[p] EXCEPT !.st = state[procs[p].w], !.pc = pc])
        \/ Return(p)
    BY <1>1 DEF SubmitLoadState, VerdictLoadState
  <2> QED BY <2>1, LoadIs, ReturnIs
<1>2. CASE AppendHandoff(p) \/ DecideHandoff(p) \/ RequeueTask(p)
  BY <1>2, GotoIs, ReturnIs DEF AppendHandoff, DecideHandoff, RequeueTask
<1>3. CASE AwaitReview(p) \/ CloseReview(p) \/ ReviewConflict(p)
  BY <1>3, SaveLastIs, ReturnIs DEF AwaitReview, CloseReview, ReviewConflict
<1> QED BY <1>1, <1>2, <1>3 DEF ReviewStep

LEMMA InvokeMoves ==
    ASSUME TypeInv, NEW p \in Procs, Invoke(p)
    PROVE  /\ procs[p].pc = "ready"
           /\ \/ procs'[p].pc \in {"create", "stop", "look", "join", "judge"}
              \/ procs'[p].pc = "start" /\ "start" \in Commands
              \/ procs'[p].pc = "wake" /\ "resume" \in Commands
              \/ procs'[p].pc = "find" /\ "retry" \in Commands
              \/ BeginSchedule(p)
           /\ procs'[p].op = "schedule" => BeginSchedule(p)
<1>1. CASE \E w \in Workers, t \in Tasks : BeginIntake(p, w, t)
  BY <1>1, BeginIs DEF BeginIntake
<1>2. CASE \E w \in Workers : BeginStart(p, w) \/ BeginPause(p, w) \/ BeginResume(p, w)
  BY <1>2, BeginIs DEF BeginStart, BeginPause, BeginResume
<1>3. CASE \E t \in Tasks : BeginRetry(p, t) \/ BeginSubmit(p, t) \/ BeginVerdict(p, t)
  BY <1>3, BeginIs DEF BeginRetry, BeginSubmit, BeginVerdict
<1>4. CASE \E t \in Tasks : BeginCancel(p, t)
  <2>1. PICK t \in Tasks : BeginCancel(p, t)
    BY <1>4
  <2> DEFINE new == [Ready EXCEPT !.op = "cancel", !.pc = "look", !.w = task[t].owner,
                                  !.t = t, !.status = task[t].status]
  <2>2. new.pc = "look" /\ new.op = "cancel"
    BY DEF Ready
  <2>3. procs'[p] = new
    BY <2>1, BecomesIs DEF BeginCancel
  <2> HIDE DEF new
  <2> QED BY <2>1, <2>2, <2>3 DEF BeginCancel
<1>5. CASE BeginSchedule(p)
  BY <1>5, BeginIs DEF BeginSchedule
<1> QED BY <1>1, <1>2, <1>3, <1>4, <1>5 DEF Invoke

(* The attempts of the tasks. *)

LEMMA KeptAttempts ==
    ASSUME UNCHANGED task, NEW p
    PROVE  AttemptsKept(p)
BY DEF AttemptsKept

LEMMA SetAttempts ==
    ASSUME TypeInv, NEW p, NEW t \in Tasks, NEW k, SetTask(t, k),
           \/ Len(k.attempts) = Len(task[t].attempts)
           \/ procs[p].pc = "record" /\ procs[p].t = t
           \/ \A w \in Workers : ~Settled(t, w)
    PROVE  AttemptsKept(p)
BY DEF SetTask, TypeInv, AttemptsKept

LEMMA StatusAttempts ==
    ASSUME TypeInv, NEW p, NEW t \in Tasks, NEW status, SetControlStatus(t, status)
    PROVE  AttemptsKept(p)
<1> DEFINE k == [task[t] EXCEPT !.status = status]
<1>1. k.attempts = task[t].attempts
  BY DEF TypeInv, Task
<1> HIDE DEF k
<1>2. SetTask(t, k)
  BY DEF SetControlStatus, k
<1> QED BY <1>1, <1>2, SetAttempts

LEMMA ReplaceLastLen ==
    ASSUME NEW S, NEW s \in Seq(S), s # <<>>, NEW e \in S
    PROVE  Len(ReplaceLast(s, e)) = Len(s)
<1>1. Len(s) \in 1 .. Len(s)
  BY EmptySeq, LenProperties
<1> QED BY <1>1, ExceptSeq DEF ReplaceLast

(* The actions. *)

\* A step away from the claims.
LEMMA PlainHolds ==
    ASSUME TypeInv, NEW p \in Procs, procs[p].pc \notin HoldPc, procs'[p].pc \notin HoldPc,
           UNCHANGED claim, live' \subseteq live, AttemptsKept(p)
    PROVE  HeldStep(p)
BY DEF HeldStep, Leads, HoldPc

LEMMA IntakeHolds ==
    ASSUME TypeInv, BelongInv, NEW p \in Procs, IntakeStep(p)
    PROVE  HeldStep(p)
<1>1. UNCHANGED <<claim, live>> /\ procs[p].pc \notin HoldPc
  BY DEF IntakeStep, CreateTask, EnqueueTask, ActivateTask, RollbackTask, HoldPc
<1>2. procs'[p].pc \in {"ready", "activate", "queue", "rollback"}
  BY IntakeMoves
<1>3. AttemptsKept(p)
  <2>1. CASE CreateTask(p)
    <3>1. CASE UNCHANGED task
      BY <3>1, KeptAttempts
    <3>2. CASE ~Exists(procs[p].t) /\ \E k : SetTask(procs[p].t, k)
      <4>1. procs[p].t \in Tasks
        BY <2>1, ProcTyped DEF CreateTask, Unbound
      <4> QED BY <3>2, <4>1, SetAttempts DEF Settled
    <3> QED BY <2>1, <3>1, <3>2 DEF CreateTask
  <2>2. CASE RollbackTask(p)
    <3>1. procs[p].t \in Tasks /\ MadeBy(p, procs[p].t)
      BY <2>2, ProcTyped DEF RollbackTask, Unbound, MadeBy, MakingPc
    <3> QED BY <2>2, <3>1, SetAttempts DEF RollbackTask, Settled
  <2> QED BY <2>1, <2>2, KeptAttempts DEF IntakeStep, EnqueueTask, ActivateTask
<1> QED BY <1>1, <1>2, <1>3, PlainHolds DEF HoldPc

LEMMA ScheduleHolds ==
    ASSUME TypeInv, BelongInv, NEW p \in Procs, ScheduleStep(p)
    PROVE  HeldStep(p)
<1>1. UNCHANGED <<claim, live>> /\ procs[p].pc \notin HoldPc
  BY DEF ScheduleStep, SnapshotWorker, ConsiderWorker, LeaseHead, InspectTask, GiveLeaseBack,
         ReserveWorker, MarkAssigned, CommitLease, HoldPc
<1>2. procs'[p].pc \notin HoldPc
  <2>1. CASE SnapshotWorker(p)
    <3> DEFINE w == procs[p].w
               snap == [procs[p].snap EXCEPT ![w] = state[w]]
               next == [procs[p] EXCEPT !.snap = snap, !.w = w + 1]
               first == [procs[p] EXCEPT !.snap = snap, !.w = 1, !.pc = "consider"]
    <3>1. next.pc = "snapshot" /\ first.pc = "consider"
      BY <2>1, ProcTyped DEF Process, SnapshotWorker
    <3>2. Becomes(p, next) \/ Return(p) \/ Becomes(p, first)
      BY <2>1 DEF SnapshotWorker
    <3> HIDE DEF next, first
    <3> QED BY <3>1, <3>2, BecomesIs, ReturnIs DEF HoldPc
  <2>2. CASE LeaseHead(p)
    <3> DEFINE new == [procs[p] EXCEPT !.t = queue[procs[p].w][1].task, !.pc = "inspect"]
    <3>1. new.pc = "inspect"
      BY ProcTyped DEF Process
    <3>2. Becomes(p, new) \/ Return(p) \/ NextWorker(p)
      BY <2>2 DEF LeaseHead
    <3> HIDE DEF new
    <3> QED BY <3>1, <3>2, BecomesIs, ReturnIs, NextWorkerIs DEF HoldPc
  <2>3. CASE InspectTask(p)
    <3>1. PICK pc \in {"giveback", "reserve", "skip"} : Goto(p, pc)
      BY <2>3 DEF InspectTask
    <3> QED BY <3>1, GotoIs DEF HoldPc
  <2>4. CASE ConsiderWorker(p) \/ GiveLeaseBack(p)
    BY <2>4, GotoIs, ReturnIs, NextWorkerIs DEF ConsiderWorker, GiveLeaseBack, HoldPc
  <2>5. CASE ReserveWorker(p) \/ MarkAssigned(p) \/ CommitLease(p)
    BY <2>5, GotoIs, ReturnIs DEF ReserveWorker, MarkAssigned, CommitLease, HoldPc
  <2> QED BY <2>1, <2>2, <2>3, <2>4, <2>5 DEF ScheduleStep
<1>3. AttemptsKept(p)
  <2>1. CASE MarkAssigned(p)
    <3>1. procs[p].t \in Tasks
      BY <2>1, ProcTyped DEF MarkAssigned, Unbound
    <3> QED BY <2>1, <3>1, KeptAttempts, StatusAttempts DEF MarkAssigned
  <2>2. CASE UNCHANGED task
    BY <2>2, KeptAttempts
  <2> QED BY <2>1, <2>2 DEF ScheduleStep, SnapshotWorker, ConsiderWorker, LeaseHead, InspectTask,
                            GiveLeaseBack, ReserveWorker, CommitLease
<1> QED BY <1>1, <1>2, <1>3, PlainHolds

LEMMA ControlHolds ==
    ASSUME TypeInv, BelongInv, NEW p \in Procs, ControlStep(p)
    PROVE  HeldStep(p)
<1>1. UNCHANGED claim /\ live' \subseteq live /\ procs[p].pc \notin HoldPc
  BY DEF ControlStep, StopRun, SuspendTask, PauseWorker, WakeWorker, ReassignTask, FindWorker,
         AdoptTask, ReadoptTask, LookAtWorker, ReloadWorker, CancelQueued, VoidTask,
         VacateWorker, ControlConflict, HoldPc
<1>2. procs'[p].pc \notin HoldPc
  BY ControlMoves DEF HoldPc, RelaunchPc
<1>3. AttemptsKept(p)
  <2>1. CASE SuspendTask(p)
    <3> DEFINE t == procs[p].t
               attempts == IF task[t].attempts = <<>> THEN task[t].attempts
                           ELSE ReplaceLast(task[t].attempts, "paused")
               k == [task[t] EXCEPT !.status = "paused", !.attempts = attempts]
    <3>1. t \in Tasks /\ task[t] \in Task
      BY <2>1, OwnTask DEF SuspendTask, Loose, MakingPc
    <3>2. Len(attempts) = Len(task[t].attempts)
      BY <3>1, ReplaceLastLen DEF Task, Disposition
    <3> HIDE DEF attempts
    <3>3. k.attempts = attempts
      BY <3>1 DEF Task
    <3> HIDE DEF k
    <3>4. SetTask(t, k)
      BY <2>1 DEF SuspendTask, k, attempts
    <3> QED BY <3>1, <3>2, <3>3, <3>4, SetAttempts
  <2>2. CASE ReassignTask(p) \/ VoidTask(p)
    <3>1. procs[p].t \in Tasks
      BY <2>2, ProcTyped DEF ReassignTask, VoidTask, Unbound
    <3> QED BY <2>2, <3>1, KeptAttempts, StatusAttempts DEF ReassignTask, VoidTask
  <2>3. CASE UNCHANGED task
    BY <2>3, KeptAttempts
  <2> QED BY <2>1, <2>2, <2>3
          DEF ControlStep, StopRun, PauseWorker, WakeWorker, FindWorker, AdoptTask, ReadoptTask,
              LookAtWorker, ReloadWorker, CancelQueued, VacateWorker, ControlConflict
<1> QED BY <1>1, <1>2, <1>3, PlainHolds

LEMMA ReviewHolds ==
    ASSUME TypeInv, BelongInv, NEW p \in Procs, ReviewStep(p)
    PROVE  HeldStep(p)
<1>1. UNCHANGED <<claim, live>> /\ procs[p].pc \notin HoldPc
  BY DEF ReviewStep, SubmitLoadState, AppendHandoff, AwaitReview, VerdictLoadState,
         DecideHandoff, RequeueTask, CloseReview, ReviewConflict, HoldPc
<1>2. procs'[p].pc \notin HoldPc
  BY ReviewMoves DEF HoldPc
<1>3. AttemptsKept(p)
  <2>1. CASE AppendHandoff(p) \/ DecideHandoff(p)
    <3> DEFINE t == procs[p].t
    <3>1. t \in Tasks /\ task[t] \in Task
      BY <2>1, OwnTask DEF AppendHandoff, DecideHandoff, Loose, MakingPc
    <3>2. PICK status, handoffs :
             SetTask(t, [task[t] EXCEPT !.status = status, !.handoffs = handoffs])
      BY <2>1 DEF AppendHandoff, DecideHandoff
    <3> DEFINE k == [task[t] EXCEPT !.status = status, !.handoffs = handoffs]
    <3>3. k.attempts = task[t].attempts
      BY <3>1 DEF Task
    <3> HIDE DEF k
    <3>4. SetTask(t, k)
      BY <3>2 DEF k
    <3> QED BY <3>1, <3>3, <3>4, SetAttempts
  <2>2. CASE UNCHANGED task
    BY <2>2, KeptAttempts
  <2> QED BY <2>1, <2>2 DEF ReviewStep, SubmitLoadState, AwaitReview, VerdictLoadState, RequeueTask,
                            CloseReview, ReviewConflict
<1> QED BY <1>1, <1>2, <1>3, PlainHolds

LEMMA InvokeHolds ==
    ASSUME TypeInv, NEW p \in Procs, Invoke(p)
    PROVE  HeldStep(p)
<1>1. UNCHANGED <<claim, live, task>> /\ procs[p].pc = "ready"
  BY DEF Invoke, BeginIntake, BeginStart, BeginSchedule, BeginPause, BeginResume, BeginRetry,
         BeginCancel, BeginSubmit, BeginVerdict, Begin
<1>2. procs'[p].pc \notin HoldPc
  BY InvokeMoves, BeginIs DEF BeginSchedule, HoldPc
<1> QED BY <1>1, <1>2, KeptAttempts, PlainHolds DEF HoldPc

\* Start gives its claim back; the run it has launched, if any, is not led by it.
LEMMA ReleaseHolds ==
    ASSUME TypeInv, NEW p \in Procs, Return(p), claim' = Released(p), UNCHANGED <<task, live>>,
           procs[p].pc \in {"record", "settle"} => procs[p].out # "async"
    PROVE  HeldStep(p)
<1>1. \A d \in Worktrees : claim[d] # p => claim'[d] = claim[d]
  BY DEF Released
<1>2. \A r \in live : r # p /\ ~Leads(p, r)
  BY ClaimAssumption DEF TypeInv, Run, Leads
<1>3. procs'[p].pc \notin HoldPc
  BY ReturnIs DEF HoldPc
<1> QED BY <1>1, <1>2, <1>3, KeptAttempts DEF HeldStep

\* Start goes on under its claim.
LEMMA HoldingOn ==
    ASSUME TypeInv, HeldInv, NEW p \in Procs, procs[p].pc \in {"locate", "depart", "launch"},
           procs'[p].w = procs[p].w, UNCHANGED <<claim, task>>,
           \A r \in live' : r \in live \/ Leads(p, r)'
    PROVE  HeldStep(p)
<1>1. claim'[WorktreeOf[procs'[p].w]] = p
  BY DEF HeldInv, Holders, HoldPc
<1> QED BY <1>1, KeptAttempts DEF HeldStep, Leads

LEMMA StartHolds ==
    ASSUME TypeInv, CopyInv, BelongInv, HeldInv, NEW p \in Procs, StartStep(p)
    PROVE  HeldStep(p)
<1>0. procs[p].w \in Workers /\ WorktreeOf[procs[p].w] \in Worktrees
  BY ProcTyped, WorktreeAssumption
<1>1. CASE StartLoadState(p)
  <2> DEFINE st == state[procs[p].w]
             new == [procs[p] EXCEPT !.st = st, !.t = st.active, !.pc = "restore"]
  <2>1. new.pc = "restore"
    BY ProcTyped DEF Process
  <2> HIDE DEF new
  <2>2. Becomes(p, new) \/ Return(p)
    BY <1>1 DEF StartLoadState, new
  <2>3. procs[p].pc \notin HoldPc /\ procs'[p].pc \notin HoldPc
    BY <1>1, <2>1, <2>2, BecomesIs, ReturnIs DEF StartLoadState, HoldPc
  <2> QED BY <1>1, <2>3, KeptAttempts, PlainHolds DEF StartLoadState
<1>2. CASE StartLoadTask(p)
  <2>1. procs[p].pc \notin HoldPc /\ procs'[p].pc \notin HoldPc
    BY <1>2, GotoIs, ReturnIs DEF StartLoadTask, HoldPc
  <2> QED BY <1>2, <2>1, KeptAttempts, PlainHolds DEF StartLoadTask
<1>3. CASE ClaimWorktree(p)
  <2> DEFINE d == WorktreeOf[procs[p].w]
  <2>1. procs[p].pc = "claim" /\ UNCHANGED <<task, live>>
    BY <1>3 DEF ClaimWorktree
  <2>2. CASE Return(p) /\ UNCHANGED claim
    BY <2>1, <2>2, ReturnIs, KeptAttempts, PlainHolds DEF HoldPc
  <2>3. CASE ~ClaimAlive(d) /\ claim' = [claim EXCEPT ![d] = p] /\ Goto(p, "locate")
    <3>1. claim[d] \notin Procs \cup live
      BY <2>3 DEF ClaimAlive
    <3>2. claim'[d] = p /\ \A e \in Worktrees : e # d => claim'[e] = claim[e]
      BY <1>0, <2>3 DEF TypeInv
    <3>3. procs'[p].w = procs[p].w
      BY <2>3, GotoIs
    <3> QED BY <2>1, <3>1, <3>2, <3>3, KeptAttempts DEF HeldStep, Leads
  <2> QED BY <1>3, <2>2, <2>3 DEF ClaimWorktree
<1>4. CASE SaveLocation(p)
  <2>1. procs'[p].w = procs[p].w
    BY <1>4, SaveIs DEF SaveLocation
  <2> QED BY <1>4, <2>1, HoldingOn DEF SaveLocation
<1>5. CASE StartFails(p)
  BY <1>5, ReleaseHolds DEF StartFails
<1>6. CASE Depart(p)
  <2>1. procs'[p].w = procs[p].w
    BY <1>6, SaveIs DEF Depart
  <2> QED BY <1>6, <2>1, HoldingOn DEF Depart
<1>7. CASE Launch(p)
  <2>1. PICK out \in Outcome \ {"none"} :
           /\ Becomes(p, [procs[p] EXCEPT !.out = out, !.pc = "record"])
           /\ live' = IF out = "async" THEN live \cup {ThisRun(p)} ELSE live
    BY <1>7 DEF Launch
  <2> DEFINE new == [procs[p] EXCEPT !.out = out, !.pc = "record"]
  <2>2. new.pc = "record" /\ new.out = out /\ new.t = procs[p].t /\ new.w = procs[p].w
    BY ProcTyped DEF Process
  <2>3. procs'[p] = new
    BY <2>1, BecomesIs
  <2> HIDE DEF new
  <2>4. procs'[p].w = procs[p].w
    BY <2>2, <2>3
  <2>5. procs[p].pc = "launch" /\ UNCHANGED <<task, claim>>
    BY <1>7 DEF Launch
  <2>6. \A r \in live' : r \in live \/ Leads(p, r)'
    BY <2>1, <2>2, <2>3, <2>5 DEF Leads, ThisRun
  <2> QED BY <2>4, <2>5, <2>6, HoldingOn
<1>8. CASE RecordAttempt(p)
  <2> DEFINE t == procs[p].t
             failed == procs[p].out = "error"
             disposition == IF failed THEN "launch_failed" ELSE "executing"
             attempts == Append(task[t].attempts, disposition)
             status == IF failed THEN "failed" ELSE task[t].status
             k == [task[t] EXCEPT !.attempts = attempts, !.status = status]
  <2>1. t \in Tasks /\ task[t] \in Task
    BY <1>8, OwnTask DEF RecordAttempt, Loose, MakingPc
  <2>2. disposition \in Disposition
    BY DEF Disposition
  <2> HIDE DEF disposition, status
  <2>3. Len(attempts) = Len(task[t].attempts) + 1
    BY <2>1, <2>2, AppendProperties DEF Task
  <2> HIDE DEF attempts
  <2>4. k.attempts = attempts
    BY <2>1 DEF Task
  <2> HIDE DEF k
  <2>5. /\ SetTask(t, k) /\ Goto(p, "settle") /\ UNCHANGED <<state, queue, claim, live>>
        /\ procs[p].pc = "record"
    BY <1>8 DEF RecordAttempt, k, attempts, status, disposition
  <2>6. task'[t] = k
    BY <2>1, <2>5 DEF SetTask, TypeInv
  <2>7. /\ procs'[p].pc = "settle" /\ procs'[p].w = procs[p].w /\ procs'[p].t = t
        /\ procs'[p].out = procs[p].out
    BY <2>5, GotoIs
  <2>8. \A r : Leads(p, r) => Leads(p, r)'
    BY <2>3, <2>4, <2>5, <2>6, <2>7 DEF Leads
  <2>9. claim'[WorktreeOf[procs'[p].w]] = p
    BY <2>5, <2>7 DEF HeldInv, Holders, HoldPc
  <2>10. AttemptsKept(p)
    BY <2>1, <2>5, SetAttempts
  <2> QED BY <2>5, <2>8, <2>9, <2>10 DEF HeldStep
<1>9. ASSUME procs[p].pc = "settle", LaunchFailed(p)
      PROVE  procs[p].out # "async"
  BY <1>9 DEF LaunchFailed, HeldInv, Holders, HoldPc
<1>10. CASE SettleFailed(p)
  <2>1. Return(p)
    BY <1>10 DEF SettleFailed, SaveLast
  <2> QED BY <1>9, <1>10, <2>1, ReleaseHolds DEF SettleFailed
<1>11. CASE TransferClaim(p)
  <2> DEFINE d == WorktreeOf[procs[p].w]
             r == <<procs[p].t, Len(task[procs[p].t].attempts)>>
  <2>1. claim[d] = p /\ procs[p].pc = "settle" /\ UNCHANGED <<task, live>>
    BY <1>11 DEF TransferClaim, LaunchFailed
  <2>2. claim'[d] = r /\ \A e \in Worktrees : e # d => claim'[e] = claim[e]
    BY <1>0, <1>11 DEF TransferClaim, TypeInv
  <2>3. \A s : Leads(p, s) => s = r
    BY <2>1 DEF Leads
  <2>4. \A s \in live : s # p
    BY ClaimAssumption DEF TypeInv, Run
  <2>5. procs'[p].pc \notin HoldPc
    BY <1>11, GotoIs DEF TransferClaim, HoldPc
  <2> QED BY <2>1, <2>2, <2>3, <2>4, <2>5, KeptAttempts DEF HeldStep
<1>12. CASE Ascend(p) \/ CheckCompletion(p)
  <2>1. procs[p].pc \notin HoldPc /\ UNCHANGED <<task, claim, live>>
    BY <1>12 DEF Ascend, CheckCompletion, HoldPc
  <2>2. \/ \E new : Save(p, new, "check") \/ SaveLast(p, new)
        \/ Return(p)
    BY <1>12 DEF Ascend, CheckCompletion
  <2>3. procs'[p].pc \notin HoldPc
    BY <2>2, SaveIs, SaveLastIs, ReturnIs DEF HoldPc
  <2> QED BY <2>1, <2>3, KeptAttempts, PlainHolds
<1>13. CASE StartConflict(p)
  BY <1>9, <1>13, ReleaseHolds DEF StartConflict
<1> QED BY <1>1, <1>2, <1>3, <1>4, <1>5, <1>6, <1>7, <1>8, <1>10, <1>11, <1>12, <1>13
        DEF StartStep

LEMMA InitHolds == Init => HeldInv
<1> SUFFICES ASSUME Init PROVE HeldInv
  OBVIOUS
<1>1. live = {} /\ \A p \in Procs : procs[p].pc = "ready"
  BY RecordsTyped DEF Init
<1> QED BY <1>1 DEF HeldInv, Holders, RunsHeld, HoldPc

LEMMA NextHolds ==
    ASSUME MaxCrashes = 0
    PROVE  TypeInv /\ CopyInv /\ BelongInv /\ HeldInv /\ [Next]_vars => HeldInv'
<1> SUFFICES ASSUME TypeInv, CopyInv, BelongInv, HeldInv, [Next]_vars PROVE HeldInv'
  OBVIOUS
<1>1. TypeInv'
  BY NextTyped
<1>2. CASE \E p \in Procs : Invoke(p) \/ Step(p)
  <2>1. PICK p \in Procs : Invoke(p) \/ Step(p)
    BY <1>2
  <2>2. HeldStep(p)
    BY <2>1, InvokeHolds, IntakeHolds, ScheduleHolds, StartHolds, ControlHolds, ReviewHolds
       DEF Step
  <2>3. BelongStep(p)
    BY <2>1, InvokeBelongs, IntakeBelongs, ScheduleBelongs, StartBelongs, ControlBelongs,
       ReviewBelongs DEF Step
  <2> QED BY <1>1, <2>2, <2>3, StepHolds
<1>3. CASE \E w \in Workers : Operate(w) \/ ExpireLease(w)
  BY <1>3, QuietHolds
     DEF Operate, ReorderQueue, RemoveFromQueue, ResetWorker, ExpireLease
<1>4. CASE \E r \in live : RunCompletes(r)
  BY <1>4, QuietHolds DEF RunCompletes
<1>5. CASE \E p \in Procs : Crash(p)
  BY <1>5 DEF Crash, TypeInv
<1>6. CASE UNCHANGED vars
  BY <1>6, QuietHolds DEF vars
<1> QED BY <1>2, <1>3, <1>4, <1>5, <1>6 DEF Next

\* claim.go:30: the claim file keeps two runs from working in one directory at a
\* time, whichever workers share the worktree, however their starts, pauses,
\* cancels and retries overlap, and although the claim changes hands from the
\* invocation to the run between two of its steps.  An invocation that dies in
\* between leaves a claim that the next one takes for stale, hence the hypothesis.
THEOREM WorktreesExclude ==
    ASSUME MaxCrashes = 0
    PROVE  Spec => []OneRunPerWorktree
<1>1. TypeInv /\ HeldInv => OneRunPerWorktree
  BY HeldIsOne
<1>2. TypeInv /\ CopyInv /\ BelongInv /\ HeldInv /\ [Next]_vars => HeldInv'
  BY NextHolds
<1> QED BY <1>1, <1>2, InitTyped, NextTyped, InitCopy, NextCopy, InitBelongs, NextBelongs,
           InitHolds, PTL DEF Spec

-----------------------------------------------------------------------------
(* How many workers work at a time.  Only the dispatched Start makes a       *)
(* worker busy; its scheduler has counted the busy workers on copies that no *)
(* other scheduler's dispatch has come after, because the project lock keeps *)
(* the others out until its Start is over.                                   *)

\* From its first load to the write that makes a worker busy, and from there on.
SchedPc == {"snapshot", "consider", "lease", "inspect", "reserve", "skip", "giveback", "mark",
            "commit", "start", "restore", "claim", "locate", "depart"}
LaunchedPc == {"launch", "record", "settle", "ascend", "check"}

\* p's copy of w's state is of this run of the scheduler.
Loaded(p, w) == procs[p].pc # "snapshot" \/ w < procs[p].w

Room(p, ws, limit) == ~Reached(limit, Running(procs[p].snap, ws))

\* The project's limit was tested on the copies, and the runtime's limit is
\* tested for each worker the scheduler goes on with.
Scheduling(p) ==
    /\ procs[p].pc \in SchedPc \cup LaunchedPc => procs[p].op = "schedule"
    /\ procs[p].pc \notin RelaunchPc
    /\ procs[p].pc \in SchedPc =>
          \A w \in Workers : Loaded(p, w) /\ Busy(state[w]) => Busy(procs[p].snap[w])
    /\ procs[p].pc \in SchedPc \ {"snapshot"} => Room(p, Workers, ProjectLimit)
    /\ procs[p].pc \in SchedPc \ {"snapshot", "consider"} =>
          Room(p, SameRuntime(procs[p].w), RuntimeLimit[RuntimeOf[procs[p].w]])

OneScheduler ==
    \A p, q \in Procs : procs[p].op = "schedule" /\ procs[q].op = "schedule" => p = q

LimitInv ==
    /\ LimitsRespected
    /\ OneScheduler
    /\ \A p \in Procs : Scheduling(p)

\* What a step of p may do.
Calm == \A w \in Workers : Busy(state'[w]) => Busy(state[w])

LimitStep(p) ==
    /\ \/ Calm
       \/ /\ procs[p].pc = "depart"
          /\ \A w \in Workers : Busy(state'[w]) => Busy(state[w]) \/ w = procs[p].w
    /\ procs'[p].op = "schedule" => procs[p].op = "schedule" \/ ~ProjectLocked
    /\ Scheduling(p)'

(* The counts. *)

LEMMA RunningFewer ==
    ASSUME NEW a, NEW b, NEW ws \in SUBSET Workers, \A w \in ws : Busy(a[w]) => Busy(b[w])
    PROVE  Running(a, ws) \in Nat /\ Running(b, ws) \in Nat /\ Running(a, ws) <= Running(b, ws)
<1> DEFINE A == {w \in ws : Busy(a[w])}
           B == {w \in ws : Busy(b[w])}
<1>1. IsFiniteSet(Workers)
  BY WorkersAssumption, FS_Interval DEF Workers
<1>2. A \subseteq B /\ B \subseteq Workers
  OBVIOUS
<1>3. IsFiniteSet(B)
  BY <1>1, <1>2, FS_Subset
<1>4. IsFiniteSet(A) /\ Cardinality(A) <= Cardinality(B)
  BY <1>2, <1>3, FS_Subset
<1>5. Cardinality(A) \in Nat /\ Cardinality(B) \in Nat
  BY <1>3, <1>4, FS_CardinalityType
<1> QED BY <1>4, <1>5 DEF Running

LEMMA RunningOneMore ==
    ASSUME NEW a, NEW b, NEW ws \in SUBSET Workers, NEW v,
           \A w \in ws : Busy(a[w]) => Busy(b[w]) \/ w = v
    PROVE  /\ Running(a, ws) \in Nat /\ Running(b, ws) \in Nat
           /\ Running(a, ws) <= Running(b, ws) + 1
<1> DEFINE A == {w \in ws : Busy(a[w])}
           B == {w \in ws : Busy(b[w])}
<1>1. IsFiniteSet(Workers)
  BY WorkersAssumption, FS_Interval DEF Workers
<1>2. A \subseteq B \cup {v} /\ B \subseteq Workers /\ A \subseteq Workers
  OBVIOUS
<1>3. IsFiniteSet(A) /\ IsFiniteSet(B)
  BY <1>1, <1>2, FS_Subset
<1>4. Cardinality(A) \in Nat /\ Cardinality(B) \in Nat
  BY <1>3, FS_CardinalityType
<1>5. /\ IsFiniteSet(B \cup {v})
      /\ Cardinality(B \cup {v}) = IF v \in B THEN Cardinality(B) ELSE Cardinality(B) + 1
  BY <1>3, FS_AddElement
<1> HIDE DEF A, B
<1>6. Cardinality(A) <= Cardinality(B \cup {v})
  BY <1>2, <1>5, FS_Subset
<1>7. Cardinality(A) <= Cardinality(B) + 1
  BY <1>4, <1>5, <1>6
<1> QED BY <1>4, <1>7 DEF Running, A, B

\* No worker of other runtimes is counted, and a worker's runtime has one limit.
LEMMA RuntimesApart ==
    ASSUME NEW v \in Workers, NEW w \in Workers
    PROVE  /\ SameRuntime(w) \in SUBSET Workers
           /\ RuntimeOf[v] # RuntimeOf[w] => v \notin SameRuntime(w)
           /\ RuntimeOf[v] = RuntimeOf[w] => SameRuntime(v) = SameRuntime(w)
           /\ RuntimeLimit[RuntimeOf[w]] \in Nat
           /\ ProjectLimit \in Nat
BY LimitsAssumption DEF SameRuntime

LEMMA CalmLimits ==
    ASSUME LimitsRespected, Calm
    PROVE  LimitsRespected'
<1>1. ASSUME NEW ws \in SUBSET Workers
      PROVE  /\ Running(state', ws) \in Nat /\ Running(state, ws) \in Nat
             /\ Running(state', ws) <= Running(state, ws)
  BY RunningFewer DEF Calm
<1>2. ProjectLimit > 0 => Running(state', Workers) <= ProjectLimit
  BY <1>1, LimitsAssumption DEF LimitsRespected
<1>3. ASSUME NEW w \in Workers, RuntimeLimit[RuntimeOf[w]] > 0
      PROVE  Running(state', SameRuntime(w)) <= RuntimeLimit[RuntimeOf[w]]
  BY <1>1, <1>3, RuntimesApart DEF LimitsRespected
<1> QED BY <1>2, <1>3 DEF LimitsRespected, Running

LEMMA DepartLimits ==
    ASSUME TypeInv, LimitsRespected, NEW p \in Procs, Scheduling(p), procs[p].pc = "depart",
           \A w \in Workers : Busy(state'[w]) => Busy(state[w]) \/ w = procs[p].w
    PROVE  LimitsRespected'
<1> DEFINE v == procs[p].w
           snap == procs[p].snap
<1>1. /\ v \in Workers
      /\ \A w \in Workers : Busy(state[w]) => Busy(snap[w])
      /\ ~Reached(ProjectLimit, Running(snap, Workers))
      /\ ~Reached(RuntimeLimit[RuntimeOf[v]], Running(snap, SameRuntime(v)))
  BY ProcTyped DEF Scheduling, SchedPc, Loaded, Room
<1>2. \A w \in Workers : Busy(state'[w]) => Busy(snap[w]) \/ w = v
  BY <1>1
<1> HIDE DEF v, snap
<1>3. ASSUME NEW ws \in SUBSET Workers
      PROVE  /\ Running(state', ws) \in Nat /\ Running(snap, ws) \in Nat
             /\ Running(state', ws) <= Running(snap, ws) + 1
  BY <1>2, RunningOneMore
<1>4. ASSUME NEW limit \in Nat, limit > 0, NEW ws \in SUBSET Workers,
             ~Reached(limit, Running(snap, ws))
      PROVE  Running(state', ws) <= limit
  BY <1>3, <1>4 DEF Reached
<1>5. ProjectLimit > 0 => Running(state', Workers) <= ProjectLimit
  BY <1>1, <1>4, LimitsAssumption
<1>6. ASSUME NEW w \in Workers, RuntimeLimit[RuntimeOf[w]] > 0
      PROVE  Running(state', SameRuntime(w)) <= RuntimeLimit[RuntimeOf[w]]
  <2>1. CASE RuntimeOf[v] = RuntimeOf[w]
    BY <1>1, <1>4, <1>6, <2>1, RuntimesApart
  <2>2. CASE RuntimeOf[v] # RuntimeOf[w]
    <3>1. \A u \in SameRuntime(w) : Busy(state'[u]) => Busy(state[u])
      BY <1>1, <2>2, RuntimesApart DEF v
    <3>2. /\ Running(state', SameRuntime(w)) \in Nat /\ Running(state, SameRuntime(w)) \in Nat
          /\ Running(state', SameRuntime(w)) <= Running(state, SameRuntime(w))
      BY <3>1, RuntimesApart, RunningFewer
    <3> QED BY <1>6, <3>2, RuntimesApart DEF LimitsRespected
  <2> QED BY <2>1, <2>2
<1> QED BY <1>5, <1>6 DEF LimitsRespected, Running

LEMMA StepLimits ==
    ASSUME TypeInv, LimitInv, NEW p \in Procs, LimitStep(p),
           \A q \in Procs \ {p} : procs'[q] = procs[q]
    PROVE  LimitInv'
<1>1. LimitsRespected'
  BY CalmLimits, DepartLimits DEF LimitInv, LimitStep
<1>2. OneScheduler'
  <2> SUFFICES ASSUME NEW q \in Procs, NEW r \in Procs, q # r,
                      procs'[q].op = "schedule", procs'[r].op = "schedule"
               PROVE  FALSE
    BY DEF OneScheduler
  <2>1. CASE q # p /\ r # p
    BY <2>1 DEF LimitInv, OneScheduler
  <2>2. CASE q = p \/ r = p
    BY <2>2 DEF LimitInv, OneScheduler, LimitStep, ProjectLocked
  <2> QED BY <2>1, <2>2
<1>3. ASSUME NEW q \in Procs PROVE Scheduling(q)'
  <2>1. CASE q = p
    BY <2>1 DEF LimitStep
  <2>2. CASE q # p
    <3>1. procs'[q] = procs[q] /\ Scheduling(q)
      BY <2>2 DEF LimitInv
    <3>2. ASSUME procs[q].pc \in SchedPc, NEW w \in Workers, Loaded(q, w), Busy(state'[w])
          PROVE  Busy(procs[q].snap[w])
      <4>1. Calm
        <5> SUFFICES ASSUME procs[p].pc = "depart" PROVE FALSE
          BY DEF LimitStep
        <5>1. procs[p].op = "schedule" /\ procs[q].op = "schedule"
          BY <3>2 DEF LimitInv, Scheduling, SchedPc
        <5> QED BY <2>2, <5>1 DEF LimitInv, OneScheduler
      <4> QED BY <3>1, <3>2, <4>1 DEF Calm, Scheduling
    <3> QED BY <3>1, <3>2 DEF Scheduling, Loaded, Room
  <2> QED BY <2>1, <2>2
<1> QED BY <1>1, <1>2, <1>3 DEF LimitInv

\* A step of no invocation.
LEMMA QuietLimits ==
    ASSUME LimitInv, UNCHANGED procs, Calm
    PROVE  LimitInv'
<1>1. LimitsRespected'
  BY CalmLimits DEF LimitInv
<1> QED BY <1>1 DEF LimitInv, OneScheduler, Scheduling, Loaded, Room, Calm

(* The steps every action is built from. *)

LEMMA WriteCalm ==
    ASSUME TypeInv, CopyInv, NEW p \in Procs, NEW new \in WorkerState, Fresh(p),
           state' = [state EXCEPT ![procs[p].w] = Saved(new)],
           ~Busy(new) \/ new.life = procs[p].st.life \/ Busy(procs[p].st)
    PROVE  Calm
<1>1. Busy(Saved(new)) <=> Busy(new)
  BY DEF Busy, Saved, WorkerState
<1>2. procs[p].st = state[procs[p].w]
  BY FreshCopy
<1>3. Busy(new) => Busy(state[procs[p].w])
  BY <1>2 DEF Busy
<1> QED BY <1>1, <1>3 DEF Calm, TypeInv

LEMMA StillCalm ==
    ASSUME UNCHANGED state
    PROVE  Calm
BY DEF Calm

\* An invocation that is not on its way to a launch.
LEMMA ElseLimits ==
    ASSUME NEW p \in Procs, procs'[p].pc \notin SchedPc \cup LaunchedPc \cup RelaunchPc,
           procs'[p].op \in {"none", procs[p].op}, Calm
    PROVE  LimitStep(p)
BY DEF LimitStep, Scheduling

LEMMA ReturnLimits ==
    ASSUME TypeInv, NEW p \in Procs, Return(p), Calm
    PROVE  LimitStep(p)
BY ReturnIs, ElseLimits DEF SchedPc, LaunchedPc, RelaunchPc

\* The scheduler goes on, with the next worker or with the same one.
LEMMA ScanOn ==
    ASSUME Calm, NEW p \in Procs, Scheduling(p),
           procs[p].pc \in SchedPc \ {"snapshot"}, procs'[p].pc \in SchedPc \ {"snapshot"},
           procs'[p].op = procs[p].op, procs'[p].snap = procs[p].snap,
           \/ procs'[p].pc = "consider"
           \/ /\ procs'[p].w = procs[p].w
              /\ \/ procs[p].pc # "consider"
                 \/ Room(p, SameRuntime(procs[p].w), RuntimeLimit[RuntimeOf[procs[p].w]])
    PROVE  LimitStep(p)
<1>1. procs'[p].op = "schedule" /\ procs'[p].pc \notin RelaunchPc
  BY DEF Scheduling, SchedPc, RelaunchPc
<1>2. ASSUME NEW w \in Workers, Busy(state'[w])
      PROVE  Busy(procs'[p].snap[w])
  BY <1>2 DEF Calm, Scheduling, Loaded
<1>3. ~Reached(ProjectLimit, Running(procs'[p].snap, Workers))
  BY DEF Scheduling, Room
<1>4. procs'[p].pc # "consider" =>
         ~Reached(RuntimeLimit[RuntimeOf[procs'[p].w]],
                  Running(procs'[p].snap, SameRuntime(procs'[p].w)))
  BY DEF Scheduling, Room
<1>5. Scheduling(p)'
  BY <1>1, <1>2, <1>3, <1>4 DEF Scheduling, Room
<1> QED BY <1>5 DEF LimitStep, Scheduling

\* The dispatched Start goes on after it has made the worker busy.
LEMMA LaunchOn ==
    ASSUME Calm, NEW p \in Procs, Scheduling(p), procs[p].pc \in LaunchedPc,
           procs'[p].pc \in LaunchedPc, procs'[p].op = procs[p].op
    PROVE  LimitStep(p)
BY DEF LimitStep, Scheduling, LaunchedPc, SchedPc, RelaunchPc

-----------------------------------------------------------------------------
(* The actions. *)

LEMMA IntakeLimits ==
    ASSUME TypeInv, CopyInv, NEW p \in Procs, IntakeStep(p)
    PROVE  LimitStep(p)
<1>1. Calm
  <2>1. CASE ActivateTask(p)
    <3> DEFINE new == [procs[p].st EXCEPT !.active = procs[p].t]
    <3>1. CASE UNCHANGED state
      BY <3>1, StillCalm
    <3>2. CASE SaveLast(p, new)
      <4>1. procs[p].t \in Tasks
        BY <2>1, ProcTyped DEF ActivateTask, Unbound
      <4>2. new \in WorkerState /\ new.life = procs[p].st.life
        BY <4>1, ProcTyped DEF WorkerState
      <4> HIDE DEF new
      <4> QED BY <3>2, <4>2, WriteCalm DEF SaveLast
    <3> QED BY <2>1, <3>1, <3>2 DEF ActivateTask
  <2> QED BY <2>1, StillCalm DEF IntakeStep, CreateTask, EnqueueTask, RollbackTask
<1> QED BY <1>1, IntakeMoves, ElseLimits DEF SchedPc, LaunchedPc, RelaunchPc

LEMMA ScheduleLimits ==
    ASSUME TypeInv, CopyInv, BelongInv, NEW p \in Procs, Scheduling(p), ScheduleStep(p)
    PROVE  LimitStep(p)
<1> USE DEF SchedPc
<1>0. procs[p].w \in Workers /\ procs[p].snap \in [Workers -> WorkerState]
  BY ProcTyped
<1>1. CASE SnapshotWorker(p)
  <2> DEFINE w == procs[p].w
             snap == [procs[p].snap EXCEPT ![w] = state[w]]
             next == [procs[p] EXCEPT !.snap = snap, !.w = w + 1]
             first == [procs[p] EXCEPT !.snap = snap, !.w = 1, !.pc = "consider"]
  <2>1. procs[p].pc = "snapshot" /\ UNCHANGED state /\ procs[p].op = "schedule"
    BY <1>1 DEF SnapshotWorker, Scheduling
  <2>2. Calm
    BY <2>1, StillCalm
  <2>3. ASSUME NEW v \in Workers, v < w \/ v = w, Busy(state'[v])
        PROVE  Busy(snap[v])
    BY <1>0, <2>1, <2>3 DEF Scheduling, Loaded
  <2>4. /\ next.pc = "snapshot" /\ next.w = w + 1 /\ next.snap = snap /\ next.op = "schedule"
        /\ first.pc = "consider" /\ first.snap = snap /\ first.op = "schedule"
    BY <2>1, ProcTyped DEF Process
  <2>5. \/ Becomes(p, next)
        \/ Return(p)
        \/ /\ Becomes(p, first) /\ ~(w < NumWorkers)
           /\ ~Reached(ProjectLimit, Running(snap, Workers))
    BY <1>1 DEF SnapshotWorker
  <2> HIDE DEF next, first, snap
  <2>6. CASE Becomes(p, next)
    <3>1. procs'[p] = next
      BY <2>6, BecomesIs
    <3>2. \A v \in Workers : v < w + 1 => v < w \/ v = w
      BY <1>0 DEF Workers
    <3>3. Scheduling(p)'
      BY <2>3, <2>4, <3>1, <3>2 DEF Scheduling, Loaded, RelaunchPc
    <3> QED BY <2>1, <2>2, <3>3 DEF LimitStep
  <2>7. CASE Return(p)
    BY <2>2, <2>7, ReturnLimits
  <2>8. CASE /\ Becomes(p, first) /\ ~(w < NumWorkers)
             /\ ~Reached(ProjectLimit, Running(snap, Workers))
    <3>1. procs'[p] = first
      BY <2>8, BecomesIs
    <3>2. \A v \in Workers : v < w \/ v = w
      BY <1>0, <2>8, WorkersAssumption DEF Workers
    <3>3. Scheduling(p)'
      BY <2>3, <2>4, <2>8, <3>1, <3>2 DEF Scheduling, Room, RelaunchPc
    <3> QED BY <2>1, <2>2, <3>3 DEF LimitStep
  <2> QED BY <2>5, <2>6, <2>7, <2>8
<1>2. ASSUME UNCHANGED state, procs[p].pc \in SchedPc \ {"snapshot"}, NextWorker(p)
      PROVE  LimitStep(p)
  <2>1. Calm
    BY <1>2, StillCalm
  <2> QED BY <1>2, <2>1, NextWorkerIs, ScanOn, ElseLimits DEF LaunchedPc, RelaunchPc
<1>3. ASSUME NEW pc \in SchedPc \ {"snapshot", "consider"}, Calm, Goto(p, pc),
             \/ procs[p].pc \in SchedPc \ {"snapshot", "consider"}
             \/ /\ procs[p].pc = "consider"
                /\ Room(p, SameRuntime(procs[p].w), RuntimeLimit[RuntimeOf[procs[p].w]])
      PROVE  LimitStep(p)
  BY <1>3, GotoIs, ScanOn
<1>4. CASE ConsiderWorker(p)
  <2>1. CASE Eligible(p) /\ Goto(p, "lease")
    <3>1. Room(p, SameRuntime(procs[p].w), RuntimeLimit[RuntimeOf[procs[p].w]])
      BY <2>1 DEF Eligible, Room
    <3> QED BY <1>3, <1>4, <2>1, <3>1, StillCalm DEF ConsiderWorker
  <2>2. CASE NextWorker(p)
    BY <1>2, <1>4, <2>2 DEF ConsiderWorker
  <2> QED BY <1>4, <2>1, <2>2 DEF ConsiderWorker
<1>5. CASE LeaseHead(p)
  <2> DEFINE new == [procs[p] EXCEPT !.t = queue[procs[p].w][1].task, !.pc = "inspect"]
  <2>1. procs[p].pc = "lease" /\ UNCHANGED state
    BY <1>5 DEF LeaseHead
  <2>2. CASE Becomes(p, new)
    <3>1. /\ new.pc = "inspect" /\ new.w = procs[p].w /\ new.snap = procs[p].snap
          /\ new.op = procs[p].op
      BY ProcTyped DEF Process
    <3>2. procs'[p] = new
      BY <2>2, BecomesIs
    <3> HIDE DEF new
    <3> QED BY <2>1, <3>1, <3>2, StillCalm, ScanOn
  <2>3. CASE Return(p) \/ NextWorker(p)
    BY <1>2, <2>1, <2>3, StillCalm, ReturnLimits
  <2> QED BY <1>5, <2>2, <2>3 DEF LeaseHead
<1>6. CASE InspectTask(p)
  <2>1. PICK pc \in {"giveback", "reserve", "skip"} : Goto(p, pc)
    BY <1>6 DEF InspectTask
  <2>2. procs[p].pc = "inspect" /\ Calm
    BY <1>6, StillCalm DEF InspectTask
  <2> QED BY <1>3, <2>1, <2>2
<1>7. CASE GiveLeaseBack(p)
  BY <1>2, <1>7, StillCalm, ReturnLimits DEF GiveLeaseBack
<1>8. CASE ReserveWorker(p)
  <2> DEFINE w == procs[p].w
             new == [procs[p].snap[w] EXCEPT !.active = procs[p].t]
  <2>1. procs[p].pc = "reserve" /\ (Goto(p, "mark") \/ Goto(p, "giveback"))
    BY <1>8 DEF ReserveWorker
  <2>2. Calm
    <3>1. CASE UNCHANGED state
      BY <3>1, StillCalm
    <3>2. CASE procs[p].snap[w].rev = state[w].rev /\ state' = [state EXCEPT ![w] = Saved(new)]
      <4>1. procs[p].snap[w] = state[w]
        BY <1>0, <3>2 DEF CopyInv, CopyOK, IsCopy
      <4>2. procs[p].t \in Tasks
        BY <2>1, OwnTask DEF Loose, MakingPc
      <4>3. new \in WorkerState /\ new.life = state[w].life
        BY <1>0, <4>1, <4>2 DEF WorkerState
      <4> HIDE DEF new
      <4>4. Busy(Saved(new)) <=> Busy(state[w])
        BY <4>3 DEF Busy, Saved, WorkerState
      <4> QED BY <1>0, <3>2, <4>4 DEF Calm, TypeInv
    <3> QED BY <1>8, <3>1, <3>2 DEF ReserveWorker
  <2> QED BY <1>3, <2>1, <2>2
<1>9. CASE MarkAssigned(p)
  BY <1>3, <1>9, StillCalm, ReturnLimits DEF MarkAssigned
<1>10. CASE CommitLease(p)
  BY <1>3, <1>10, StillCalm, ReturnLimits DEF CommitLease
<1> QED BY <1>1, <1>4, <1>5, <1>6, <1>7, <1>8, <1>9, <1>10 DEF ScheduleStep

LEMMA StartLimits ==
    ASSUME TypeInv, CopyInv, BelongInv, NEW p \in Procs, Scheduling(p), StartStep(p)
    PROVE  LimitStep(p)
<1> USE DEF SchedPc, LaunchedPc
<1>0. procs[p].w \in Workers /\ procs[p].st \in WorkerState /\ LifeAt(procs[p].pc, procs[p].st)
  BY ProcTyped, LifeKnown
<1>1. CASE StartLoadState(p)
  <2> DEFINE st == state[procs[p].w]
             new == [procs[p] EXCEPT !.st = st, !.t = st.active, !.pc = "restore"]
  <2>1. /\ new.pc = "restore" /\ new.w = procs[p].w /\ new.snap = procs[p].snap
        /\ new.op = procs[p].op
    BY ProcTyped DEF Process
  <2> HIDE DEF new
  <2>2. Becomes(p, new) \/ Return(p)
    BY <1>1 DEF StartLoadState, new
  <2>3. procs[p].pc = "start" /\ Calm
    BY <1>1, StillCalm DEF StartLoadState
  <2> QED BY <2>1, <2>2, <2>3, BecomesIs, ReturnLimits, ScanOn
<1>2. CASE StartLoadTask(p) \/ ClaimWorktree(p)
  <2>1. /\ procs[p].pc \in {"restore", "claim"} /\ Calm
        /\ (\E pc \in {"claim", "locate"} : Goto(p, pc)) \/ Return(p)
    BY <1>2, StillCalm DEF StartLoadTask, ClaimWorktree
  <2> QED BY <2>1, GotoIs, ReturnLimits, ScanOn
<1>3. CASE SaveLocation(p)
  <2>1. procs[p].pc = "locate" /\ Save(p, procs[p].st, "depart")
    BY <1>3 DEF SaveLocation
  <2>2. Calm
    BY <1>0, <2>1, WriteCalm DEF Save
  <2> QED BY <2>1, <2>2, SaveIs, ScanOn
<1>4. CASE StartFails(p) \/ StartConflict(p)
  BY <1>4, StillCalm, ReturnLimits DEF StartFails, StartConflict
<1>5. CASE Depart(p)
  <2> DEFINE new == Became(procs[p].st, "starting")
  <2>1. procs[p].pc = "depart" /\ Save(p, new, "launch") /\ procs[p].op = "schedule"
    BY <1>5 DEF Depart, Scheduling
  <2>2. procs'[p].pc = "launch" /\ procs'[p].op = "schedule"
    BY <2>1, SaveIs
  <2>3. \A w \in Workers : w # procs[p].w => state'[w] = state[w]
    BY <2>1 DEF Save, TypeInv
  <2> QED BY <2>1, <2>2, <2>3 DEF LimitStep, Scheduling, RelaunchPc
<1>6. CASE Launch(p)
  <2>1. PICK out \in Outcome \ {"none"} : Becomes(p, [procs[p] EXCEPT !.out = out, !.pc = "record"])
    BY <1>6 DEF Launch
  <2> DEFINE new == [procs[p] EXCEPT !.out = out, !.pc = "record"]
  <2>2. new.pc = "record" /\ new.op = procs[p].op
    BY ProcTyped DEF Process
  <2>3. procs'[p] = new
    BY <2>1, BecomesIs
  <2> HIDE DEF new
  <2> QED BY <1>6, <2>2, <2>3, StillCalm, LaunchOn DEF Launch
<1>7. CASE RecordAttempt(p) \/ TransferClaim(p)
  BY <1>7, GotoIs, StillCalm, LaunchOn DEF RecordAttempt, TransferClaim
<1>8. CASE SettleFailed(p) \/ Ascend(p) \/ CheckCompletion(p)
  <2>1. UNCHANGED state \/ Fresh(p)
    BY <1>8 DEF SettleFailed, Ascend, CheckCompletion, Save, SaveLast
  <2>2. procs[p].pc \in {"settle", "ascend", "check"} /\ Busy(procs[p].st)
    BY <1>0, <1>8 DEF SettleFailed, Ascend, CheckCompletion, LifeAt, LaunchPc, Busy
  <2>3. Calm
    <3>1. CASE UNCHANGED state
      BY <3>1, StillCalm
    <3>2. CASE Fresh(p)
      <4>1. Busy(state[procs[p].w])
        BY <2>2, <3>2, FreshCopy
      <4>2. \A w \in Workers : w # procs[p].w => state'[w] = state[w]
        BY <1>8 DEF SettleFailed, Ascend, CheckCompletion, Save, SaveLast, TypeInv
      <4> QED BY <4>1, <4>2 DEF Calm
    <3> QED BY <2>1, <3>1, <3>2
  <2>4. \/ \E new : Save(p, new, "check")
        \/ Return(p)
    BY <1>8 DEF SettleFailed, Ascend, CheckCompletion, SaveLast
  <2> QED BY <2>2, <2>3, <2>4, SaveIs, LaunchOn, ReturnLimits
<1> QED BY <1>1, <1>2, <1>3, <1>4, <1>5, <1>6, <1>7, <1>8 DEF StartStep

LEMMA ControlLimits ==
    ASSUME TypeInv, CopyInv, NEW p \in Procs, Scheduling(p), ControlStep(p)
    PROVE  LimitStep(p)
<1>0. procs[p].w \in Workers /\ procs[p].st \in WorkerState /\ procs[p].pc \notin RelaunchPc
  BY ProcTyped DEF Scheduling
<1>1. Calm
  <2>1. CASE PauseWorker(p)
    <3> DEFINE new == Became(procs[p].st, "paused")
    <3>1. new \in WorkerState /\ ~Busy(new)
      BY <1>0 DEF Became, WorkerState, Lifecycle, Busy
    <3> HIDE DEF new
    <3>2. Fresh(p) /\ state' = [state EXCEPT ![procs[p].w] = Saved(new)]
      BY <2>1 DEF PauseWorker, Save, SaveLast, new
    <3> QED BY <3>1, <3>2, WriteCalm
  <2>2. CASE VacateWorker(p)
    <3> DEFINE new == [Vacant(procs[p].st) EXCEPT !.life = IF @ = "paused" THEN "idle" ELSE @]
    <3>1. new \in WorkerState /\ (~Busy(new) \/ new.life = procs[p].st.life)
      BY <1>0 DEF Vacant, WorkerState, Lifecycle, Busy
    <3> HIDE DEF new
    <3>2. Fresh(p) /\ state' = [state EXCEPT ![procs[p].w] = Saved(new)]
      BY <2>2 DEF VacateWorker, SaveLast, new
    <3> QED BY <3>1, <3>2, WriteCalm
  <2>3. CASE UNCHANGED state
    BY <2>3, StillCalm
  <2> QED BY <1>0, <2>1, <2>2, <2>3
          DEF ControlStep, StopRun, SuspendTask, WakeWorker, ReassignTask, FindWorker, AdoptTask,
              ReadoptTask, LookAtWorker, ReloadWorker, CancelQueued, VoidTask, ControlConflict,
              RelaunchPc
<1> QED BY <1>0, <1>1, ControlMoves, ElseLimits DEF SchedPc, LaunchedPc, RelaunchPc

LEMMA ReviewLimits ==
    ASSUME TypeInv, CopyInv, NEW p \in Procs, ReviewStep(p)
    PROVE  LimitStep(p)
<1>0. procs[p].w \in Workers /\ procs[p].st \in WorkerState
  BY ProcTyped
<1>1. Calm
  <2>1. CASE AwaitReview(p)
    <3> DEFINE new == Became(procs[p].st, "awaiting_review")
    <3>1. new \in WorkerState /\ ~Busy(new)
      BY <1>0 DEF Became, WorkerState, Lifecycle, Busy
    <3> HIDE DEF new
    <3>2. Fresh(p) /\ state' = [state EXCEPT ![procs[p].w] = Saved(new)]
      BY <2>1 DEF AwaitReview, SaveLast, new
    <3> QED BY <3>1, <3>2, WriteCalm
  <2>2. CASE CloseReview(p)
    <3> DEFINE new == Became(Vacant(procs[p].st), "idle")
    <3>1. new \in WorkerState /\ ~Busy(new)
      BY <1>0 DEF Became, Vacant, WorkerState, Lifecycle, Busy
    <3> HIDE DEF new
    <3>2. Fresh(p) /\ state' = [state EXCEPT ![procs[p].w] = Saved(new)]
      BY <2>2 DEF CloseReview, SaveLast, new
    <3> QED BY <3>1, <3>2, WriteCalm
  <2> QED BY <2>1, <2>2, StillCalm
          DEF ReviewStep, SubmitLoadState, AppendHandoff, VerdictLoadState, DecideHandoff,
              RequeueTask, ReviewConflict
<1> QED BY <1>1, ReviewMoves, ElseLimits DEF SchedPc, LaunchedPc, RelaunchPc

\* Where launches are the scheduler's alone.
LEMMA InvokeLimits ==
    ASSUME Commands \cap {"start", "resume", "retry"} = {}, TypeInv, NEW p \in Procs, Invoke(p)
    PROVE  LimitStep(p)
<1>1. Calm
  BY StillCalm DEF Invoke, BeginIntake, BeginStart, BeginSchedule, BeginPause, BeginResume,
                   BeginRetry, BeginCancel, BeginSubmit, BeginVerdict
<1>2. CASE BeginSchedule(p)
  <2>1. procs'[p].pc = "snapshot" /\ procs'[p].w = 1 /\ procs'[p].op = "schedule" /\ ~ProjectLocked
    BY <1>2, BeginIs DEF BeginSchedule
  <2>2. \A w \in Workers : ~(w < 1)
    BY DEF Workers
  <2>3. Scheduling(p)'
    BY <2>1, <2>2 DEF Scheduling, Loaded, SchedPc, LaunchedPc, RelaunchPc
  <2> QED BY <1>1, <2>1, <2>3 DEF LimitStep
<1>3. CASE ~BeginSchedule(p)
  <2>1. procs'[p].pc \in {"create", "stop", "look", "join", "judge"} /\ procs'[p].op # "schedule"
    BY <1>3, InvokeMoves
  <2>2. Scheduling(p)'
    BY <2>1 DEF Scheduling, SchedPc, LaunchedPc, RelaunchPc
  <2> QED BY <1>1, <2>1, <2>2 DEF LimitStep
<1> QED BY <1>2, <1>3

LEMMA InitLimits == Init => LimitInv
<1> SUFFICES ASSUME Init PROVE LimitInv
  OBVIOUS
<1>1. \A p \in Procs : procs[p].pc = "ready" /\ procs[p].op = "none"
  BY RecordsTyped DEF Init, Ready
<1>2. \A w \in Workers : ~Busy(state[w])
  BY DEF Init, NewState, Busy
<1>3. ASSUME NEW ws \in SUBSET Workers PROVE Running(state, ws) = 0
  <2>1. {w \in ws : Busy(state[w])} = {}
    BY <1>2
  <2> QED BY <2>1, FS_EmptySet DEF Running
<1>4. LimitsRespected
  BY <1>3, RuntimesApart, LimitsAssumption DEF LimitsRespected
<1> QED BY <1>1, <1>4 DEF LimitInv, OneScheduler, Scheduling, SchedPc, LaunchedPc, RelaunchPc

LEMMA QuietCalm ==
    ASSUME TypeInv
    PROVE  /\ \A w \in Workers : Operate(w) \/ ExpireLease(w) => Calm
           /\ \A r \in live : RunCompletes(r) => Calm
<1>1. ASSUME NEW w \in Workers, NEW new \in WorkerState, ~Busy(new),
             state' = [state EXCEPT ![w] = Saved(new)]
      PROVE  Calm
  <2>1. ~Busy(Saved(new))
    BY <1>1 DEF Busy, Saved, WorkerState
  <2> QED BY <1>1, <2>1 DEF Calm, TypeInv
<1>2. ASSUME NEW w \in Workers, ResetWorker(w) PROVE Calm
  <2> DEFINE new == Became(Vacant(state[w]), "idle")
  <2>1. new \in WorkerState /\ ~Busy(new)
    BY DEF Became, Vacant, WorkerState, Lifecycle, Busy, TypeInv
  <2> HIDE DEF new
  <2>2. state' = [state EXCEPT ![w] = Saved(new)]
    BY <1>2 DEF ResetWorker, new
  <2> QED BY <1>1, <2>1, <2>2
<1>3. ASSUME NEW r \in live, RunCompletes(r) PROVE Calm
  <2> DEFINE w == task[r[1]].owner
             new == Became(state[w], "blocked")
  <2>1. w \in Workers
    BY DEF TypeInv, Run, Task
  <2>2. new \in WorkerState /\ ~Busy(new)
    BY <2>1 DEF Became, WorkerState, Lifecycle, Busy, TypeInv
  <2>3. UNCHANGED state \/ state' = [state EXCEPT ![w] = Saved(new)]
    BY <1>3 DEF RunCompletes
  <2> HIDE DEF new, w
  <2> QED BY <1>1, <2>1, <2>2, <2>3, StillCalm
<1> QED BY <1>2, <1>3, StillCalm DEF Operate, ReorderQueue, RemoveFromQueue, ExpireLease

LEMMA NextLimits ==
    ASSUME Commands \cap {"start", "resume", "retry"} = {}
    PROVE  TypeInv /\ CopyInv /\ BelongInv /\ LimitInv /\ [Next]_vars => LimitInv'
<1> SUFFICES ASSUME TypeInv, CopyInv, BelongInv, LimitInv, [Next]_vars PROVE LimitInv'
  OBVIOUS
<1>1. CASE \E p \in Procs : Invoke(p) \/ Step(p)
  <2>1. PICK p \in Procs : Invoke(p) \/ Step(p)
    BY <1>1
  <2>2. Scheduling(p)
    BY DEF LimitInv
  <2>3. LimitStep(p)
    BY <2>1, <2>2, InvokeLimits, IntakeLimits, ScheduleLimits, StartLimits, ControlLimits,
       ReviewLimits DEF Step
  <2>4. BelongStep(p)
    BY <2>1, InvokeBelongs, IntakeBelongs, ScheduleBelongs, StartBelongs, ControlBelongs,
       ReviewBelongs DEF Step
  <2> QED BY <2>3, <2>4, StepLimits DEF BelongStep
<1>2. CASE \E w \in Workers : Operate(w) \/ ExpireLease(w)
  BY <1>2, QuietSteps, QuietCalm, QuietLimits
<1>3. CASE \E r \in live : RunCompletes(r)
  BY <1>3, QuietCalm, QuietLimits DEF RunCompletes
<1>4. CASE \E p \in Procs : Crash(p)
  <2>1. PICK p \in Procs : Crash(p)
    BY <1>4
  <2>2. \A q \in Procs \ {p} : procs'[q] = procs[q]
    BY <2>1 DEF Crash, Return, Becomes, TypeInv
  <2> QED BY <2>1, <2>2, StillCalm, ReturnLimits, StepLimits DEF Crash
<1>5. CASE UNCHANGED vars
  BY <1>5, StillCalm, QuietLimits DEF vars
<1> QED BY <1>1, <1>2, <1>3, <1>4, <1>5 DEF Next

\* dispatch.go: no more workers are starting and executing at a time than
\* scheduler_project_concurrency and scheduler_runtime_concurrency say, although
\* the scheduler counts on copies it loaded one after the other and the worker
\* becomes busy many steps later, and although schedulers and their Starts die.
\* start, resume and retry ask for no limit, hence the hypothesis.
THEOREM LimitsHold ==
    ASSUME Commands \cap {"start", "resume", "retry"} = {}
    PROVE  Spec => []LimitsRespected
<1>1. LimitInv => LimitsRespected
  BY DEF LimitInv
<1>2. TypeInv /\ CopyInv /\ BelongInv /\ LimitInv /\ [Next]_vars => LimitInv'
  BY NextLimits
<1> QED BY <1>1, <1>2, InitTyped, NextTyped, InitCopy, NextCopy, InitBelongs, NextBelongs,
           InitLimits, PTL DEF Spec

-----------------------------------------------------------------------------
(* What a dispatch rests on.  Between the lease of a task and the write that *)
(* assigns it, its entry stays in the queue under a lease, and the worker    *)
(* stays reserved for it unless the task has been taken from the dispatch.   *)

RunOncePc == {"snapshot", "consider", "lease", "inspect", "reserve", "skip", "giveback", "mark",
              "commit"}
DispatchPc == {"inspect", "reserve", "mark", "commit"}
VerdictPc == {"judge", "decide"}

\* Where an invocation knows that its task is not pending.
TakenPc == {"activate", "wake", "find", "reassign", "adopt", "readopt"}

\* Where it is about to write a copy, or goes on to a step that is.
YieldPc == {"activate", "claim", "locate", "depart", "reassign", "adopt", "readopt", "vacate"}

Leased(q, t) == \E i \in DOMAIN q : q[i].task = t /\ q[i].lease # NoLease

\* The active task of w is one that nobody has assigned yet.
Reserved(w) == \E t \in Tasks : state[w].active = t /\ task[t].status = "pending"

\* A copy is only written where the worker was not reserved when it was loaded.
Dispatching(p) ==
    /\ procs[p].pc \in VerdictPc => procs[p].op = "accept"
    /\ procs[p].pc \in RunOncePc => procs[p].op = "schedule"
    /\ procs[p].pc \in TakenPc => task[procs[p].t].status # "pending"
    /\ procs[p].pc = "restore" => procs[p].st.active = procs[p].t
    /\ procs[p].pc \in YieldPc /\ Fresh(p) => ~Reserved(procs[p].w)
    /\ procs[p].pc \in DispatchPc => Leased(queue[procs[p].w], procs[p].t)
    /\ procs[p].pc = "mark" /\ task[procs[p].t].status = "pending" =>
          state[procs[p].w].active = procs[p].t

DispatchInv ==
    /\ OneScheduler
    /\ \A w \in Workers : Reserved(w) => state[w].life = "idle"
    /\ \A p \in Procs : Dispatching(p)

\* What a step of p may do to the worker states, the tasks and the queues.
LeavesReserved(p) ==
    \A w \in Workers :
        \/ state'[w] = state[w]
        \/ ~Reserved(w) /\ ~Reserved(w)'
        \/ procs[p].pc = "reserve" /\ (Reserved(w)' => state'[w].life = "idle")

LeavesPending(p) ==
    \A t \in Tasks :
        /\ task'[t].status = "pending" => task[t].status = "pending" \/ ~Exists(t)
        /\ task[t].status = "pending" /\ task'[t].status = "assigned" =>
              procs[p].pc = "mark" /\ procs[p].t = t

LeavesLeased(p) ==
    \A w \in Workers, t \in Tasks :
        Leased(queue[w], t) => Leased(queue'[w], t) \/ procs[p].pc \in RunOncePc

DispatchStep(p) ==
    /\ LeavesReserved(p)
    /\ LeavesPending(p)
    /\ LeavesLeased(p)
    /\ procs'[p].op = "schedule" => procs[p].op = "schedule" \/ ~ProjectLocked
    /\ Dispatching(p)'

LEMMA OthersDispatch ==
    ASSUME TypeInv, CopyInv, BelongInv, DispatchInv, NEW p \in Procs, DispatchStep(p),
           \A w \in Workers : Advances(w),
           NEW q \in Procs, q # p, procs'[q] = procs[q]
    PROVE  Dispatching(q)'
<1> DEFINE w == procs[q].w
           t == procs[q].t
<1>0. /\ w \in Workers /\ t \in Tasks \cup {NoTask} /\ Dispatching(q)
      /\ procs[q].pc \in Unbound \/ t \in Tasks
  BY ProcTyped DEF DispatchInv
<1>1. ASSUME NEW u \in Tasks, Exists(u), task'[u].status = "pending"
      PROVE  task[u].status = "pending"
  BY <1>1 DEF DispatchStep, LeavesPending
<1>2. procs[q].pc \in TakenPc => task'[t].status # "pending"
  <2> SUFFICES ASSUME procs[q].pc \in TakenPc, task'[t].status = "pending" PROVE FALSE
    OBVIOUS
  <2>1. t \in Tasks
    BY <1>0 DEF TakenPc, Unbound
  <2>2. Exists(t)
    <3>1. CASE procs[q].pc = "activate"
      BY <3>1, UnusedExists DEF BelongInv, MakersApart, MakingPc, Unused, Exists
    <3>2. CASE procs[q].pc # "activate"
      BY <3>2, OwnTask DEF TakenPc, Loose, MakingPc
    <3> QED BY <3>1, <3>2
  <2> QED BY <1>0, <1>1, <2>1, <2>2 DEF Dispatching
<1>3. ASSUME procs[q].pc \in YieldPc, procs[q].st.rev = state'[w].rev
      PROVE  ~Reserved(w)'
  <2>1. state'[w] = state[w]
    BY <1>0, <1>3, ProcTyped DEF Advances, CopyInv, CopyOK, IsCopy, TypeInv, WorkerState
  <2>2. ~Reserved(w)
    BY <1>0, <1>3, <2>1 DEF Dispatching, Fresh
  <2>3. \A u \in Tasks : state[w].active = u => Exists(u)
    BY <1>0 DEF BelongInv, ActiveSettled, Settled
  <2> QED BY <1>1, <2>1, <2>2, <2>3 DEF Reserved
<1>4. ASSUME procs[q].pc \in RunOncePc
      PROVE  procs[p].pc \notin RunOncePc
  <2> SUFFICES ASSUME procs[p].pc \in RunOncePc PROVE FALSE
    OBVIOUS
  <2>1. procs[q].op = "schedule" /\ procs[p].op = "schedule"
    BY <1>4 DEF DispatchInv, Dispatching
  <2> QED BY <2>1 DEF DispatchInv, OneScheduler
<1>5. ASSUME procs[q].pc \in DispatchPc
      PROVE  Leased(queue'[w], t)
  <2>1. procs[q].pc \in RunOncePc /\ t \in Tasks
    BY <1>0, <1>5 DEF DispatchPc, RunOncePc, Unbound
  <2> QED BY <1>0, <1>4, <1>5, <2>1 DEF Dispatching, DispatchStep, LeavesLeased
<1>6. ASSUME procs[q].pc = "mark", task'[t].status = "pending"
      PROVE  state'[w].active = t
  <2>1. t \in Tasks /\ Exists(t)
    BY <1>6, OwnTask DEF Loose, MakingPc
  <2>2. task[t].status = "pending" /\ state[w].active = t
    BY <1>0, <1>1, <1>6, <2>1 DEF Dispatching
  <2>3. Reserved(w)
    BY <2>1, <2>2 DEF Reserved
  <2>4. procs[p].pc # "reserve"
    BY <1>4, <1>6 DEF RunOncePc
  <2> QED BY <1>0, <2>2, <2>3, <2>4 DEF DispatchStep, LeavesReserved
<1> HIDE DEF w, t
<1>7. /\ procs[q].pc \in VerdictPc => procs[q].op = "accept"
      /\ procs[q].pc \in RunOncePc => procs[q].op = "schedule"
      /\ procs[q].pc = "restore" => procs[q].st.active = procs[q].t
  BY <1>0 DEF Dispatching
<1> QED BY <1>2, <1>3, <1>5, <1>6, <1>7 DEF Dispatching, Fresh, w, t

LEMMA StepDispatches ==
    ASSUME TypeInv, CopyInv, BelongInv, DispatchInv, NEW p \in Procs, DispatchStep(p),
           \A w \in Workers : Advances(w),
           \A q \in Procs \ {p} : procs'[q] = procs[q]
    PROVE  DispatchInv'
<1>1. OneScheduler'
  <2> SUFFICES ASSUME NEW q \in Procs, NEW r \in Procs, q # r,
                      procs'[q].op = "schedule", procs'[r].op = "schedule"
               PROVE  FALSE
    BY DEF OneScheduler
  <2>1. CASE q # p /\ r # p
    BY <2>1 DEF DispatchInv, OneScheduler
  <2>2. CASE q = p \/ r = p
    BY <2>2 DEF DispatchInv, OneScheduler, DispatchStep, ProjectLocked
  <2> QED BY <2>1, <2>2
<1>2. ASSUME NEW w \in Workers, Reserved(w)'
      PROVE  state'[w].life = "idle"
  <2>1. CASE state'[w] = state[w]
    <3>1. PICK t \in Tasks : state[w].active = t /\ task'[t].status = "pending"
      BY <1>2, <2>1 DEF Reserved
    <3>2. Exists(t)
      BY <3>1 DEF BelongInv, ActiveSettled, Settled
    <3>3. Reserved(w)
      BY <3>1, <3>2 DEF Reserved, DispatchStep, LeavesPending
    <3> QED BY <2>1, <3>3 DEF DispatchInv
  <2>2. CASE state'[w] # state[w]
    BY <1>2, <2>2 DEF DispatchStep, LeavesReserved
  <2> QED BY <2>1, <2>2
<1>3. ASSUME NEW q \in Procs PROVE Dispatching(q)'
  BY OthersDispatch DEF DispatchStep
<1> QED BY <1>1, <1>2, <1>3 DEF DispatchInv

\* A step of no invocation.
LEMMA QuietDispatches ==
    ASSUME TypeInv, CopyInv, BelongInv, DispatchInv, UNCHANGED <<procs, task>>,
           \A w \in Workers : Advances(w),
           \A w \in Workers : state'[w] = state[w] \/ (~Reserved(w) /\ ~Reserved(w)'),
           \A w \in Workers, t \in Tasks : Leased(queue[w], t) => Leased(queue'[w], t)
    PROVE  DispatchInv'
<1>1. OneScheduler'
  BY DEF DispatchInv, OneScheduler
<1>2. ASSUME NEW w \in Workers, Reserved(w)'
      PROVE  state'[w].life = "idle"
  BY <1>2 DEF DispatchInv, Reserved
<1>3. ASSUME NEW q \in Procs PROVE Dispatching(q)'
  <2>0. /\ procs[q].w \in Workers /\ Dispatching(q)
        /\ procs[q].pc \in Unbound \/ procs[q].t \in Tasks
    BY ProcTyped DEF DispatchInv
  <2>1. ASSUME procs[q].pc \in YieldPc, Fresh(q)' PROVE ~Reserved(procs[q].w)'
    <3>1. state'[procs[q].w] = state[procs[q].w]
      BY <2>0, <2>1, ProcTyped DEF Fresh, Advances, CopyInv, CopyOK, IsCopy, TypeInv, WorkerState
    <3> QED BY <2>0, <2>1, <3>1 DEF Dispatching, Fresh, Reserved
  <2>2. ASSUME procs[q].pc \in DispatchPc PROVE Leased(queue'[procs[q].w], procs[q].t)
    BY <2>0, <2>2 DEF Dispatching, DispatchPc, Unbound
  <2>3. ASSUME procs[q].pc = "mark", task[procs[q].t].status = "pending"
        PROVE  state'[procs[q].w].active = procs[q].t
    <3>1. Reserved(procs[q].w) /\ state[procs[q].w].active = procs[q].t
      BY <2>0, <2>3 DEF Dispatching, Reserved, Unbound
    <3> QED BY <2>0, <3>1
  <2> QED BY <2>0, <2>1, <2>2, <2>3 DEF Dispatching
<1> QED BY <1>1, <1>2, <1>3 DEF DispatchInv

(* The queue's operations. *)

LEMMA EnqueueLeaves ==
    ASSUME NEW q \in Seq(Entry), NEW t, NEW u, Leased(q, u)
    PROVE  Leased(Enqueue(q, t), u)
<1> DEFINE e == [task |-> t, lease |-> NoLease]
           r == Append(q, e)
<1>1. DOMAIN q = 1 .. Len(q) /\ Len(q) \in Nat
  BY LenProperties
<1> HIDE DEF e
<1>2. DOMAIN r = 1 .. Len(q) + 1 /\ \A k \in 1 .. Len(q) : r[k] = q[k]
  BY <1>1
<1> QED BY <1>1, <1>2 DEF Leased, Enqueue, e

LEMMA RemoveLeaves ==
    ASSUME NEW q \in Seq(Entry), NEW i \in DOMAIN q, CanRemove(q, i), NEW t, Leased(q, t)
    PROVE  Leased(RemoveAt(q, i), t)
<1> DEFINE r == RemoveAt(q, i)
<1>1. DOMAIN q = 1 .. Len(q) /\ Len(q) \in Nat
  BY LenProperties
<1>2. /\ r \in Seq(Entry)
      /\ Len(r) = Len(q) - 1
      /\ \A k \in 1 .. Len(q) - 1 : r[k] = IF k < i THEN q[k] ELSE q[k + 1]
  BY <1>1, RemoveAtElements
<1> HIDE DEF r
<1>3. DOMAIN r = 1 .. Len(q) - 1
  BY <1>2, LenProperties
<1>4. PICK k \in DOMAIN q : q[k].task = t /\ q[k].lease # NoLease
  BY DEF Leased
<1>5. k # i
  BY <1>4 DEF CanRemove
<1>6. CASE k < i
  <2>1. k \in 1 .. Len(q) - 1 /\ r[k] = q[k]
    BY <1>1, <1>2, <1>6
  <2> QED BY <1>3, <1>4, <2>1 DEF Leased, r
<1>7. CASE k > i
  <2>1. k - 1 \in 1 .. Len(q) - 1 /\ r[k - 1] = q[k]
    BY <1>1, <1>2, <1>7
  <2> QED BY <1>3, <1>4, <2>1 DEF Leased, r
<1> QED BY <1>1, <1>5, <1>6, <1>7

LEMMA ReorderLeaves ==
    ASSUME NEW q \in Seq(Entry), NEW i \in DOMAIN q, NEW j \in DOMAIN q, CanReorder(q, i),
           NEW t, Leased(q, t)
    PROVE  Leased(Reorder(q, i, j), t)
<1> DEFINE a == RemoveAt(q, i)
           e == q[i]
           r == InsertAt(a, j, e)
<1>1. DOMAIN q = 1 .. Len(q) /\ Len(q) \in Nat /\ e \in Entry
  BY LenProperties, ElementOfSeq
<1>2. Leased(a, t)
  BY RemoveLeaves DEF CanRemove, CanReorder
<1>3. a \in Seq(Entry) /\ Len(a) = Len(q) - 1 /\ DOMAIN a = 1 .. Len(q) - 1
  BY <1>1, RemoveAtElements, LenProperties
<1> HIDE DEF a, e
<1>4. j \in 1 .. Len(a) + 1
  BY <1>1, <1>3
<1>5. /\ r \in Seq(Entry)
      /\ Len(r) = Len(a) + 1
      /\ \A k \in 1 .. j - 1 : r[k] = a[k]
      /\ \A k \in j + 1 .. Len(a) + 1 : r[k] = a[k - 1]
  BY <1>1, <1>3, <1>4, InsertAtElements
<1> HIDE DEF r
<1>6. DOMAIN r = 1 .. Len(a) + 1 /\ Len(a) \in Nat
  BY <1>3, <1>5, LenProperties
<1>7. PICK k \in DOMAIN a : a[k].task = t /\ a[k].lease # NoLease
  BY <1>2 DEF Leased
<1>8. k \in 1 .. Len(a)
  BY <1>3, <1>7, LenProperties
<1>9. CASE k < j
  <2>1. k \in DOMAIN r /\ r[k] = a[k]
    BY <1>4, <1>5, <1>6, <1>8, <1>9
  <2> QED BY <1>7, <2>1 DEF Leased, Reorder, r, a, e
<1>10. CASE k >= j
  <2>1. k + 1 \in DOMAIN r /\ k + 1 \in j + 1 .. Len(a) + 1
    BY <1>4, <1>6, <1>8, <1>10
  <2>2. r[k + 1] = a[k]
    <3>1. r[k + 1] = a[k + 1 - 1]
      BY <1>5, <2>1
    <3> QED BY <1>8, <3>1, <1>6
  <2> QED BY <1>7, <2>1, <2>2 DEF Leased, Reorder, r, a, e
<1> QED BY <1>4, <1>8, <1>9, <1>10, <1>6

LEMMA AcquireLeaves ==
    ASSUME NEW q \in Seq(Entry), q # <<>>, NEW p \in Procs
    PROVE  /\ Leased(Acquire(q, p), q[1].task)
           /\ \A t : Leased(q, t) => Leased(Acquire(q, p), t)
<1> DEFINE l == [owner |-> p, expired |-> FALSE]
           e == [q[1] EXCEPT !.lease = l]
           r == [q EXCEPT ![1] = e]
<1>1. DOMAIN q = 1 .. Len(q) /\ 1 \in DOMAIN q /\ q[1] \in Entry
  BY LenProperties, EmptySeq, ElementOfSeq
<1>2. l # NoLease
  <2>1. l \in Lease
    BY DEF Lease
  <2> QED BY <2>1, LeaseAssumption
<1> HIDE DEF l
<1>3. e.task = q[1].task /\ e.lease = l
  BY <1>1 DEF Entry
<1> HIDE DEF e
<1>4. DOMAIN r = DOMAIN q /\ r[1] = e /\ \A k \in DOMAIN q \ {1} : r[k] = q[k]
  BY <1>1
<1>5. r = Acquire(q, p)
  BY DEF Acquire, e, l
<1> HIDE DEF r
<1>6. Leased(r, q[1].task)
  BY <1>1, <1>2, <1>3, <1>4 DEF Leased
<1>7. \A t : Leased(q, t) => Leased(r, t)
  BY <1>1, <1>2, <1>3, <1>4 DEF Leased
<1> QED BY <1>5, <1>6, <1>7

LEMMA ExpireLeaves ==
    ASSUME NEW q \in Seq(Entry), q # <<>>, q[1].lease # NoLease, NEW t, Leased(q, t)
    PROVE  Leased(Expire(q, 1), t)
<1> DEFINE l == [q[1].lease EXCEPT !.expired = TRUE]
           e == [q[1] EXCEPT !.lease = l]
           r == [q EXCEPT ![1] = e]
<1>1. 1 \in DOMAIN q /\ q[1] \in Entry
  BY LenProperties, EmptySeq, ElementOfSeq
<1>2. l \in Lease
  BY <1>1 DEF Entry, Lease
<1>3. r = Expire(q, 1)
  BY DEF Expire
<1> HIDE DEF l
<1>4. e.task = q[1].task /\ e.lease # NoLease
  BY <1>1, <1>2, LeaseAssumption DEF Entry
<1> HIDE DEF e
<1>5. DOMAIN r = DOMAIN q /\ r[1] = e /\ \A k \in DOMAIN q \ {1} : r[k] = q[k]
  BY <1>1
<1> HIDE DEF r
<1> QED BY <1>1, <1>3, <1>4, <1>5 DEF Leased

(* The steps every action is built from. *)

SomeDispatchPc == RunOncePc \cup TakenPc \cup YieldPc \cup VerdictPc \cup {"restore"}

\* An invocation of which DispatchInv says nothing by its step.
LEMMA ElseDispatches ==
    ASSUME NEW p \in Procs, Dispatching(p), procs'[p].pc \notin SomeDispatchPc,
           procs'[p].op \in {"none", procs[p].op}
    PROVE  Dispatching(p)' /\ (procs'[p].op = "schedule" => procs[p].op = "schedule")
BY DEF Dispatching, SomeDispatchPc, RunOncePc, DispatchPc, VerdictPc

LEMMA ReturnDispatches ==
    ASSUME TypeInv, NEW p \in Procs, Dispatching(p), Return(p)
    PROVE  Dispatching(p)' /\ (procs'[p].op = "schedule" => procs[p].op = "schedule")
BY ReturnIs, ElseDispatches DEF SomeDispatchPc, RunOncePc, TakenPc, YieldPc, VerdictPc

LEMMA StateLeft ==
    ASSUME UNCHANGED state, NEW p
    PROVE  LeavesReserved(p)
BY DEF LeavesReserved

LEMMA TaskLeft ==
    ASSUME UNCHANGED task, NEW p
    PROVE  LeavesPending(p)
BY DEF LeavesPending

LEMMA QueueLeft ==
    ASSUME UNCHANGED queue, NEW p
    PROVE  LeavesLeased(p)
BY DEF LeavesLeased

\* One task is written, and not to wait for a dispatch.
LEMMA TaskSet ==
    ASSUME TypeInv, NEW p, NEW t \in Tasks, NEW new, SetTask(t, new), new.status # "pending",
           new.status = "assigned" =>
              task[t].status # "pending" \/ (procs[p].pc = "mark" /\ procs[p].t = t)
    PROVE  LeavesPending(p) /\ task'[t].status = new.status
<1>1. task'[t] = new /\ \A u \in Tasks \ {t} : task'[u] = task[u]
  BY DEF SetTask, TypeInv
<1> QED BY <1>1 DEF LeavesPending

LEMMA StatusSet ==
    ASSUME TypeInv, NEW p, NEW t \in Tasks, NEW status, SetControlStatus(t, status),
           status # "pending",
           status = "assigned" =>
              task[t].status # "pending" \/ (procs[p].pc = "mark" /\ procs[p].t = t)
    PROVE  LeavesPending(p) /\ task'[t].status = status
<1> DEFINE new == [task[t] EXCEPT !.status = status]
<1>1. new.status = status
  BY DEF TypeInv, Task
<1>2. SetTask(t, new)
  BY DEF SetControlStatus
<1> HIDE DEF new
<1> QED BY <1>1, <1>2, TaskSet

\* One queue is written.
LEMMA QueueSet ==
    ASSUME TypeInv, NEW p, NEW w \in Workers, NEW r, queue' = [queue EXCEPT ![w] = r],
           procs[p].pc \in RunOncePc \/ \A t \in Tasks : Leased(queue[w], t) => Leased(r, t)
    PROVE  LeavesLeased(p)
BY DEF LeavesLeased, TypeInv

\* A copy is written whose worker is not reserved, and stays so.
LEMMA CopyWritten ==
    ASSUME TypeInv, CopyInv, NEW p \in Procs, NEW new \in WorkerState, Fresh(p),
           NEW w \in Workers, w = procs[p].w,
           state' = [state EXCEPT ![w] = Saved(new)], UNCHANGED task, ~Reserved(w),
           \/ new.active \in {NoTask, procs[p].st.active}
           \/ new.active = procs[p].t /\ task[procs[p].t].status # "pending"
    PROVE  LeavesReserved(p) /\ ~Reserved(w)'
<1>1. procs[p].st = state[w]
  BY FreshCopy
<1>2. Saved(new).active = new.active
  BY DEF Saved, WorkerState
<1>3. state'[w].active = new.active /\ \A v \in Workers \ {w} : state'[v] = state[v]
  BY <1>2 DEF TypeInv
<1>4. ~Reserved(w)'
  BY <1>1, <1>3, NoTaskAssumption DEF Reserved
<1> QED BY <1>3, <1>4 DEF LeavesReserved

\* A busy worker is not reserved.
LEMMA NotIdle ==
    ASSUME TypeInv, CopyInv, DispatchInv, NEW p \in Procs, Fresh(p), procs[p].st.life # "idle"
    PROVE  ~Reserved(procs[p].w)
BY FreshCopy, ProcTyped DEF DispatchInv

\* The invocation goes on to a write with the copy it has.
LEMMA YieldOn ==
    ASSUME NEW p \in Procs, UNCHANGED state, NEW w \in Workers, w = procs[p].w,
           Fresh(p) => ~Reserved(w)', procs'[p].st = procs[p].st, procs'[p].w = w
    PROVE  Fresh(p)' => ~Reserved(procs[p].w)'
BY DEF Fresh, Reserved

\* The scheduler goes on with its scan, or gives up what it has leased.
LEMMA ScanDispatches ==
    ASSUME NEW p \in Procs, Dispatching(p), procs[p].pc \in RunOncePc,
           procs'[p].pc \in RunOncePc \ DispatchPc, procs'[p].op = procs[p].op
    PROVE  Dispatching(p)' /\ (procs'[p].op = "schedule" => procs[p].op = "schedule")
BY DEF Dispatching, RunOncePc, DispatchPc, TakenPc, YieldPc, VerdictPc

\* The scheduler goes on with the task it has leased.
LEMMA LeaseDispatches ==
    ASSUME NEW p \in Procs, Dispatching(p), procs[p].pc \in DispatchPc,
           procs'[p].pc \in DispatchPc \ {"mark"}, procs'[p].op = procs[p].op,
           procs'[p].w = procs[p].w, procs'[p].t = procs[p].t, UNCHANGED queue
    PROVE  Dispatching(p)' /\ (procs'[p].op = "schedule" => procs[p].op = "schedule")
BY DEF Dispatching, RunOncePc, DispatchPc, TakenPc, YieldPc, VerdictPc

-----------------------------------------------------------------------------
(* The actions. *)

LEMMA IntakeDispatches ==
    ASSUME TypeInv, CopyInv, BelongInv, DispatchInv, NEW p \in Procs, Dispatching(p),
           IntakeStep(p)
    PROVE  DispatchStep(p)
<1> USE DEF SomeDispatchPc, RunOncePc, DispatchPc, TakenPc, YieldPc, VerdictPc
<1>0. procs[p].w \in Workers /\ procs[p].st \in WorkerState
  BY ProcTyped
<1>1. CASE CreateTask(p)
  <2> DEFINE t == procs[p].t
             direct == procs[p].op = "assign" /\ procs[p].st.active = NoTask
             status == IF direct THEN "assigned" ELSE "pending"
             pc == IF direct THEN "activate" ELSE "queue"
             k == [Absent EXCEPT !.status = status, !.owner = procs[p].w]
  <2>1. LeavesReserved(p) /\ LeavesLeased(p) /\ UNCHANGED state /\ t \in Tasks
    BY <1>1, StateLeft, QueueLeft, ProcTyped DEF CreateTask, Unbound
  <2>2. CASE Return(p) /\ UNCHANGED task
    BY <2>1, <2>2, TaskLeft, ReturnDispatches DEF DispatchStep
  <2>3. CASE ~Exists(t) /\ SetTask(t, k) /\ Goto(p, pc)
    <3>1. k.status = status
      BY DEF Absent
    <3> HIDE DEF k
    <3>2. task'[t] = k /\ \A u \in Tasks \ {t} : task'[u] = task[u]
      BY <2>1, <2>3 DEF SetTask, TypeInv
    <3>3. LeavesPending(p)
      BY <2>3, <3>2 DEF LeavesPending, Exists
    <3>4. procs'[p].pc = pc /\ procs'[p].op = procs[p].op /\ procs'[p].w = procs[p].w
          /\ procs'[p].t = t /\ procs'[p].st = procs[p].st
      BY <2>3, GotoIs
    <3>5. CASE direct
      <4>1. procs'[p].pc = "activate" /\ task'[t].status = "assigned"
        BY <3>1, <3>2, <3>4, <3>5
      <4>2. PICK w \in Workers : w = procs[p].w
        BY <1>0
      <4>3. Fresh(p)' => ~Reserved(procs[p].w)'
        <5>1. Fresh(p) => state'[w].active = NoTask
          BY <2>1, <3>5, <4>2, FreshCopy
        <5>2. Fresh(p) => ~Reserved(w)'
          BY <5>1, NoTaskAssumption DEF Reserved
        <5> QED BY <2>1, <3>4, <4>2, <5>2, YieldOn
      <4>4. Dispatching(p)'
        BY <3>4, <4>1, <4>3 DEF Dispatching
      <4> QED BY <2>1, <3>3, <3>4, <4>4 DEF DispatchStep
    <3>6. CASE ~direct
      <4>1. procs'[p].pc = "queue"
        BY <3>4, <3>6
      <4> QED BY <2>1, <3>3, <3>4, <4>1, ElseDispatches DEF DispatchStep
    <3> QED BY <3>5, <3>6
  <2> QED BY <1>1, <2>2, <2>3 DEF CreateTask
<1>2. CASE EnqueueTask(p)
  <2>1. procs'[p].pc \in {"ready", "rollback"} /\ procs'[p].op \in {"none", procs[p].op}
    BY <1>2, GotoIs, ReturnIs DEF EnqueueTask
  <2>2. LeavesLeased(p)
    <3>1. queue[procs[p].w] \in Seq(Entry)
      BY <1>0 DEF TypeInv
    <3> QED BY <1>0, <1>2, <3>1, QueueLeft, QueueSet, EnqueueLeaves DEF EnqueueTask
  <2> QED BY <1>2, <2>1, <2>2, StateLeft, TaskLeft, ElseDispatches DEF EnqueueTask, DispatchStep
<1>3. CASE ActivateTask(p)
  <2> DEFINE new == [procs[p].st EXCEPT !.active = procs[p].t]
  <2>1. procs'[p].pc \in {"ready", "rollback"} /\ procs'[p].op \in {"none", procs[p].op}
    BY <1>3, GotoIs, SaveLastIs DEF ActivateTask
  <2>2. LeavesReserved(p)
    <3>1. CASE SaveLast(p, new)
      <4>1. procs[p].t \in Tasks /\ procs[p].pc = "activate"
        BY <1>3, ProcTyped DEF ActivateTask, Unbound
      <4>2. new \in WorkerState /\ new.active = procs[p].t
        BY <1>0, <4>1 DEF WorkerState
      <4> HIDE DEF new
      <4>3. Fresh(p) /\ state' = [state EXCEPT ![procs[p].w] = Saved(new)]
        BY <3>1 DEF SaveLast
      <4>4. task[procs[p].t].status # "pending" /\ ~Reserved(procs[p].w)
        BY <4>1, <4>3 DEF Dispatching
      <4>5. UNCHANGED task
        BY <1>3 DEF ActivateTask
      <4> QED BY <1>0, <4>2, <4>3, <4>4, <4>5, CopyWritten
    <3> QED BY <1>3, <3>1, StateLeft DEF ActivateTask
  <2> QED BY <1>3, <2>1, <2>2, TaskLeft, QueueLeft, ElseDispatches DEF ActivateTask, DispatchStep
<1>4. CASE RollbackTask(p)
  <2>1. Absent.status = "absent" /\ procs[p].t \in Tasks
    BY <1>4, ProcTyped DEF Absent, RollbackTask, Unbound
  <2>2. LeavesPending(p)
    BY <1>4, <2>1, TaskSet DEF RollbackTask
  <2> QED BY <1>4, <2>2, StateLeft, QueueLeft, ReturnDispatches DEF RollbackTask, DispatchStep
<1> QED BY <1>1, <1>2, <1>3, <1>4 DEF IntakeStep

LEMMA ScheduleDispatches ==
    ASSUME TypeInv, CopyInv, BelongInv, PauseInv, NEW p \in Procs, Dispatching(p),
           ScheduleStep(p)
    PROVE  DispatchStep(p)
<1> USE DEF RunOncePc, DispatchPc
<1>0. procs[p].w \in Workers /\ procs[p].snap \in [Workers -> WorkerState]
  BY ProcTyped
<1>1. ASSUME NextWorker(p), procs[p].pc \in RunOncePc
      PROVE  Dispatching(p)' /\ (procs'[p].op = "schedule" => procs[p].op = "schedule")
  BY <1>1, NextWorkerIs, ScanDispatches, ElseDispatches DEF SomeDispatchPc, TakenPc, YieldPc, VerdictPc
<1>2. CASE SnapshotWorker(p)
  <2> DEFINE w == procs[p].w
             snap == [procs[p].snap EXCEPT ![w] = state[w]]
             next == [procs[p] EXCEPT !.snap = snap, !.w = w + 1]
             first == [procs[p] EXCEPT !.snap = snap, !.w = 1, !.pc = "consider"]
  <2>1. /\ next.pc = procs[p].pc /\ next.op = procs[p].op
        /\ first.pc = "consider" /\ first.op = procs[p].op
    BY ProcTyped DEF Process
  <2>2. Becomes(p, next) \/ Return(p) \/ Becomes(p, first)
    BY <1>2 DEF SnapshotWorker
  <2> HIDE DEF next, first
  <2>3. procs[p].pc = "snapshot"
    BY <1>2 DEF SnapshotWorker
  <2>4. Dispatching(p)' /\ (procs'[p].op = "schedule" => procs[p].op = "schedule")
    BY <2>1, <2>2, <2>3, BecomesIs, ReturnDispatches, ScanDispatches
  <2> QED BY <1>2, <2>4, StateLeft, TaskLeft, QueueLeft DEF SnapshotWorker, DispatchStep
<1>3. CASE ConsiderWorker(p)
  <2>1. procs[p].pc = "consider" /\ (Goto(p, "lease") \/ NextWorker(p))
    BY <1>3 DEF ConsiderWorker
  <2>2. Dispatching(p)' /\ (procs'[p].op = "schedule" => procs[p].op = "schedule")
    BY <1>1, <2>1, GotoIs, ScanDispatches
  <2> QED BY <1>3, <2>2, StateLeft, TaskLeft, QueueLeft DEF ConsiderWorker, DispatchStep
<1>4. CASE LeaseHead(p)
  <2>1. procs[p].pc = "lease" /\ UNCHANGED <<state, task>>
    BY <1>4 DEF LeaseHead
  <2>2. LeavesLeased(p)
    BY <2>1 DEF LeavesLeased
  <2>3. Dispatching(p)' /\ (procs'[p].op = "schedule" => procs[p].op = "schedule")
    <3>1. CASE Return(p) \/ NextWorker(p)
      BY <1>1, <2>1, <3>1, ReturnDispatches
    <3>2. CASE CanAcquire(queue[procs[p].w])
      <4>1. PICK w \in Workers : w = procs[p].w
        BY <1>0
      <4>2. PICK t : t = queue[w][1].task
        OBVIOUS
      <4> DEFINE new == [procs[p] EXCEPT !.t = t, !.pc = "inspect"]
      <4>3. /\ queue' = [queue EXCEPT ![w] = Acquire(queue[w], p)]
            /\ Becomes(p, new)
        BY <1>4, <3>2, <4>1, <4>2 DEF LeaseHead
      <4>4. new.pc = "inspect" /\ new.op = procs[p].op /\ new.w = w /\ new.t = t
        BY <4>1, ProcTyped DEF Process
      <4> HIDE DEF new
      <4>5. procs'[p] = new
        BY <4>3, BecomesIs
      <4>6. queue[w] \in Seq(Entry) /\ queue[w] # <<>>
        BY <3>2, <4>1 DEF CanAcquire, TypeInv
      <4>7. Leased(queue'[w], t)
        BY <4>2, <4>3, <4>6, AcquireLeaves DEF TypeInv
      <4> QED BY <2>1, <4>4, <4>5, <4>7 DEF Dispatching, TakenPc, YieldPc, VerdictPc
    <3> QED BY <1>4, <3>1, <3>2 DEF LeaseHead
  <2> QED BY <2>1, <2>2, <2>3, StateLeft, TaskLeft DEF DispatchStep
<1>5. CASE InspectTask(p)
  <2>1. PICK pc \in {"giveback", "reserve", "skip"} : Goto(p, pc)
    BY <1>5 DEF InspectTask
  <2>2. procs[p].pc = "inspect" /\ UNCHANGED <<state, task, queue>>
    BY <1>5 DEF InspectTask
  <2>3. Dispatching(p)' /\ (procs'[p].op = "schedule" => procs[p].op = "schedule")
    BY <2>1, <2>2, GotoIs, ScanDispatches, LeaseDispatches
  <2> QED BY <2>2, <2>3, StateLeft, TaskLeft, QueueLeft DEF DispatchStep
<1>6. CASE GiveLeaseBack(p)
  <2>1. /\ procs[p].pc \in {"skip", "giveback"} /\ (NextWorker(p) \/ Return(p))
        /\ UNCHANGED <<state, task>>
    BY <1>6 DEF GiveLeaseBack
  <2>2. LeavesLeased(p)
    BY <2>1 DEF LeavesLeased
  <2> QED BY <1>1, <2>1, <2>2, ReturnDispatches, StateLeft, TaskLeft DEF DispatchStep
<1>7. CASE ReserveWorker(p)
  <2>1. PICK w \in Workers : w = procs[p].w
    BY <1>0
  <2> DEFINE copy == procs[p].snap[w]
             new == [copy EXCEPT !.active = procs[p].t]
  <2>2. procs[p].pc = "reserve" /\ UNCHANGED <<task, queue>>
    BY <1>7 DEF ReserveWorker
  <2>3. CASE copy.rev = state[w].rev /\ state' = [state EXCEPT ![w] = Saved(new)] /\ Goto(p, "mark")
    <3>1. procs[p].t \in Tasks /\ copy \in WorkerState /\ copy.life = "idle"
      BY <1>0, <2>1, <2>2, OwnTask DEF Loose, MakingPc, PauseInv, ScansIdle, ScanPc
    <3>2. Saved(new).active = procs[p].t /\ Saved(new).life = "idle"
      BY <3>1 DEF Saved, WorkerState
    <3> HIDE DEF new, copy
    <3>3. /\ state'[w].active = procs[p].t /\ state'[w].life = "idle"
          /\ \A v \in Workers \ {w} : state'[v] = state[v]
      BY <2>3, <3>2 DEF TypeInv
    <3>4. LeavesReserved(p)
      BY <2>2, <3>3 DEF LeavesReserved
    <3>5. /\ procs'[p].pc = "mark" /\ procs'[p].op = procs[p].op
          /\ procs'[p].w = w /\ procs'[p].t = procs[p].t
      BY <2>1, <2>3, GotoIs
    <3>6. Dispatching(p)'
      BY <2>1, <2>2, <3>3, <3>5 DEF Dispatching, TakenPc, YieldPc, VerdictPc
    <3> QED BY <2>2, <3>4, <3>5, <3>6, TaskLeft, QueueLeft DEF DispatchStep
  <2>4. CASE Goto(p, "giveback") /\ UNCHANGED state
    BY <2>2, <2>4, GotoIs, ScanDispatches, StateLeft, TaskLeft, QueueLeft DEF DispatchStep
  <2> QED BY <1>7, <2>1, <2>3, <2>4 DEF ReserveWorker
<1>8. CASE MarkAssigned(p)
  <2>1. procs[p].pc = "mark" /\ UNCHANGED <<state, queue>> /\ procs[p].t \in Tasks
    BY <1>8, ProcTyped DEF MarkAssigned, Unbound
  <2>2. LeavesPending(p)
    BY <1>8, <2>1, StatusSet, TaskLeft DEF MarkAssigned
  <2>3. Dispatching(p)' /\ (procs'[p].op = "schedule" => procs[p].op = "schedule")
    BY <1>8, <2>1, GotoIs, LeaseDispatches, ReturnDispatches DEF MarkAssigned
  <2> QED BY <2>1, <2>2, <2>3, StateLeft, QueueLeft DEF DispatchStep
<1>9. CASE CommitLease(p)
  <2>1. procs[p].pc = "commit" /\ UNCHANGED <<state, task>>
    BY <1>9 DEF CommitLease
  <2>2. LeavesLeased(p)
    BY <2>1 DEF LeavesLeased
  <2>3. Dispatching(p)' /\ (procs'[p].op = "schedule" => procs[p].op = "schedule")
    BY <1>9, GotoIs, ReturnDispatches, ElseDispatches
       DEF CommitLease, SomeDispatchPc, TakenPc, YieldPc, VerdictPc
  <2> QED BY <2>1, <2>2, <2>3, StateLeft, TaskLeft DEF DispatchStep
<1> QED BY <1>2, <1>3, <1>4, <1>5, <1>6, <1>7, <1>8, <1>9 DEF ScheduleStep

LEMMA StartDispatches ==
    ASSUME TypeInv, CopyInv, BelongInv, DispatchInv, NEW p \in Procs, Dispatching(p),
           StartStep(p)
    PROVE  DispatchStep(p)
<1> USE DEF SomeDispatchPc, RunOncePc, DispatchPc, TakenPc, YieldPc, VerdictPc
<1>0. procs[p].w \in Workers /\ procs[p].st \in WorkerState /\ LifeAt(procs[p].pc, procs[p].st)
  BY ProcTyped, LifeKnown
<1>w. PICK w \in Workers : w = procs[p].w
  BY <1>0
<1>1. CASE StartLoadState(p)
  <2> DEFINE st == state[procs[p].w]
             new == [procs[p] EXCEPT !.st = st, !.t = st.active, !.pc = "restore"]
  <2>1. /\ new.pc = "restore" /\ new.op = procs[p].op /\ new.t = st.active /\ new.st = st
    BY ProcTyped DEF Process
  <2>2. Becomes(p, new) \/ Return(p)
    BY <1>1 DEF StartLoadState
  <2> HIDE DEF new, st
  <2>3. Dispatching(p)' /\ (procs'[p].op = "schedule" => procs[p].op = "schedule")
    <3>1. CASE Becomes(p, new)
      <4>1. procs'[p] = new
        BY <3>1, BecomesIs
      <4> QED BY <2>1, <4>1 DEF Dispatching
    <3> QED BY <2>2, <3>1, ReturnDispatches
  <2> QED BY <1>1, <2>3, StateLeft, TaskLeft, QueueLeft DEF StartLoadState, DispatchStep
<1>2. CASE StartLoadTask(p)
  <2>1. procs[p].pc = "restore" /\ UNCHANGED <<state, task, queue>>
    BY <1>2 DEF StartLoadTask
  <2>2. CASE task[procs[p].t].status = "assigned" /\ Goto(p, "claim")
    <3>1. /\ procs'[p].pc = "claim" /\ procs'[p].op = procs[p].op /\ procs'[p].w = procs[p].w
          /\ procs'[p].st = procs[p].st
      BY <2>2, GotoIs
    <3>2. procs[p].st.active = procs[p].t
      BY <2>1 DEF Dispatching
    <3>3. Fresh(p) => ~Reserved(w)
      BY <1>w, <2>2, <3>2, FreshCopy DEF Reserved
    <3>4. Fresh(p)' => ~Reserved(procs[p].w)'
      BY <1>w, <2>1, <3>1, <3>3, YieldOn DEF Reserved
    <3>5. Dispatching(p)'
      BY <3>1, <3>4 DEF Dispatching
    <3> QED BY <2>1, <3>1, <3>5, StateLeft, TaskLeft, QueueLeft DEF DispatchStep
  <2>3. CASE Return(p)
    BY <2>1, <2>3, ReturnDispatches, StateLeft, TaskLeft, QueueLeft DEF DispatchStep
  <2> QED BY <1>2, <2>2, <2>3 DEF StartLoadTask
<1>3. CASE ClaimWorktree(p)
  <2>1. procs[p].pc = "claim" /\ UNCHANGED <<state, task, queue>>
    BY <1>3 DEF ClaimWorktree
  <2>2. CASE Goto(p, "locate")
    <3>1. /\ procs'[p].pc = "locate" /\ procs'[p].op = procs[p].op /\ procs'[p].w = procs[p].w
          /\ procs'[p].st = procs[p].st
      BY <2>2, GotoIs
    <3>2. Fresh(p) => ~Reserved(w)
      BY <1>w, <2>1 DEF Dispatching
    <3>3. Fresh(p)' => ~Reserved(procs[p].w)'
      BY <1>w, <2>1, <3>1, <3>2, YieldOn DEF Reserved
    <3>4. Dispatching(p)'
      BY <3>1, <3>3 DEF Dispatching
    <3> QED BY <2>1, <3>1, <3>4, StateLeft, TaskLeft, QueueLeft DEF DispatchStep
  <2>3. CASE Return(p)
    BY <2>1, <2>3, ReturnDispatches, StateLeft, TaskLeft, QueueLeft DEF DispatchStep
  <2> QED BY <1>3, <2>2, <2>3 DEF ClaimWorktree
<1>4. CASE SaveLocation(p)
  <2>1. /\ procs[p].pc = "locate" /\ Save(p, procs[p].st, "depart") /\ UNCHANGED <<task, queue>>
    BY <1>4 DEF SaveLocation
  <2>2. Fresh(p) /\ state' = [state EXCEPT ![w] = Saved(procs[p].st)] /\ ~Reserved(w)
    BY <1>w, <2>1 DEF Save, Dispatching
  <2>3. LeavesReserved(p) /\ ~Reserved(w)'
    BY <1>0, <1>w, <2>1, <2>2, CopyWritten
  <2>4. procs'[p].pc = "depart" /\ procs'[p].op = procs[p].op /\ procs'[p].w = w
    BY <1>w, <2>1, SaveIs
  <2>5. Dispatching(p)'
    BY <2>3, <2>4 DEF Dispatching, Reserved
  <2> QED BY <2>1, <2>3, <2>4, <2>5, TaskLeft, QueueLeft DEF DispatchStep
<1>5. CASE StartFails(p) \/ StartConflict(p)
  BY <1>5, StateLeft, TaskLeft, QueueLeft, ReturnDispatches DEF StartFails, StartConflict, DispatchStep
<1>6. CASE Depart(p)
  <2> DEFINE new == Became(procs[p].st, "starting")
  <2>1. procs[p].pc = "depart" /\ Save(p, new, "launch") /\ UNCHANGED <<task, queue>>
    BY <1>6 DEF Depart
  <2>2. new \in WorkerState /\ new.active = procs[p].st.active
    BY <1>0 DEF Became, WorkerState, Lifecycle
  <2> HIDE DEF new
  <2>3. Fresh(p) /\ state' = [state EXCEPT ![w] = Saved(new)] /\ ~Reserved(w)
    BY <1>w, <2>1 DEF Save, Dispatching
  <2>4. LeavesReserved(p)
    BY <1>w, <2>1, <2>2, <2>3, CopyWritten
  <2>5. procs'[p].pc = "launch" /\ procs'[p].op = procs[p].op
    BY <2>1, SaveIs
  <2> QED BY <2>1, <2>4, <2>5, ElseDispatches, TaskLeft, QueueLeft DEF DispatchStep
<1>7. CASE Launch(p)
  <2>1. PICK out \in Outcome \ {"none"} : Becomes(p, [procs[p] EXCEPT !.out = out, !.pc = "record"])
    BY <1>7 DEF Launch
  <2> DEFINE new == [procs[p] EXCEPT !.out = out, !.pc = "record"]
  <2>2. new.pc = "record" /\ new.op = procs[p].op
    BY ProcTyped DEF Process
  <2>3. procs'[p] = new
    BY <2>1, BecomesIs
  <2> HIDE DEF new
  <2> QED BY <1>7, <2>2, <2>3, StateLeft, TaskLeft, QueueLeft, ElseDispatches
          DEF Launch, DispatchStep
<1>8. CASE RecordAttempt(p)
  <2> DEFINE t == procs[p].t
             failed == procs[p].out = "error"
             new == [task[t] EXCEPT
                        !.attempts = Append(@, IF failed THEN "launch_failed" ELSE "executing"),
                        !.status = IF failed THEN "failed" ELSE @]
  <2>1. t \in Tasks /\ task[t] \in Task
    BY <1>8, OwnTask DEF RecordAttempt, Loose, MakingPc
  <2>2. new.status \in {"failed", task[t].status}
    BY <2>1 DEF Task
  <2>3. task' = [task EXCEPT ![t] = new] /\ Goto(p, "settle") /\ UNCHANGED <<state, queue>>
    BY <1>8 DEF RecordAttempt, SetTask
  <2> HIDE DEF new, t
  <2>4. task'[t] = new /\ \A u \in Tasks \ {t} : task'[u] = task[u]
    BY <2>1, <2>3 DEF TypeInv
  <2>5. LeavesPending(p)
    BY <2>2, <2>4 DEF LeavesPending
  <2> QED BY <2>3, <2>5, GotoIs, StateLeft, QueueLeft, ElseDispatches DEF DispatchStep
<1>9. CASE TransferClaim(p)
  BY <1>9, GotoIs, StateLeft, TaskLeft, QueueLeft, ElseDispatches DEF TransferClaim, DispatchStep
<1>10. ASSUME NEW new \in WorkerState, Fresh(p), state' = [state EXCEPT ![w] = Saved(new)],
              new.active = procs[p].st.active, procs[p].pc \in {"settle", "ascend", "check"},
              UNCHANGED task
       PROVE  LeavesReserved(p)
  <2>1. procs[p].st.life # "idle"
    BY <1>0, <1>10 DEF LifeAt, LaunchPc
  <2>2. ~Reserved(w)
    BY <1>w, <1>10, <2>1, NotIdle
  <2> QED BY <1>w, <1>10, <2>2, CopyWritten
<1>11. CASE SettleFailed(p)
  <2> DEFINE run == IF procs[p].out = "norun" THEN 0 ELSE Len(task[procs[p].t].attempts)
             new == [procs[p].st EXCEPT !.life = "failed", !.run = run]
  <2>1. procs[p].pc = "settle" /\ SaveLast(p, new) /\ UNCHANGED <<task, queue>>
    BY <1>11 DEF SettleFailed
  <2>2. run \in Nat
    <3>1. task[procs[p].t].attempts \in Seq(Disposition)
      BY <2>1, OwnTask DEF Loose, MakingPc, Task
    <3> QED BY <3>1, LenProperties
  <2> HIDE DEF run
  <2>3. new \in WorkerState /\ new.active = procs[p].st.active
    BY <1>0, <2>2 DEF WorkerState, Lifecycle
  <2> HIDE DEF new
  <2>4. LeavesReserved(p)
    BY <1>w, <1>10, <2>1, <2>3 DEF SaveLast
  <2> QED BY <2>1, <2>4, TaskLeft, QueueLeft, ReturnDispatches DEF SaveLast, DispatchStep
<1>12. CASE Ascend(p)
  <2> DEFINE run == Len(task[procs[p].t].attempts)
             new == [procs[p].st EXCEPT !.life = "executing", !.run = run]
  <2>1. /\ procs[p].pc = "ascend" /\ UNCHANGED <<task, queue>>
        /\ Save(p, new, "check") \/ SaveLast(p, new)
    BY <1>12 DEF Ascend
  <2>2. run \in Nat
    <3>1. task[procs[p].t].attempts \in Seq(Disposition)
      BY <2>1, OwnTask DEF Loose, MakingPc, Task
    <3> QED BY <3>1, LenProperties
  <2> HIDE DEF run
  <2>3. new \in WorkerState /\ new.active = procs[p].st.active
    BY <1>0, <2>2 DEF WorkerState, Lifecycle
  <2> HIDE DEF new
  <2>4. LeavesReserved(p)
    BY <1>w, <1>10, <2>1, <2>3 DEF Save, SaveLast
  <2>5. procs'[p].pc \in {"check", "ready"} /\ procs'[p].op \in {"none", procs[p].op}
    BY <2>1, SaveIs, SaveLastIs
  <2> QED BY <2>1, <2>4, <2>5, TaskLeft, QueueLeft, ElseDispatches DEF DispatchStep
<1>13. CASE CheckCompletion(p)
  <2> DEFINE new == Became(procs[p].st, "blocked")
  <2>1. procs[p].pc = "check" /\ UNCHANGED <<task, queue>> /\ Return(p)
    BY <1>13 DEF CheckCompletion, SaveLast
  <2>2. new \in WorkerState /\ new.active = procs[p].st.active
    BY <1>0 DEF Became, WorkerState, Lifecycle
  <2>3. UNCHANGED state \/ SaveLast(p, new)
    BY <1>13 DEF CheckCompletion
  <2> HIDE DEF new
  <2>4. LeavesReserved(p)
    BY <1>w, <1>10, <2>1, <2>2, <2>3, StateLeft DEF SaveLast
  <2> QED BY <2>1, <2>4, TaskLeft, QueueLeft, ReturnDispatches DEF DispatchStep
<1> QED BY <1>1, <1>2, <1>3, <1>4, <1>5, <1>6, <1>7, <1>8, <1>9, <1>11, <1>12, <1>13 DEF StartStep

LEMMA ControlDispatches ==
    ASSUME TypeInv, CopyInv, BelongInv, DispatchInv, NEW p \in Procs, Dispatching(p),
           ControlStep(p)
    PROVE  DispatchStep(p)
<1> USE DEF SomeDispatchPc, RunOncePc, DispatchPc, TakenPc, YieldPc, VerdictPc
<1>0. procs[p].st \in WorkerState /\ LifeAt(procs[p].pc, procs[p].st)
  BY ProcTyped, LifeKnown
<1>w. PICK w \in Workers : w = procs[p].w
  BY ProcTyped
<1>t. procs[p].pc \notin Unbound => procs[p].t \in Tasks
  BY ProcTyped
<1>1. CASE StopRun(p)
  BY <1>1, GotoIs, ElseDispatches, StateLeft, TaskLeft, QueueLeft DEF StopRun, DispatchStep
<1>2. CASE SuspendTask(p)
  <2> DEFINE t == procs[p].t
             new == [task[t] EXCEPT
                        !.status = "paused",
                        !.attempts = IF @ = <<>> THEN @ ELSE ReplaceLast(@, "paused")]
  <2>1. t \in Tasks /\ task[t] \in Task
    BY <1>2, <1>t DEF SuspendTask, Unbound, TypeInv
  <2>2. new.status = "paused"
    BY <2>1 DEF Task
  <2>3. SetTask(t, new) /\ Goto(p, "rest") /\ UNCHANGED <<state, queue>>
    BY <1>2 DEF SuspendTask
  <2> HIDE DEF new
  <2>4. LeavesPending(p)
    BY <2>1, <2>2, <2>3, TaskSet
  <2> QED BY <2>3, <2>4, GotoIs, ElseDispatches, StateLeft, QueueLeft DEF DispatchStep
<1>3. CASE PauseWorker(p)
  <2> DEFINE new == Became(procs[p].st, "paused")
  <2>1. /\ procs[p].pc = "rest" /\ UNCHANGED <<task, queue>>
        /\ Save(p, new, "reload") \/ SaveLast(p, new)
    BY <1>3 DEF PauseWorker
  <2>2. new \in WorkerState /\ new.active = procs[p].st.active
    BY <1>0 DEF Became, WorkerState, Lifecycle
  <2>3. procs[p].st.life # "idle"
    BY <1>0, <2>1 DEF LifeAt
  <2> HIDE DEF new
  <2>4. Fresh(p) /\ state' = [state EXCEPT ![w] = Saved(new)]
    BY <1>w, <2>1 DEF Save, SaveLast
  <2>5. ~Reserved(w)
    BY <1>w, <2>3, <2>4, NotIdle
  <2>6. LeavesReserved(p)
    BY <1>w, <2>1, <2>2, <2>4, <2>5, CopyWritten
  <2>7. procs'[p].pc \in {"reload", "ready"} /\ procs'[p].op \in {"none", procs[p].op}
    BY <2>1, SaveIs, SaveLastIs
  <2> QED BY <2>1, <2>6, <2>7, ElseDispatches, TaskLeft, QueueLeft DEF DispatchStep
<1>4. CASE WakeWorker(p)
  <2> DEFINE new == Became(procs[p].st, "idle")
  <2>1. procs[p].pc = "wake" /\ Save(p, new, "reassign") /\ UNCHANGED <<task, queue>>
    BY <1>4 DEF WakeWorker
  <2>2. new \in WorkerState /\ new.active = procs[p].st.active
    BY <1>0 DEF Became, WorkerState, Lifecycle
  <2>3. procs[p].st.life # "idle"
    BY <1>0, <2>1 DEF LifeAt
  <2> HIDE DEF new
  <2>4. Fresh(p) /\ state' = [state EXCEPT ![w] = Saved(new)]
    BY <1>w, <2>1 DEF Save
  <2>5. ~Reserved(w)
    BY <1>w, <2>3, <2>4, NotIdle
  <2>6. LeavesReserved(p) /\ ~Reserved(w)'
    BY <1>w, <2>1, <2>2, <2>4, <2>5, CopyWritten
  <2>7. /\ procs'[p].pc = "reassign" /\ procs'[p].op = procs[p].op /\ procs'[p].w = w
        /\ procs'[p].t = procs[p].t
    BY <1>w, <2>1, SaveIs
  <2>8. Dispatching(p)'
    BY <2>1, <2>6, <2>7 DEF Dispatching, Reserved
  <2> QED BY <2>1, <2>6, <2>7, <2>8, TaskLeft, QueueLeft DEF DispatchStep
<1>5. CASE ReassignTask(p)
  <2>1. PICK t \in Tasks : t = procs[p].t
    BY <1>5, <1>t DEF ReassignTask, Unbound
  <2>2. /\ procs[p].pc = "reassign" /\ UNCHANGED <<state, queue>> /\ SetControlStatus(t, "assigned")
        /\ Goto(p, "start") \/ Goto(p, "adopt")
    BY <1>5, <2>1 DEF ReassignTask
  <2>3. task[t].status # "pending"
    BY <2>1, <2>2 DEF Dispatching
  <2>4. LeavesPending(p) /\ task'[t].status = "assigned"
    BY <2>2, <2>3, StatusSet
  <2>5. Dispatching(p)' /\ (procs'[p].op = "schedule" => procs[p].op = "schedule")
    <3>1. CASE Goto(p, "start")
      BY <3>1, GotoIs, ElseDispatches
    <3>2. CASE Goto(p, "adopt")
      <4>1. /\ procs'[p].pc = "adopt" /\ procs'[p].op = procs[p].op /\ procs'[p].w = w
            /\ procs'[p].t = t /\ procs'[p].st = procs[p].st
        BY <1>w, <2>1, <3>2, GotoIs
      <4>2. Fresh(p) => ~Reserved(w)
        BY <1>w, <2>2 DEF Dispatching
      <4>3. \A u \in Tasks \ {t} : task'[u] = task[u]
        BY <2>2 DEF SetControlStatus, SetTask, TypeInv
      <4>4. Fresh(p) => ~Reserved(w)'
        BY <2>2, <2>4, <4>2, <4>3 DEF Reserved
      <4>5. Fresh(p)' => ~Reserved(procs[p].w)'
        BY <1>w, <2>2, <4>1, <4>4, YieldOn
      <4> QED BY <2>4, <4>1, <4>5 DEF Dispatching
    <3> QED BY <2>2, <3>1, <3>2
  <2> QED BY <2>2, <2>4, <2>5, StateLeft, QueueLeft DEF DispatchStep
<1>6. CASE FindWorker(p)
  <2> DEFINE st == state[procs[p].w]
             new == [procs[p] EXCEPT !.st = st, !.pc = "reassign"]
  <2>1. procs[p].pc = "find" /\ UNCHANGED <<state, task, queue>>
    BY <1>6 DEF FindWorker
  <2>2. Dispatching(p)' /\ (procs'[p].op = "schedule" => procs[p].op = "schedule")
    <3>1. CASE Return(p)
      BY <3>1, ReturnDispatches
    <3>2. CASE st.active \in {NoTask, procs[p].t} /\ Becomes(p, new)
      <4>1. /\ new.pc = "reassign" /\ new.op = procs[p].op /\ new.w = procs[p].w
            /\ new.t = procs[p].t
        BY ProcTyped DEF Process
      <4> HIDE DEF new
      <4>2. procs'[p] = new
        BY <3>2, BecomesIs
      <4>3. task[procs[p].t].status # "pending"
        BY <2>1 DEF Dispatching
      <4>4. ~Reserved(w)
        BY <1>w, <3>2, <4>3, NoTaskAssumption DEF Reserved
      <4> QED BY <1>w, <2>1, <4>1, <4>2, <4>3, <4>4 DEF Dispatching, Reserved
    <3> QED BY <1>6, <3>1, <3>2 DEF FindWorker
  <2> QED BY <2>1, <2>2, StateLeft, TaskLeft, QueueLeft DEF DispatchStep
<1>7. CASE AdoptTask(p)
  <2> DEFINE st == procs[p].st
             taken == [st EXCEPT !.life = "idle", !.active = procs[p].t]
             left == Became(Vacant(st), "idle")
  <2>1. procs[p].pc = "adopt" /\ UNCHANGED <<task, queue>> /\ procs[p].t \in Tasks
    BY <1>7, <1>t DEF AdoptTask, Unbound
  <2>2. \/ Save(p, taken, "start")
        \/ Save(p, left, "readopt")
        \/ Return(p) /\ UNCHANGED state
    BY <1>7 DEF AdoptTask
  <2>3. /\ taken \in WorkerState /\ taken.active = procs[p].t
        /\ left \in WorkerState /\ left.active = NoTask
    BY <1>0, <2>1 DEF Became, Vacant, WorkerState, Lifecycle
  <2> HIDE DEF taken, left
  <2>4. task[procs[p].t].status # "pending" /\ (Fresh(p) => ~Reserved(w))
    BY <1>w, <2>1 DEF Dispatching
  <2>5. CASE Save(p, taken, "start")
    <3>1. Fresh(p) /\ state' = [state EXCEPT ![w] = Saved(taken)]
      BY <1>w, <2>5 DEF Save
    <3>2. LeavesReserved(p)
      BY <1>w, <2>1, <2>3, <2>4, <3>1, CopyWritten
    <3> QED BY <2>1, <2>5, <3>2, SaveIs, ElseDispatches, TaskLeft, QueueLeft DEF DispatchStep
  <2>6. CASE Save(p, left, "readopt")
    <3>1. Fresh(p) /\ state' = [state EXCEPT ![w] = Saved(left)]
      BY <1>w, <2>6 DEF Save
    <3>2. LeavesReserved(p) /\ ~Reserved(w)'
      BY <1>w, <2>1, <2>3, <2>4, <3>1, CopyWritten
    <3>3. /\ procs'[p].pc = "readopt" /\ procs'[p].op = procs[p].op /\ procs'[p].w = w
          /\ procs'[p].t = procs[p].t
      BY <1>w, <2>6, SaveIs
    <3>4. Dispatching(p)'
      BY <2>1, <2>4, <3>2, <3>3 DEF Dispatching, Reserved
    <3> QED BY <2>1, <3>2, <3>3, <3>4, TaskLeft, QueueLeft DEF DispatchStep
  <2>7. CASE Return(p) /\ UNCHANGED state
    BY <2>1, <2>7, ReturnDispatches, StateLeft, TaskLeft, QueueLeft DEF DispatchStep
  <2> QED BY <2>2, <2>5, <2>6, <2>7
<1>8. CASE ReadoptTask(p)
  <2> DEFINE new == [procs[p].st EXCEPT !.active = procs[p].t]
  <2>1. /\ procs[p].pc = "readopt" /\ Save(p, new, "start") /\ UNCHANGED <<task, queue>>
        /\ procs[p].t \in Tasks
    BY <1>8, <1>t DEF ReadoptTask, Unbound
  <2>2. new \in WorkerState /\ new.active = procs[p].t
    BY <1>0, <2>1 DEF WorkerState
  <2> HIDE DEF new
  <2>3. Fresh(p) /\ state' = [state EXCEPT ![w] = Saved(new)]
    BY <1>w, <2>1 DEF Save
  <2>4. task[procs[p].t].status # "pending" /\ ~Reserved(w)
    BY <1>w, <2>1, <2>3 DEF Dispatching
  <2>5. LeavesReserved(p)
    BY <1>w, <2>1, <2>2, <2>3, <2>4, CopyWritten
  <2> QED BY <2>1, <2>5, SaveIs, ElseDispatches, TaskLeft, QueueLeft DEF DispatchStep
<1>9. CASE LookAtWorker(p) \/ ReloadWorker(p)
  <2>1. PICK pc \in {"stop", "dequeue", "void"} :
           Becomes(p, [procs[p] EXCEPT !.st = state[procs[p].w], !.pc = pc])
    BY <1>9 DEF LookAtWorker, ReloadWorker, AfterStop
  <2>2. procs'[p].pc = pc /\ procs'[p].op = procs[p].op
    BY <2>1, LoadIs
  <2>3. UNCHANGED <<state, task, queue>>
    BY <1>9 DEF LookAtWorker, ReloadWorker
  <2> QED BY <2>2, <2>3, ElseDispatches, StateLeft, TaskLeft, QueueLeft DEF DispatchStep
<1>10. CASE CancelQueued(p)
  <2>1. UNCHANGED <<state, task>> /\ (Goto(p, "void") \/ Return(p))
    BY <1>10 DEF CancelQueued
  <2>2. procs'[p].pc \in {"void", "ready"} /\ procs'[p].op \in {"none", procs[p].op}
    BY <2>1, GotoIs, ReturnIs
  <2>3. LeavesLeased(p)
    <3>1. queue[w] \in Seq(Entry)
      BY DEF TypeInv
    <3>2. \/ UNCHANGED queue
          \/ \E i \in DOMAIN queue[w] :
                CanRemove(queue[w], i) /\ queue' = [queue EXCEPT ![w] = RemoveAt(queue[w], i)]
      BY <1>10, <1>w DEF CancelQueued
    <3> QED BY <3>1, <3>2, QueueLeft, QueueSet, RemoveLeaves
  <2> QED BY <2>1, <2>2, <2>3, ElseDispatches, StateLeft, TaskLeft DEF DispatchStep
<1>11. CASE VoidTask(p)
  <2>1. PICK t \in Tasks : t = procs[p].t
    BY <1>11, <1>t DEF VoidTask, Unbound
  <2>2. UNCHANGED <<state, queue>>
    BY <1>11 DEF VoidTask
  <2>3. LeavesPending(p)
    BY <1>11, <2>1, StatusSet, TaskLeft DEF VoidTask
  <2>4. Dispatching(p)' /\ (procs'[p].op = "schedule" => procs[p].op = "schedule")
    <3>1. CASE Return(p)
      BY <3>1, ReturnDispatches
    <3>2. CASE Exists(t) /\ procs[p].st.active = t /\ Goto(p, "vacate")
      <4>1. /\ procs'[p].pc = "vacate" /\ procs'[p].op = procs[p].op /\ procs'[p].w = w
            /\ procs'[p].st = procs[p].st
        BY <1>w, <3>2, GotoIs
      <4>2. task'[t].status = "canceled"
        BY <1>11, <2>1, <3>2, StatusSet DEF VoidTask
      <4>3. Fresh(p) => ~Reserved(w)'
        BY <1>w, <2>2, <3>2, <4>2, FreshCopy DEF Reserved
      <4>4. Fresh(p)' => ~Reserved(procs[p].w)'
        BY <1>w, <2>2, <4>1, <4>3, YieldOn
      <4> QED BY <4>1, <4>4 DEF Dispatching
    <3> QED BY <1>11, <2>1, <3>1, <3>2 DEF VoidTask
  <2> QED BY <2>2, <2>3, <2>4, StateLeft, QueueLeft DEF DispatchStep
<1>12. CASE VacateWorker(p)
  <2> DEFINE new == [Vacant(procs[p].st) EXCEPT !.life = IF @ = "paused" THEN "idle" ELSE @]
  <2>1. procs[p].pc = "vacate" /\ SaveLast(p, new) /\ UNCHANGED <<task, queue>>
    BY <1>12 DEF VacateWorker
  <2>2. new \in WorkerState /\ new.active = NoTask
    BY <1>0 DEF Vacant, WorkerState, Lifecycle
  <2> HIDE DEF new
  <2>3. Fresh(p) /\ state' = [state EXCEPT ![w] = Saved(new)] /\ ~Reserved(w)
    BY <1>w, <2>1 DEF SaveLast, Dispatching
  <2>4. LeavesReserved(p)
    BY <1>w, <2>1, <2>2, <2>3, CopyWritten
  <2> QED BY <2>1, <2>4, ReturnDispatches, TaskLeft, QueueLeft DEF SaveLast, DispatchStep
<1>13. CASE ControlConflict(p)
  BY <1>13, ReturnDispatches, StateLeft, TaskLeft, QueueLeft DEF ControlConflict, DispatchStep
<1> QED BY <1>1, <1>2, <1>3, <1>4, <1>5, <1>6, <1>7, <1>8, <1>9, <1>10, <1>11, <1>12, <1>13
        DEF ControlStep

LEMMA ReviewDispatches ==
    ASSUME TypeInv, CopyInv, BelongInv, DispatchInv, NEW p \in Procs, Dispatching(p),
           ReviewStep(p)
    PROVE  DispatchStep(p)
<1> USE DEF SomeDispatchPc, RunOncePc, DispatchPc, TakenPc, YieldPc, VerdictPc
<1>0. procs[p].st \in WorkerState /\ LifeAt(procs[p].pc, procs[p].st)
  BY ProcTyped, LifeKnown
<1>w. PICK w \in Workers : w = procs[p].w
  BY ProcTyped
<1>1. CASE SubmitLoadState(p) \/ ReviewConflict(p)
  <2>1. \/ Becomes(p, [procs[p] EXCEPT !.st = state[procs[p].w], !.pc = "handoff"])
        \/ Return(p)
    BY <1>1 DEF SubmitLoadState, ReviewConflict
  <2>2. UNCHANGED <<state, task, queue>>
    BY <1>1 DEF SubmitLoadState, ReviewConflict
  <2>3. procs'[p].pc \in {"handoff", "ready"} /\ procs'[p].op \in {"none", procs[p].op}
    BY <2>1, LoadIs, ReturnIs
  <2> QED BY <2>2, <2>3, ElseDispatches, StateLeft, TaskLeft, QueueLeft DEF DispatchStep
<1>2. CASE VerdictLoadState(p)
  <2>1. /\ procs[p].pc = "judge" /\ UNCHANGED <<state, task, queue>>
        /\ Becomes(p, [procs[p] EXCEPT !.st = state[procs[p].w], !.pc = "decide"])
    BY <1>2 DEF VerdictLoadState
  <2>2. procs'[p].pc = "decide" /\ procs'[p].op = procs[p].op
    BY <2>1, LoadIs
  <2>3. Dispatching(p)'
    BY <2>1, <2>2 DEF Dispatching
  <2> QED BY <2>1, <2>2, <2>3, StateLeft, TaskLeft, QueueLeft DEF DispatchStep
<1>3. CASE AppendHandoff(p)
  <2> DEFINE t == procs[p].t
             new == [task[t] EXCEPT !.status = "awaiting_review",
                                    !.handoffs = Append(@, "pending")]
  <2>1. t \in Tasks /\ task[t] \in Task
    BY <1>3, OwnTask DEF AppendHandoff, Loose, MakingPc
  <2>2. new.status = "awaiting_review"
    BY <2>1 DEF Task
  <2>3. SetTask(t, new) /\ Goto(p, "await") /\ UNCHANGED <<state, queue>>
    BY <1>3 DEF AppendHandoff
  <2> HIDE DEF new
  <2>4. LeavesPending(p)
    BY <2>1, <2>2, <2>3, TaskSet
  <2> QED BY <2>3, <2>4, GotoIs, ElseDispatches, StateLeft, QueueLeft DEF DispatchStep
<1>4. ASSUME NEW new \in WorkerState, new.active \in {NoTask, procs[p].st.active},
             SaveLast(p, new), procs[p].st.life # "idle", UNCHANGED <<task, queue>>
      PROVE  DispatchStep(p)
  <2>1. Fresh(p) /\ state' = [state EXCEPT ![w] = Saved(new)] /\ Return(p)
    BY <1>4, <1>w DEF SaveLast
  <2>2. ~Reserved(w)
    BY <1>4, <1>w, <2>1, NotIdle
  <2>3. LeavesReserved(p)
    BY <1>4, <1>w, <2>1, <2>2, CopyWritten
  <2> QED BY <1>4, <2>1, <2>3, ReturnDispatches, TaskLeft, QueueLeft DEF DispatchStep
<1>5. CASE AwaitReview(p)
  <2> DEFINE new == Became(procs[p].st, "awaiting_review")
  <2>1. procs[p].pc = "await" /\ SaveLast(p, new) /\ UNCHANGED <<task, queue>>
    BY <1>5 DEF AwaitReview
  <2>2. new \in WorkerState /\ new.active = procs[p].st.active
    BY <1>0 DEF Became, WorkerState, Lifecycle
  <2>3. procs[p].st.life # "idle"
    BY <1>0, <2>1 DEF LifeAt
  <2> HIDE DEF new
  <2> QED BY <1>4, <2>1, <2>2, <2>3
<1>6. CASE DecideHandoff(p)
  <2> DEFINE t == procs[p].t
             new == [task[t] EXCEPT
                        !.status = "accepted", !.handoffs = ReplaceLast(@, "accepted")]
  <2>1. procs[p].pc = "decide" /\ procs[p].op = "accept"
    BY <1>6 DEF DecideHandoff, Dispatching
  <2>2. t \in Tasks /\ task[t] \in Task
    BY <2>1, OwnTask DEF Loose, MakingPc
  <2>3. new.status = "accepted"
    BY <2>2 DEF Task
  <2>4. SetTask(t, new) /\ Goto(p, "close") /\ UNCHANGED <<state, queue>>
    BY <1>6, <2>1 DEF DecideHandoff
  <2> HIDE DEF new
  <2>5. LeavesPending(p)
    BY <2>2, <2>3, <2>4, TaskSet
  <2> QED BY <2>4, <2>5, GotoIs, ElseDispatches, StateLeft, QueueLeft DEF DispatchStep
<1>7. CASE RequeueTask(p)
  <2>1. UNCHANGED <<state, task>> /\ (Goto(p, "close") \/ Return(p))
    BY <1>7 DEF RequeueTask
  <2>2. procs'[p].pc \in {"close", "ready"} /\ procs'[p].op \in {"none", procs[p].op}
    BY <2>1, GotoIs, ReturnIs
  <2>3. LeavesLeased(p)
    <3>1. queue[w] \in Seq(Entry)
      BY DEF TypeInv
    <3> QED BY <1>7, <1>w, <3>1, QueueLeft, QueueSet, EnqueueLeaves DEF RequeueTask
  <2> QED BY <2>1, <2>2, <2>3, ElseDispatches, StateLeft, TaskLeft DEF DispatchStep
<1>8. CASE CloseReview(p)
  <2> DEFINE new == Became(Vacant(procs[p].st), "idle")
  <2>1. SaveLast(p, new) /\ UNCHANGED <<task, queue>>
    BY <1>8 DEF CloseReview
  <2>2. new \in WorkerState /\ new.active = NoTask
    BY <1>0 DEF Became, Vacant, WorkerState, Lifecycle
  <2>3. procs[p].st.life # "idle"
    BY <1>8 DEF CloseReview, CanTransition, LifecycleTransitions
  <2> HIDE DEF new
  <2> QED BY <1>4, <2>1, <2>2, <2>3
<1> QED BY <1>1, <1>2, <1>3, <1>5, <1>6, <1>7, <1>8 DEF ReviewStep

LEMMA InvokeDispatches ==
    ASSUME "reject" \notin Commands, TypeInv, DispatchInv, NEW p \in Procs, Invoke(p)
    PROVE  DispatchStep(p)
<1> USE DEF RunOncePc, DispatchPc, TakenPc, YieldPc, VerdictPc
<1>1. UNCHANGED <<state, task, queue>>
  BY DEF Invoke, BeginIntake, BeginStart, BeginSchedule, BeginPause, BeginResume,
         BeginRetry, BeginCancel, BeginSubmit, BeginVerdict
<1>2. procs'[p].op = "schedule" => ~ProjectLocked
  BY InvokeMoves DEF BeginSchedule
<1>3. ASSUME procs'[p].pc \in {"create", "start", "stop", "look", "join"}
      PROVE  Dispatching(p)'
  BY <1>3 DEF Dispatching
<1>4. Dispatching(p)'
  <2>1. CASE \E w \in Workers, t \in Tasks : BeginIntake(p, w, t)
    BY <1>3, <2>1, BeginIs DEF BeginIntake
  <2>2. CASE \E w \in Workers : BeginStart(p, w) \/ BeginPause(p, w)
    BY <1>3, <2>2, BeginIs DEF BeginStart, BeginPause
  <2>3. CASE \E w \in Workers : BeginResume(p, w)
    <3>1. PICK w \in Workers : BeginResume(p, w)
      BY <2>3
    <3>2. /\ procs'[p].pc = "wake" /\ procs'[p].t = state[w].active
          /\ state[w].active # NoTask /\ state[w].life # "idle"
      BY <3>1, BeginIs DEF BeginResume
    <3>3. state[w].active \in Tasks
      BY <3>2 DEF TypeInv, WorkerState
    <3>4. task[state[w].active].status # "pending"
      BY <3>2, <3>3 DEF DispatchInv, Reserved
    <3> QED BY <1>1, <3>2, <3>4 DEF Dispatching
  <2>4. CASE \E t \in Tasks : BeginRetry(p, t)
    <3>1. PICK t \in Tasks : BeginRetry(p, t)
      BY <2>4
    <3>2. procs'[p].pc = "find" /\ procs'[p].t = t /\ task[t].status # "pending"
      BY <3>1, BeginIs DEF BeginRetry
    <3> QED BY <1>1, <3>2 DEF Dispatching
  <2>5. CASE \E t \in Tasks : BeginSubmit(p, t)
    BY <1>3, <2>5, BeginIs DEF BeginSubmit
  <2>6. CASE \E t \in Tasks : BeginVerdict(p, t)
    <3>1. procs'[p].pc = "judge" /\ procs'[p].op = "accept"
      BY <2>6, BeginIs DEF BeginVerdict
    <3> QED BY <3>1 DEF Dispatching
  <2>7. CASE \E t \in Tasks : BeginCancel(p, t)
    <3>1. PICK t \in Tasks : BeginCancel(p, t)
      BY <2>7
    <3> DEFINE new == [Ready EXCEPT !.op = "cancel", !.pc = "look", !.w = task[t].owner,
                                    !.t = t, !.status = task[t].status]
    <3>2. new.pc = "look"
      BY DEF Ready
    <3>3. procs'[p] = new
      BY <3>1, BecomesIs DEF BeginCancel
    <3> HIDE DEF new
    <3> QED BY <1>3, <3>2, <3>3
  <2>8. CASE BeginSchedule(p)
    <3>1. procs'[p].pc = "snapshot" /\ procs'[p].op = "schedule"
      BY <2>8, BeginIs DEF BeginSchedule
    <3> QED BY <3>1 DEF Dispatching
  <2> QED BY <2>1, <2>2, <2>3, <2>4, <2>5, <2>6, <2>7, <2>8 DEF Invoke
<1> QED BY <1>1, <1>2, <1>4, StateLeft, TaskLeft, QueueLeft DEF DispatchStep

\* What an operator, the clock and the end of a run leave of a dispatch.
LEMMA OperateDispatches ==
    ASSUME TypeInv, CopyInv, BelongInv, DispatchInv, NEW w \in Workers,
           Operate(w) \/ ExpireLease(w)
    PROVE  DispatchInv' /\ UNCHANGED task
<1>1. UNCHANGED <<procs, task>> /\ \A v \in Workers : Advances(v)
  BY QuietSteps, OperateQuiet
<1>2. queue[w] \in Seq(Entry)
  BY DEF TypeInv
<1>3. ASSUME NEW r, queue' = [queue EXCEPT ![w] = r], UNCHANGED state,
             \A t \in Tasks : Leased(queue[w], t) => Leased(r, t)
      PROVE  DispatchInv'
  <2>1. \A v \in Workers, t \in Tasks : Leased(queue[v], t) => Leased(queue'[v], t)
    BY <1>3 DEF TypeInv
  <2> QED BY <1>1, <1>3, <2>1, QuietDispatches
<1>4. CASE ReorderQueue(w)
  <2>1. PICK i, j \in DOMAIN queue[w] :
            CanReorder(queue[w], i) /\ queue' = [queue EXCEPT ![w] = Reorder(queue[w], i, j)]
    BY <1>4 DEF ReorderQueue
  <2>2. \A t \in Tasks : Leased(queue[w], t) => Leased(Reorder(queue[w], i, j), t)
    BY <1>2, <2>1, ReorderLeaves
  <2> QED BY <1>1, <1>3, <1>4, <2>1, <2>2 DEF ReorderQueue
<1>5. CASE RemoveFromQueue(w)
  <2>1. PICK i \in DOMAIN queue[w] :
            CanRemove(queue[w], i) /\ queue' = [queue EXCEPT ![w] = RemoveAt(queue[w], i)]
    BY <1>5 DEF RemoveFromQueue
  <2>2. \A t \in Tasks : Leased(queue[w], t) => Leased(RemoveAt(queue[w], i), t)
    BY <1>2, <2>1, RemoveLeaves
  <2> QED BY <1>1, <1>3, <1>5, <2>1, <2>2 DEF RemoveFromQueue
<1>6. CASE ExpireLease(w)
  <2>1. /\ queue[w] # <<>> /\ queue[w][1].lease # NoLease /\ UNCHANGED state
        /\ queue' = [queue EXCEPT ![w] = Expire(queue[w], 1)]
    BY <1>6 DEF ExpireLease
  <2>2. \A t \in Tasks : Leased(queue[w], t) => Leased(Expire(queue[w], 1), t)
    BY <1>2, <2>1, ExpireLeaves
  <2> QED BY <1>1, <1>3, <2>1, <2>2
<1>7. CASE ResetWorker(w)
  <2> DEFINE new == Saved(Became(Vacant(state[w]), "idle"))
  <2>1. new.active = NoTask
    BY DEF Saved, Became, Vacant, TypeInv, WorkerState
  <2> HIDE DEF new
  <2>2. state' = [state EXCEPT ![w] = new] /\ UNCHANGED queue /\ state[w].life # "idle"
    BY <1>7 DEF ResetWorker, new
  <2>3. ~Reserved(w) /\ ~Reserved(w)'
    BY <2>1, <2>2, NoTaskAssumption DEF DispatchInv, Reserved, TypeInv
  <2>4. \A v \in Workers : state'[v] = state[v] \/ (~Reserved(v) /\ ~Reserved(v)')
    BY <2>2, <2>3 DEF TypeInv
  <2> QED BY <1>1, <2>2, <2>4, QuietDispatches
<1> QED BY <1>1, <1>4, <1>5, <1>6, <1>7 DEF Operate

LEMMA RunCompletesDispatches ==
    ASSUME TypeInv, CopyInv, BelongInv, DispatchInv, NEW r \in live, RunCompletes(r)
    PROVE  DispatchInv' /\ UNCHANGED task
<1>1. PICK w \in Workers : w = task[r[1]].owner
  BY DEF TypeInv, Run, Task
<1>2. UNCHANGED <<procs, task, queue>> /\ \A v \in Workers : Advances(v)
  BY RunEnds, RunCompletesQuiet
<1>3. \A v \in Workers : state'[v] = state[v] \/ (~Reserved(v) /\ ~Reserved(v)')
  <2>1. CASE UNCHANGED state
    BY <2>1
  <2>2. CASE /\ state[w].life = "executing"
             /\ state' = [state EXCEPT ![w] = Saved(Became(state[w], "blocked"))]
    <3>1. \A v \in Workers \ {w} : state'[v] = state[v]
      BY <2>2 DEF TypeInv
    <3>2. ~Reserved(w)
      BY <2>2 DEF DispatchInv
    <3>3. state'[w].active = state[w].active
      BY RunEnds
    <3>4. ~Reserved(w)'
      BY <1>2, <3>2, <3>3 DEF Reserved
    <3> QED BY <3>1, <3>2, <3>4
  <2> QED BY <1>1, <2>1, <2>2 DEF RunCompletes
<1> QED BY <1>2, <1>3, QuietDispatches

-----------------------------------------------------------------------------
LEMMA InitDispatches == Init => DispatchInv
<1> SUFFICES ASSUME Init PROVE DispatchInv
  OBVIOUS
<1>1. \A p \in Procs : procs[p].pc = "ready" /\ procs[p].op = "none"
  BY RecordsTyped DEF Init, Ready
<1>2. \A w \in Workers : state[w].life = "idle"
  BY DEF Init, NewState
<1> QED BY <1>1, <1>2 DEF DispatchInv, OneScheduler, Dispatching, RunOncePc, DispatchPc, TakenPc,
                          YieldPc, VerdictPc

\* Every step is one that an invocation may take, or leaves the tasks alone.
LEMMA EveryStep ==
    ASSUME "reject" \notin Commands, TypeInv, CopyInv, BelongInv, PauseInv, DispatchInv,
           [Next]_vars
    PROVE  /\ DispatchInv'
           /\ UNCHANGED task \/ \E p \in Procs : LeavesPending(p)
<1>0. \A p \in Procs : Dispatching(p)
  BY DEF DispatchInv
<1>1. CASE \E p \in Procs : Invoke(p) \/ Step(p)
  <2>1. PICK p \in Procs : Invoke(p) \/ Step(p)
    BY <1>1
  <2>2. DispatchStep(p)
    BY <1>0, <2>1, InvokeDispatches, IntakeDispatches, ScheduleDispatches, StartDispatches,
       ControlDispatches, ReviewDispatches DEF Step
  <2>3. GoodStep(p)
    BY <2>1, InvokeGood, IntakeGood, ScheduleGood, StartGood, ControlGood, ReviewGood DEF Step
  <2> QED BY <2>2, <2>3, StepDispatches DEF GoodStep, DispatchStep
<1>2. CASE \E w \in Workers : Operate(w) \/ ExpireLease(w)
  BY <1>2, OperateDispatches
<1>3. CASE \E r \in live : RunCompletes(r)
  BY <1>3, RunCompletesDispatches
<1>4. CASE \E p \in Procs : Crash(p)
  <2>1. PICK p \in Procs : Crash(p)
    BY <1>4
  <2>2. Return(p) /\ UNCHANGED <<state, task, queue>>
    BY <2>1 DEF Crash
  <2>3. \A q \in Procs \ {p} : procs'[q] = procs[q]
    BY <2>2 DEF Return, Becomes, TypeInv
  <2>4. DispatchStep(p)
    BY <1>0, <2>2, ReturnDispatches, StateLeft, TaskLeft, QueueLeft DEF DispatchStep
  <2>5. \A w \in Workers : Advances(w)
    BY <2>2 DEF Advances
  <2> QED BY <2>2, <2>3, <2>4, <2>5, StepDispatches
<1>5. CASE UNCHANGED vars
  <2>1. /\ \A w \in Workers : Advances(w)
        /\ \A w \in Workers, t \in Tasks : Leased(queue[w], t) => Leased(queue'[w], t)
    BY <1>5 DEF vars, Advances
  <2> QED BY <1>5, <2>1, QuietDispatches DEF vars
<1> QED BY <1>1, <1>2, <1>3, <1>4, <1>5 DEF Next

\* RunOnce (dispatch.go:120-160): a task that waits in a queue is assigned only
\* under a lease and to a worker that is reserved for it, whatever cancel,
\* reorder and remove do to the queue, whatever start, pause, resume, retry and
\* reset do to the worker, and whichever invocations die meanwhile. A rejected
\* task waits before it is in the queue, and resume may assign it then.
THEOREM DispatchesReserved ==
    ASSUME "reject" \notin Commands
    PROVE  Spec => DispatchReserved
<1>1. TypeInv /\ CopyInv /\ BelongInv /\ PauseInv /\ DispatchInv /\ [Next]_vars => DispatchInv'
  BY EveryStep
<1>2. TypeInv /\ CopyInv /\ BelongInv /\ PauseInv /\ DispatchInv /\ [Next]_vars =>
        [\A t \in Tasks :
           task[t].status = "pending" /\ task'[t].status = "assigned" =>
              LET w == task[t].owner
              IN  /\ \E i \in DOMAIN queue[w] :
                        queue[w][i].task = t /\ queue[w][i].lease # NoLease
                  /\ state[w].active = t]_vars
  <2> SUFFICES ASSUME TypeInv, CopyInv, BelongInv, PauseInv, DispatchInv, [Next]_vars,
                      NEW t \in Tasks, task[t].status = "pending", task'[t].status = "assigned"
               PROVE  /\ \E i \in DOMAIN queue[task[t].owner] :
                            /\ queue[task[t].owner][i].task = t
                            /\ queue[task[t].owner][i].lease # NoLease
                      /\ state[task[t].owner].active = t
    OBVIOUS
  <2>1. PICK p \in Procs : procs[p].pc = "mark" /\ procs[p].t = t
    BY EveryStep DEF LeavesPending
  <2>2. Settled(t, procs[p].w)
    BY <2>1, OwnTask DEF Loose, MakingPc
  <2>3. Leased(queue[procs[p].w], t) /\ state[procs[p].w].active = t
    BY <2>1 DEF DispatchInv, Dispatching, DispatchPc
  <2> QED BY <2>2, <2>3 DEF Settled, Leased
<1> QED BY <1>1, <1>2, InitTyped, NextTyped, InitCopy, NextCopy, InitBelongs, NextBelongs,
           InitPauses, NextPauses, InitDispatches, PTL DEF Spec, DispatchReserved

=============================================================================
