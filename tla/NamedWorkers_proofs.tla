------------------------- MODULE NamedWorkers_proofs -------------------------
(***************************************************************************)
(* Theorems about NamedWorkers, for every number of workers, tasks,        *)
(* invocations, attempts and crashes.                                      *)
(***************************************************************************)
EXTENDS NamedWorkers, SequenceTheorems, TLAPS

-----------------------------------------------------------------------------
(* What the queue's operations return, for queues of every length: each of   *)
(* them leaves a sequence of entries, none lists a task twice if the queue   *)
(* it was applied to did not, and none but Enqueue brings in a task.         *)

\* r lists no task that q does not list.
ListsOf(r, q) == \A t \in Tasks : Queued(r, t) => Queued(q, t)

\* A sequence over S is a function from 1..n into S, for some n.
LEMMA IsSeq ==
    ASSUME NEW S, NEW n \in Nat, NEW q \in [1 .. n -> S]
    PROVE  q \in Seq(S) /\ Len(q) = n
OBVIOUS

\* RemoveAt(q, i), position by position.
LEMMA RemoveAtElements ==
    ASSUME NEW S, NEW q \in Seq(S), NEW i \in 1 .. Len(q)
    PROVE  /\ RemoveAt(q, i) \in Seq(S)
           /\ Len(RemoveAt(q, i)) = Len(q) - 1
           /\ \A k \in 1 .. Len(q) - 1 :
                RemoveAt(q, i)[k] = IF k < i THEN q[k] ELSE q[k + 1]
<1> DEFINE a == SubSeq(q, 1, i - 1)
           b == SubSeq(q, i + 1, Len(q))
<1>1. a \in Seq(S) /\ Len(a) = i - 1 /\ \A k \in 1 .. i - 1 : a[k] = q[k]
  BY SubSeqProperties
<1>2. b \in Seq(S) /\ Len(b) = Len(q) - i /\ \A k \in 1 .. Len(q) - i : b[k] = q[i + k]
  BY SubSeqProperties
<1>3. RemoveAt(q, i) = a \o b
  BY DEF RemoveAt
<1> HIDE DEF a, b
<1>4. /\ a \o b \in Seq(S)
      /\ Len(a \o b) = Len(a) + Len(b)
      /\ \A k \in 1 .. Len(a) + Len(b) :
            (a \o b)[k] = IF k <= Len(a) THEN a[k] ELSE b[k - Len(a)]
  BY <1>1, <1>2, ConcatProperties
<1>5. Len(a) + Len(b) = Len(q) - 1
  BY <1>1, <1>2
<1>6. ASSUME NEW k \in 1 .. Len(q) - 1
      PROVE  (a \o b)[k] = IF k < i THEN q[k] ELSE q[k + 1]
  BY <1>1, <1>2, <1>4, <1>5
<1> QED BY <1>3, <1>4, <1>5, <1>6

\* InsertAt(q, j, e), position by position.
LEMMA InsertAtElements ==
    ASSUME NEW q \in Seq(Entry), NEW j \in 1 .. Len(q) + 1, NEW e \in Entry
    PROVE  /\ InsertAt(q, j, e) \in Seq(Entry)
           /\ Len(InsertAt(q, j, e)) = Len(q) + 1
           /\ \A k \in 1 .. j - 1 : InsertAt(q, j, e)[k] = q[k]
           /\ InsertAt(q, j, e)[j] = e
           /\ \A k \in j + 1 .. Len(q) + 1 : InsertAt(q, j, e)[k] = q[k - 1]
<1> DEFINE a == SubSeq(q, 1, j - 1)
           b == SubSeq(q, j, Len(q))
<1>1. a \in Seq(Entry) /\ Len(a) = j - 1 /\ \A k \in 1 .. j - 1 : a[k] = q[k]
  BY SubSeqProperties
<1>2. /\ b \in Seq(Entry)
      /\ Len(b) = Len(q) + 1 - j
      /\ \A k \in 1 .. Len(q) + 1 - j : b[k] = q[j + k - 1]
  BY SubSeqProperties
<1>3. InsertAt(q, j, e) = (a \o <<e>>) \o b
  BY DEF InsertAt
<1> HIDE DEF a, b
<1> DEFINE c == a \o <<e>>
<1>4. /\ c \in Seq(Entry)
      /\ Len(c) = j
      /\ \A k \in 1 .. j : c[k] = IF k < j THEN a[k] ELSE e
  BY <1>1, AppendProperties, AppendIsConcat
<1> HIDE DEF c
<1>5. /\ c \o b \in Seq(Entry)
      /\ Len(c \o b) = Len(c) + Len(b)
      /\ \A k \in 1 .. Len(c) + Len(b) :
            (c \o b)[k] = IF k <= Len(c) THEN c[k] ELSE b[k - Len(c)]
  BY <1>2, <1>4, ConcatProperties
<1>6. Len(c) + Len(b) = Len(q) + 1
  BY <1>2, <1>4
<1>7. /\ \A k \in 1 .. j - 1 : (c \o b)[k] = q[k]
      /\ (c \o b)[j] = e
  BY <1>1, <1>4, <1>5, <1>6
<1>8. ASSUME NEW k \in j + 1 .. Len(q) + 1
      PROVE  (c \o b)[k] = q[k - 1]
  <2>1. (c \o b)[k] = b[k - j]
    BY <1>4, <1>5, <1>6
  <2>2. k - j \in 1 .. Len(q) + 1 - j /\ j + (k - j) - 1 = k - 1
    OBVIOUS
  <2>3. b[k - j] = q[j + (k - j) - 1]
    BY <1>2, <2>2
  <2> QED BY <2>1, <2>2, <2>3
<1>9. InsertAt(q, j, e) = c \o b
  BY <1>3 DEF c
<1> QED BY <1>5, <1>6, <1>7, <1>8, <1>9

\* The operations, one lemma each.

LEMMA EnqueueKeeps ==
    ASSUME NEW q \in Seq(Entry), NEW t \in Tasks
    PROVE  /\ Enqueue(q, t) \in Seq(Entry)
           /\ NoDuplicates(q) /\ CanEnqueue(q, t) => NoDuplicates(Enqueue(q, t))
           /\ \A u \in Tasks : Queued(Enqueue(q, t), u) => u = t \/ Queued(q, u)
<1> DEFINE e == [task |-> t, lease |-> NoLease]
           r == Append(q, e)
<1>1. e \in Entry /\ e.task = t
  BY DEF Entry
<1> HIDE DEF e
<1>2. /\ r \in Seq(Entry)
      /\ Len(r) = Len(q) + 1
      /\ \A k \in 1 .. Len(q) : r[k] = q[k]
      /\ r[Len(q) + 1] = e
  BY <1>1, AppendProperties
<1>3. Enqueue(q, t) = r
  BY DEF Enqueue, e
<1> HIDE DEF r
<1>4. ASSUME NoDuplicates(q), CanEnqueue(q, t) PROVE NoDuplicates(r)
  <2>1. DOMAIN q = 1 .. Len(q) /\ DOMAIN r = 1 .. Len(q) + 1 /\ Len(q) \in Nat
    BY <1>2, LenProperties
  <2>2. \A k \in 1 .. Len(q) : q[k].task # t
    BY <1>4, <2>1 DEF CanEnqueue, Queued
  <2>3. SUFFICES ASSUME NEW i \in 1 .. Len(q) + 1, NEW j \in 1 .. Len(q) + 1,
                        r[i].task = r[j].task
                 PROVE  i = j
    BY <2>1 DEF NoDuplicates
  <2>4. CASE i \in 1 .. Len(q) /\ j \in 1 .. Len(q)
    BY <1>2, <1>4, <2>1, <2>3, <2>4 DEF NoDuplicates
  <2>5. CASE i \in 1 .. Len(q) /\ j = Len(q) + 1
    BY <1>1, <1>2, <2>2, <2>3, <2>5
  <2>6. CASE i = Len(q) + 1 /\ j \in 1 .. Len(q)
    BY <1>1, <1>2, <2>2, <2>3, <2>6
  <2> QED BY <2>1, <2>4, <2>5, <2>6
<1>5. \A u \in Tasks : Queued(r, u) => u = t \/ Queued(q, u)
  <2>1. DOMAIN q = 1 .. Len(q) /\ DOMAIN r = 1 .. Len(q) + 1 /\ Len(q) \in Nat
    BY <1>2, LenProperties
  <2> QED BY <1>1, <1>2, <2>1 DEF Queued
<1> QED BY <1>2, <1>3, <1>4, <1>5

LEMMA RemoveKeeps ==
    ASSUME NEW q \in Seq(Entry), NEW i \in DOMAIN q
    PROVE  /\ RemoveAt(q, i) \in Seq(Entry)
           /\ NoDuplicates(q) => NoDuplicates(RemoveAt(q, i))
           /\ ListsOf(RemoveAt(q, i), q)
<1> DEFINE r == RemoveAt(q, i)
<1>1. DOMAIN q = 1 .. Len(q) /\ Len(q) \in Nat
  BY LenProperties
<1>2. /\ r \in Seq(Entry)
      /\ Len(r) = Len(q) - 1
      /\ \A k \in 1 .. Len(q) - 1 : r[k] = IF k < i THEN q[k] ELSE q[k + 1]
  BY <1>1, RemoveAtElements
<1> HIDE DEF r
<1>3. DOMAIN r = 1 .. Len(q) - 1
  BY <1>2, LenProperties
<1>4. ASSUME NoDuplicates(q) PROVE NoDuplicates(r)
  <2> DEFINE from(k) == IF k < i THEN k ELSE k + 1
  <2>1. SUFFICES ASSUME NEW k \in 1 .. Len(q) - 1, NEW l \in 1 .. Len(q) - 1,
                        r[k].task = r[l].task
                 PROVE  k = l
    BY <1>3 DEF NoDuplicates
  <2>2. from(k) \in DOMAIN q /\ from(l) \in DOMAIN q
    BY <1>1
  <2>3. r[k] = q[from(k)] /\ r[l] = q[from(l)]
    BY <1>2
  <2>4. from(k) = from(l)
    BY <1>4, <2>1, <2>2, <2>3 DEF NoDuplicates
  <2> QED BY <1>1, <2>4
<1>5. ListsOf(r, q)
  BY <1>1, <1>2, <1>3 DEF ListsOf, Queued
<1> QED BY <1>2, <1>4, <1>5 DEF r

LEMMA CommitKeeps ==
    ASSUME NEW q \in Seq(Entry), q # <<>>
    PROVE  /\ Commit(q) \in Seq(Entry)
           /\ NoDuplicates(q) => NoDuplicates(Commit(q))
           /\ ListsOf(Commit(q), q)
<1>1. DOMAIN q = 1 .. Len(q) /\ Len(q) \in Nat \ {0}
  BY LenProperties, EmptySeq
<1>2. /\ Tail(q) \in Seq(Entry)
      /\ Len(Tail(q)) = Len(q) - 1
      /\ \A k \in 1 .. Len(q) - 1 : Tail(q)[k] = q[k + 1]
  BY HeadTailProperties
<1>3. DOMAIN Tail(q) = 1 .. Len(q) - 1
  BY <1>2, LenProperties
<1>4. ASSUME NoDuplicates(q), NEW k \in 1 .. Len(q) - 1, NEW l \in 1 .. Len(q) - 1,
             Tail(q)[k].task = Tail(q)[l].task
      PROVE  k = l
  <2>1. k + 1 \in DOMAIN q /\ l + 1 \in DOMAIN q
    BY <1>1
  <2>2. k + 1 = l + 1
    BY <1>2, <1>4, <2>1 DEF NoDuplicates
  <2> QED BY <2>2
<1>5. ListsOf(Tail(q), q)
  BY <1>1, <1>2, <1>3 DEF ListsOf, Queued
<1> QED BY <1>2, <1>3, <1>4, <1>5 DEF Commit, NoDuplicates

\* A queue with every task where it was is as free of duplicates as before.
LEMMA SameTasks ==
    ASSUME NEW q, NEW r, DOMAIN r = DOMAIN q, \A k \in DOMAIN q : r[k].task = q[k].task
    PROVE  /\ NoDuplicates(q) => NoDuplicates(r)
           /\ ListsOf(r, q)
BY DEF NoDuplicates, ListsOf, Queued

LEMMA AcquireKeeps ==
    ASSUME NEW q \in Seq(Entry), q # <<>>, NEW p \in Procs
    PROVE  /\ q[1].task \in Tasks
           /\ Acquire(q, p) \in Seq(Entry)
           /\ NoDuplicates(q) => NoDuplicates(Acquire(q, p))
           /\ ListsOf(Acquire(q, p), q)
<1> DEFINE r == Acquire(q, p)
           e == [q[1] EXCEPT !.lease = [owner |-> p, expired |-> FALSE]]
<1>1. DOMAIN q = 1 .. Len(q) /\ Len(q) \in Nat \ {0} /\ q[1] \in Entry
  BY LenProperties, EmptySeq, ElementOfSeq
<1>2. e \in Entry /\ e.task = q[1].task
  BY <1>1 DEF Entry, Lease
<1>3. r = [q EXCEPT ![1] = e]
  BY DEF Acquire
<1> HIDE DEF e, r
<1>4. r \in Seq(Entry) /\ DOMAIN r = DOMAIN q
  BY <1>1, <1>2, <1>3, ExceptSeq
<1>5. \A k \in DOMAIN q : r[k].task = q[k].task
  BY <1>2, <1>3
<1>6. (NoDuplicates(q) => NoDuplicates(r)) /\ ListsOf(r, q)
  BY <1>4, <1>5, SameTasks
<1>7. q[1].task \in Tasks
  BY <1>1 DEF Entry
<1> QED BY <1>4, <1>6, <1>7 DEF r

LEMMA ReleaseKeeps ==
    ASSUME NEW q \in Seq(Entry), NEW t, NEW p
    PROVE  /\ Release(q, t, p) \in Seq(Entry)
           /\ NoDuplicates(q) => NoDuplicates(Release(q, t, p))
           /\ ListsOf(Release(q, t, p), q)
<1> DEFINE r == Release(q, t, p)
<1>1. DOMAIN q = 1 .. Len(q) /\ Len(q) \in Nat
  BY LenProperties
<1>2. \A k \in 1 .. Len(q) : q[k] \in Entry
  BY ElementOfSeq
<1>3. ASSUME NEW k \in 1 .. Len(q) PROVE r[k] \in Entry /\ r[k].task = q[k].task
  <2>1. [q[k] EXCEPT !.lease = NoLease] \in Entry
        /\ [q[k] EXCEPT !.lease = NoLease].task = q[k].task
    BY <1>2 DEF Entry
  <2> QED BY <1>1, <1>2, <2>1 DEF Release
<1>4. DOMAIN r = DOMAIN q /\ r \in [1 .. Len(q) -> Entry]
  BY <1>1, <1>3 DEF Release
<1>5. r \in Seq(Entry)
  BY <1>1, <1>4, IsSeq
<1>6. (NoDuplicates(q) => NoDuplicates(r)) /\ ListsOf(r, q)
  BY <1>1, <1>3, <1>4, SameTasks
<1> QED BY <1>5, <1>6

LEMMA ExpireKeeps ==
    ASSUME NEW q \in Seq(Entry), q # <<>>, q[1].lease # NoLease
    PROVE  /\ Expire(q, 1) \in Seq(Entry)
           /\ NoDuplicates(q) => NoDuplicates(Expire(q, 1))
           /\ ListsOf(Expire(q, 1), q)
<1> DEFINE r == Expire(q, 1)
           e == [q[1] EXCEPT !.lease.expired = TRUE]
<1>1. DOMAIN q = 1 .. Len(q) /\ Len(q) \in Nat \ {0} /\ q[1] \in Entry
  BY LenProperties, EmptySeq, ElementOfSeq
<1>2. e \in Entry /\ e.task = q[1].task
  <2>1. q[1].lease \in Lease
    BY <1>1 DEF Entry
  <2>2. [q[1].lease EXCEPT !.expired = TRUE] \in Lease
    BY <2>1 DEF Lease
  <2> QED BY <1>1, <2>2 DEF Entry
<1>3. r = [q EXCEPT ![1] = e]
  BY DEF Expire
<1> HIDE DEF e, r
<1>4. r \in Seq(Entry) /\ DOMAIN r = DOMAIN q
  BY <1>1, <1>2, <1>3, ExceptSeq
<1>5. \A k \in DOMAIN q : r[k].task = q[k].task
  BY <1>2, <1>3
<1>6. (NoDuplicates(q) => NoDuplicates(r)) /\ ListsOf(r, q)
  BY <1>4, <1>5, SameTasks
<1> QED BY <1>4, <1>6 DEF r

\* Reorder is a permutation: position k of the result is position Source(k) of
\* the queue, and Source is injective.
LEMMA ReorderKeeps ==
    ASSUME NEW q \in Seq(Entry), NEW i \in 1 .. Len(q), NEW j \in 1 .. Len(q)
    PROVE  /\ Reorder(q, i, j) \in Seq(Entry)
           /\ NoDuplicates(q) => NoDuplicates(Reorder(q, i, j))
           /\ ListsOf(Reorder(q, i, j), q)
<1> DEFINE a == RemoveAt(q, i)
           e == q[i]
           r == InsertAt(a, j, e)
           source(k) == LET l == IF k < j THEN k ELSE k - 1
                        IN  IF k = j THEN i ELSE IF l < i THEN l ELSE l + 1
<1>1. DOMAIN q = 1 .. Len(q) /\ Len(q) \in Nat /\ q[i] \in Entry
  BY LenProperties, ElementOfSeq
<1>2. /\ a \in Seq(Entry)
      /\ Len(a) = Len(q) - 1
      /\ \A k \in 1 .. Len(q) - 1 : a[k] = IF k < i THEN q[k] ELSE q[k + 1]
  BY <1>1, RemoveAtElements
<1> HIDE DEF a
<1>3. /\ r \in Seq(Entry)
      /\ Len(r) = Len(a) + 1
      /\ \A k \in 1 .. j - 1 : r[k] = a[k]
      /\ r[j] = e
      /\ \A k \in j + 1 .. Len(a) + 1 : r[k] = a[k - 1]
  <2>1. j \in 1 .. Len(a) + 1 /\ e \in Entry /\ a \in Seq(Entry)
    BY <1>1, <1>2
  <2> HIDE DEF e
  <2>2. /\ InsertAt(a, j, e) \in Seq(Entry)
        /\ Len(InsertAt(a, j, e)) = Len(a) + 1
        /\ \A k \in 1 .. j - 1 : InsertAt(a, j, e)[k] = a[k]
        /\ InsertAt(a, j, e)[j] = e
        /\ \A k \in j + 1 .. Len(a) + 1 : InsertAt(a, j, e)[k] = a[k - 1]
    BY <2>1, InsertAtElements
  <2> QED BY <2>2
<1> HIDE DEF r
<1>4. DOMAIN r = 1 .. Len(q)
  BY <1>1, <1>2, <1>3, LenProperties
<1>5. ASSUME NEW k \in 1 .. Len(q)
      PROVE  source(k) \in 1 .. Len(q) /\ r[k] = q[source(k)]
  <2>1. CASE k < j
    <3>1. r[k] = a[k] /\ k \in 1 .. Len(q) - 1
      BY <1>1, <1>2, <1>3, <2>1
    <3> QED BY <1>1, <1>2, <2>1, <3>1
  <2>2. CASE k = j
    BY <1>1, <1>2, <1>3, <2>2
  <2>3. CASE k > j
    <3>1. r[k] = a[k - 1] /\ k - 1 \in 1 .. Len(q) - 1
      BY <1>1, <1>2, <1>3, <2>3
    <3>2. a[k - 1] = IF k - 1 < i THEN q[k - 1] ELSE q[k]
      BY <1>2, <3>1
    <3> QED BY <1>1, <2>3, <3>1, <3>2
  <2> QED BY <1>1, <2>1, <2>2, <2>3
<1>6. ASSUME NEW k \in 1 .. Len(q), NEW l \in 1 .. Len(q), source(k) = source(l)
      PROVE  k = l
  BY <1>1, <1>6
<1> HIDE DEF source
<1>7. NoDuplicates(q) => NoDuplicates(r)
  <2>1. SUFFICES ASSUME NoDuplicates(q), NEW k \in 1 .. Len(q), NEW l \in 1 .. Len(q),
                        r[k].task = r[l].task
                 PROVE  k = l
    BY <1>4 DEF NoDuplicates
  <2>2. source(k) \in DOMAIN q /\ source(l) \in DOMAIN q
    BY <1>1, <1>5
  <2>3. q[source(k)].task = q[source(l)].task
    BY <1>5, <2>1
  <2>4. source(k) = source(l)
    BY <2>1, <2>2, <2>3 DEF NoDuplicates
  <2> QED BY <1>6, <2>4
<1>8. ListsOf(r, q)
  BY <1>1, <1>4, <1>5 DEF ListsOf, Queued
<1> QED BY <1>3, <1>7, <1>8 DEF Reorder, r, a, e

USE DEF At

-----------------------------------------------------------------------------
(* Type correctness.  TypeOK is not inductive by itself: an invocation has   *)
(* to have a task wherever it writes one into a queue or into the live runs. *)

\* Where an invocation may not have a task yet.
Unbound == {"ready", "start", "snapshot", "consider", "lease"}

Bound == {c \in Process : c.pc \in Unbound \/ c.t \in Tasks}

TypeInv ==
    /\ state \in [Workers -> WorkerState]
    /\ task \in [Tasks -> Task]
    /\ queue \in [Workers -> Seq(Entry)]
    /\ claim \in [Worktrees -> {Free, Stale} \cup Procs \cup (Tasks \X Nat)]
    /\ live \subseteq Run
    /\ procs \in [Procs -> Bound]
    /\ crashes \in Nat

LEMMA RecordsTyped ==
    /\ NewState \in WorkerState
    /\ Absent \in Task
    /\ Ready \in Bound
    /\ Ready.pc = "ready" /\ Ready.w = 1 /\ Ready.st = NewState
    /\ Ready.snap = [w \in Workers |-> NewState]
<1>1. 1 \in Workers
  BY WorkersAssumption DEF Workers
<1>2. NewState \in WorkerState
  BY DEF NewState, WorkerState, Lifecycle
<1>3. Absent \in Task
  BY <1>1 DEF Absent, Task
<1>4. Ready \in Process
  BY <1>1, <1>2 DEF Ready, Process, Pc, Outcome
<1> QED BY <1>2, <1>3, <1>4 DEF Ready, Bound, Unbound

LEMMA BecomesTyped ==
    ASSUME procs \in [Procs -> Bound], NEW p \in Procs, NEW new \in Bound,
           Becomes(p, new)
    PROVE  procs' \in [Procs -> Bound]
BY DEF Becomes

LEMMA GotoTyped ==
    ASSUME procs \in [Procs -> Bound], NEW p \in Procs, NEW pc \in Pc,
           pc \in Unbound \/ procs[p].t \in Tasks, Goto(p, pc)
    PROVE  procs' \in [Procs -> Bound]
<1>1. [procs[p] EXCEPT !.pc = pc] \in Bound
  BY DEF Bound, Process
<1> QED BY <1>1, BecomesTyped DEF Goto

LEMMA ReturnTyped ==
    ASSUME procs \in [Procs -> Bound], NEW p \in Procs, Return(p)
    PROVE  procs' \in [Procs -> Bound]
BY RecordsTyped, BecomesTyped DEF Return

LEMMA BeginTyped ==
    ASSUME procs \in [Procs -> Bound], NEW p \in Procs, NEW cmd, NEW pc \in Pc,
           NEW w \in Workers, NEW t \in Tasks \cup {NoTask}, NEW st \in WorkerState,
           pc \in Unbound \/ t \in Tasks, Begin(p, cmd, pc, w, t, st)
    PROVE  procs' \in [Procs -> Bound]
<1>1. cmd \in Command
  BY CommandsAssumption DEF Begin
<1>2. [Ready EXCEPT !.op = cmd, !.pc = pc, !.w = w, !.t = t, !.st = st] \in Bound
  BY <1>1, RecordsTyped DEF Bound, Process
<1> QED BY <1>2, BecomesTyped DEF Begin

LEMMA SavedTyped ==
    ASSUME NEW new \in WorkerState
    PROVE  Saved(new) \in WorkerState /\ Saved(new).rev = new.rev + 1
BY DEF Saved, WorkerState

LEMMA SaveTyped ==
    ASSUME procs \in [Procs -> Bound], state \in [Workers -> WorkerState],
           NEW p \in Procs, NEW new \in WorkerState, NEW pc \in Pc,
           pc \in Unbound \/ procs[p].t \in Tasks, Save(p, new, pc)
    PROVE  procs' \in [Procs -> Bound] /\ state' \in [Workers -> WorkerState]
<1>1. [procs[p] EXCEPT !.st = Saved(new), !.pc = pc] \in Bound
  BY SavedTyped DEF Bound, Process
<1> QED BY <1>1, SavedTyped, BecomesTyped DEF Save

LEMMA SaveLastTyped ==
    ASSUME procs \in [Procs -> Bound], state \in [Workers -> WorkerState],
           NEW p \in Procs, NEW new \in WorkerState, SaveLast(p, new)
    PROVE  procs' \in [Procs -> Bound] /\ state' \in [Workers -> WorkerState]
BY SavedTyped, ReturnTyped DEF SaveLast

\* What a step may assume of the invocation that takes it.
LEMMA ProcTyped ==
    ASSUME TypeInv, NEW p \in Procs
    PROVE  /\ procs[p] \in Process
           /\ procs[p].w \in Workers
           /\ procs[p].st \in WorkerState
           /\ procs[p].status \in TaskStatus \cup {"absent"}
           /\ procs[p].t \in Tasks \cup {NoTask}
           /\ procs[p].snap \in [Workers -> WorkerState]
           /\ procs[p].pc \in Unbound \/ procs[p].t \in Tasks
BY DEF TypeInv, Bound, Process

LEMMA SetTaskTyped ==
    ASSUME task \in [Tasks -> Task], NEW t, NEW new, t \in Tasks => new \in Task,
           SetTask(t, new)
    PROVE  task' \in [Tasks -> Task]
BY DEF SetTask

LEMMA SetStatusTyped ==
    ASSUME task \in [Tasks -> Task], NEW t, NEW status \in TaskStatus \cup {"absent"},
           SetControlStatus(t, status)
    PROVE  task' \in [Tasks -> Task]
<1>1. t \in Tasks => [task[t] EXCEPT !.status = status] \in Task
  BY DEF Task
<1> QED BY <1>1, SetTaskTyped DEF SetControlStatus

LEMMA ReplaceLastTyped ==
    ASSUME NEW S, NEW s \in Seq(S), NEW e \in S
    PROVE  ReplaceLast(s, e) \in Seq(S)
<1>1. s = <<>> \/ Len(s) \in 1 .. Len(s)
  BY EmptySeq, LenProperties
<1>2. CASE s = <<>>
  <2>1. ReplaceLast(s, e) = s
    BY <1>2, LenProperties DEF ReplaceLast
  <2> QED BY <2>1
<1>3. CASE Len(s) \in 1 .. Len(s)
  BY <1>3, ExceptSeq DEF ReplaceLast
<1> QED BY <1>1, <1>2, <1>3

LEMMA BecameTyped ==
    ASSUME NEW st \in WorkerState, NEW life \in Lifecycle
    PROVE  Became(st, life) \in WorkerState /\ Vacant(st) \in WorkerState
BY DEF Became, Vacant, WorkerState

LEMMA ReleasedTyped ==
    ASSUME TypeInv, NEW p \in Procs
    PROVE  Released(p) \in [Worktrees -> {Free, Stale} \cup Procs \cup (Tasks \X Nat)]
BY DEF Released, TypeInv

-----------------------------------------------------------------------------
LEMMA StartTyped ==
    ASSUME TypeInv, NEW p \in Procs, StartStep(p), UNCHANGED crashes
    PROVE  TypeInv'
<1> USE ProcTyped
<1>1. CASE StartLoadState(p)
  <2> DEFINE st == state[procs[p].w]
             new == [procs[p] EXCEPT !.st = st, !.t = st.active, !.pc = "restore"]
  <2>1. CASE Becomes(p, new) /\ st.active # NoTask
    <3>1. st \in WorkerState /\ st.active \in Tasks
      BY <2>1 DEF TypeInv, WorkerState
    <3> HIDE DEF st
    <3>2. "restore" \in Pc
      BY DEF Pc
    <3>3. new \in Bound
      BY <3>1, <3>2 DEF Bound, Process
    <3> QED BY <1>1, <2>1, <3>3, BecomesTyped DEF TypeInv, StartLoadState
  <2>2. CASE Return(p)
    BY <1>1, <2>2, ReturnTyped DEF TypeInv, StartLoadState
  <2> QED BY <1>1, <2>1, <2>2 DEF StartLoadState
<1>2. CASE StartLoadTask(p)
  BY <1>2, ReturnTyped, GotoTyped DEF TypeInv, StartLoadTask, Pc, Unbound
<1>3. CASE ClaimWorktree(p)
  BY <1>3, ReturnTyped, GotoTyped DEF TypeInv, ClaimWorktree, Pc, Unbound
<1>4. CASE SaveLocation(p)
  BY <1>4, SaveTyped DEF TypeInv, SaveLocation, Pc, Unbound
<1>5. CASE StartFails(p)
  BY <1>5, ReturnTyped, ReleasedTyped DEF TypeInv, StartFails
<1>6. CASE Depart(p)
  <2>1. Became(procs[p].st, "starting") \in WorkerState
    BY BecameTyped DEF Lifecycle
  <2> QED BY <1>6, <2>1, SaveTyped DEF TypeInv, Depart, Pc, Unbound
<1>7. CASE Launch(p)
  <2>1. PICK out \in Outcome \ {"none"} :
           /\ Becomes(p, [procs[p] EXCEPT !.out = out, !.pc = "record"])
           /\ live' = IF out = "async" THEN live \cup {ThisRun(p)} ELSE live
    BY <1>7 DEF Launch
  <2>2. procs[p].t \in Tasks
    BY <1>7 DEF Launch, Unbound
  <2>3. [procs[p] EXCEPT !.out = out, !.pc = "record"] \in Bound
    <3>1. "record" \in Pc /\ out \in Outcome
      BY DEF Pc
    <3> QED BY <2>2, <3>1 DEF Bound, Process
  <2>4. ThisRun(p) \in Run
    <3>1. Len(task[procs[p].t].attempts) \in Nat
      BY <2>2, LenProperties DEF TypeInv, Task
    <3> QED BY <2>2, <3>1 DEF ThisRun, Run
  <2> QED BY <1>7, <2>1, <2>3, <2>4, BecomesTyped DEF TypeInv, Launch
<1>8. CASE RecordAttempt(p)
  <2> DEFINE t == procs[p].t
             failed == procs[p].out = "error"
             attempts == Append(task[t].attempts,
                                IF failed THEN "launch_failed" ELSE "executing")
             status == IF failed THEN "failed" ELSE task[t].status
             new == [task[t] EXCEPT !.attempts = attempts, !.status = status]
  <2>1. ASSUME t \in Tasks PROVE new \in Task
    <3>1. task[t] \in Task
      BY <2>1 DEF TypeInv
    <3>2. attempts \in Seq(Disposition)
      BY <3>1, AppendProperties DEF Task, Disposition
    <3>3. status \in TaskStatus \cup {"absent"}
      BY <3>1 DEF Task, TaskStatus
    <3> HIDE DEF attempts, status
    <3> QED BY <3>1, <3>2, <3>3 DEF Task
  <2>2. SetTask(t, new) /\ Goto(p, "settle")
    BY <1>8 DEF RecordAttempt
  <2> HIDE DEF new
  <2> QED BY <1>8, <2>1, <2>2, SetTaskTyped, GotoTyped DEF TypeInv, RecordAttempt, Pc, Unbound
<1>9. CASE SettleFailed(p)
  <2> DEFINE run == IF procs[p].out = "norun" THEN 0 ELSE Len(task[procs[p].t].attempts)
  <2>1. procs[p].t \in Tasks
    BY <1>9 DEF SettleFailed, Unbound
  <2>2. run \in Nat
    BY <2>1, LenProperties DEF TypeInv, Task
  <2> HIDE DEF run
  <2>3. [procs[p].st EXCEPT !.life = "failed", !.run = run] \in WorkerState
    BY <2>2 DEF WorkerState, Lifecycle
  <2>4. SaveLast(p, [procs[p].st EXCEPT !.life = "failed", !.run = run])
    BY <1>9 DEF SettleFailed, run
  <2> QED BY <1>9, <2>3, <2>4, SaveLastTyped, ReleasedTyped DEF TypeInv, SettleFailed
<1>10. CASE TransferClaim(p)
  <2>1. procs[p].t \in Tasks
    BY <1>10 DEF TransferClaim, Unbound
  <2>2. <<procs[p].t, Len(task[procs[p].t].attempts)>> \in Tasks \X Nat
    BY <2>1, LenProperties DEF TypeInv, Task
  <2>3. Goto(p, "ascend")
    BY <1>10 DEF TransferClaim
  <2> QED BY <1>10, <2>1, <2>2, <2>3, GotoTyped DEF TypeInv, TransferClaim, Pc
<1>11. CASE Ascend(p)
  <2> DEFINE new == [procs[p].st EXCEPT !.life = "executing",
                                        !.run = Len(task[procs[p].t].attempts)]
  <2>1. procs[p].t \in Tasks
    BY <1>11 DEF Ascend, Unbound
  <2>2. Len(task[procs[p].t].attempts) \in Nat
    BY <2>1, LenProperties DEF TypeInv, Task
  <2>3. new \in WorkerState
    BY <2>2 DEF WorkerState, Lifecycle
  <2>4. Save(p, new, "check") \/ SaveLast(p, new)
    BY <1>11 DEF Ascend
  <2> HIDE DEF new
  <2> QED BY <1>11, <2>1, <2>3, <2>4, SaveTyped, SaveLastTyped DEF TypeInv, Ascend, Pc
<1>12. CASE CheckCompletion(p)
  <2>1. Became(procs[p].st, "blocked") \in WorkerState
    BY BecameTyped DEF Lifecycle
  <2> QED BY <1>12, <2>1, ReturnTyped, SaveLastTyped DEF TypeInv, CheckCompletion
<1>13. CASE StartConflict(p)
  BY <1>13, ReturnTyped, ReleasedTyped DEF TypeInv, StartConflict
<1> QED BY <1>1, <1>2, <1>3, <1>4, <1>5, <1>6, <1>7, <1>8, <1>9, <1>10, <1>11, <1>12, <1>13
        DEF StartStep

LEMMA IntakeTyped ==
    ASSUME TypeInv, NEW p \in Procs, IntakeStep(p), UNCHANGED crashes
    PROVE  TypeInv'
<1> USE ProcTyped
<1>1. CASE CreateTask(p)
  <2> DEFINE direct == procs[p].op = "assign" /\ procs[p].st.active = NoTask
             status == IF direct THEN "assigned" ELSE "pending"
             pc == IF direct THEN "activate" ELSE "queue"
             new == [Absent EXCEPT !.status = status, !.owner = procs[p].w]
  <2>1. status \in TaskStatus /\ pc \in Pc
    BY DEF TaskStatus, Pc
  <2>2. (SetTask(procs[p].t, new) /\ Goto(p, pc)) \/ (Return(p) /\ UNCHANGED task)
    BY <1>1 DEF CreateTask
  <2> HIDE DEF status, pc
  <2>3. new \in Task
    BY <2>1, RecordsTyped DEF Task
  <2>4. procs[p].t \in Tasks
    BY <1>1 DEF CreateTask, Unbound
  <2> HIDE DEF new
  <2> QED BY <1>1, <2>1, <2>2, <2>3, <2>4, SetTaskTyped, GotoTyped, ReturnTyped
          DEF CreateTask, TypeInv
<1>2. CASE EnqueueTask(p)
  <2>1. procs[p].t \in Tasks
    BY <1>2 DEF EnqueueTask, Unbound
  <2>2. queue' \in [Workers -> Seq(Entry)]
    <3> DEFINE w == procs[p].w
    <3>1. queue[w] \in Seq(Entry)
      BY DEF TypeInv
    <3>2. Enqueue(queue[w], procs[p].t) \in Seq(Entry)
      BY <2>1, <3>1, EnqueueKeeps
    <3> QED BY <1>2, <3>2 DEF EnqueueTask, TypeInv
  <2> QED BY <1>2, <2>1, <2>2, GotoTyped, ReturnTyped DEF EnqueueTask, TypeInv, Pc
<1>3. CASE ActivateTask(p)
  <2>1. procs[p].t \in Tasks
    BY <1>3 DEF ActivateTask, Unbound
  <2>2. [procs[p].st EXCEPT !.active = procs[p].t] \in WorkerState
    BY <2>1 DEF WorkerState
  <2> QED BY <1>3, <2>1, <2>2, SaveLastTyped, GotoTyped DEF ActivateTask, TypeInv, Pc
<1>4. CASE RollbackTask(p)
  BY <1>4, RecordsTyped, SetTaskTyped, ReturnTyped DEF RollbackTask, TypeInv
<1> QED BY <1>1, <1>2, <1>3, <1>4 DEF IntakeStep

LEMMA NextWorkerTyped ==
    ASSUME TypeInv, NEW p \in Procs, NextWorker(p)
    PROVE  procs' \in [Procs -> Bound]
<1>1. CASE procs[p].w < NumWorkers
  <2>1. procs[p].w + 1 \in Workers
    BY <1>1, ProcTyped, WorkersAssumption DEF Workers
  <2>2. "consider" \in Pc /\ "consider" \in Unbound
    BY DEF Pc, Unbound
  <2>3. [procs[p] EXCEPT !.w = procs[p].w + 1, !.pc = "consider"] \in Bound
    BY <2>1, <2>2, ProcTyped DEF Bound, Process
  <2> QED BY <1>1, <2>3, BecomesTyped DEF NextWorker, TypeInv
<1> QED BY <1>1, ReturnTyped DEF NextWorker, TypeInv

LEMMA ScheduleTyped ==
    ASSUME TypeInv, NEW p \in Procs, ScheduleStep(p), UNCHANGED crashes
    PROVE  TypeInv'
<1> USE ProcTyped
<1>1. CASE SnapshotWorker(p)
  <2> DEFINE w == procs[p].w
             snap == [procs[p].snap EXCEPT ![w] = state[w]]
  <2>1. snap \in [Workers -> WorkerState]
    BY DEF TypeInv
  <2> HIDE DEF snap
  <2>2. 1 \in Workers /\ (w < NumWorkers => w + 1 \in Workers)
    BY WorkersAssumption DEF Workers
  <2>3. "consider" \in Pc /\ "consider" \in Unbound /\ "snapshot" \in Unbound
    BY DEF Pc, Unbound
  <2>4. /\ [procs[p] EXCEPT !.snap = snap, !.w = 1, !.pc = "consider"] \in Bound
        /\ w < NumWorkers => [procs[p] EXCEPT !.snap = snap, !.w = w + 1] \in Bound
    BY <1>1, <2>1, <2>2, <2>3 DEF Bound, Process, SnapshotWorker
  <2>5. \/ w < NumWorkers /\ Becomes(p, [procs[p] EXCEPT !.snap = snap, !.w = w + 1])
        \/ Return(p)
        \/ Becomes(p, [procs[p] EXCEPT !.snap = snap, !.w = 1, !.pc = "consider"])
    BY <1>1 DEF SnapshotWorker, snap
  <2>6. procs' \in [Procs -> Bound]
    BY <2>4, <2>5, BecomesTyped, ReturnTyped DEF TypeInv
  <2> QED BY <1>1, <2>6 DEF SnapshotWorker, TypeInv
<1>2. CASE ConsiderWorker(p)
  BY <1>2, NextWorkerTyped, GotoTyped DEF ConsiderWorker, TypeInv, Pc, Unbound
<1>3. CASE LeaseHead(p)
  <2> DEFINE w == procs[p].w
             new == [procs[p] EXCEPT !.t = queue[w][1].task, !.pc = "inspect"]
  <2>1. CASE CanAcquire(queue[w])
    <3>1. queue[w] # <<>> /\ queue[w] \in Seq(Entry)
      BY <2>1 DEF CanAcquire, TypeInv
    <3>2. queue[w][1].task \in Tasks /\ Acquire(queue[w], p) \in Seq(Entry)
      BY <3>1, AcquireKeeps
    <3>3. "inspect" \in Pc
      BY DEF Pc
    <3>4. new \in Bound
      BY <3>2, <3>3 DEF Bound, Process
    <3>5. Becomes(p, new)
      BY <1>3, <2>1 DEF LeaseHead
    <3> HIDE DEF new
    <3>6. procs' \in [Procs -> Bound]
      BY <3>4, <3>5, BecomesTyped DEF TypeInv
    <3>7. queue' \in [Workers -> Seq(Entry)]
      BY <1>3, <2>1, <3>2 DEF LeaseHead, TypeInv
    <3> QED BY <1>3, <3>6, <3>7 DEF LeaseHead, TypeInv
  <2>2. CASE ~CanAcquire(queue[w])
    BY <1>3, <2>2, NextWorkerTyped, ReturnTyped DEF LeaseHead, TypeInv
  <2> QED BY <2>1, <2>2
<1>4. CASE InspectTask(p)
  <2>1. procs[p].t \in Tasks
    BY <1>4 DEF InspectTask, Unbound
  <2> QED BY <1>4, <2>1, GotoTyped DEF InspectTask, TypeInv, Pc
<1>5. CASE GiveLeaseBack(p)
  <2>1. queue' \in [Workers -> Seq(Entry)]
    BY <1>5, ReleaseKeeps DEF GiveLeaseBack, TypeInv
  <2>2. procs' \in [Procs -> Bound]
    BY <1>5, NextWorkerTyped, ReturnTyped DEF GiveLeaseBack, TypeInv
  <2> QED BY <1>5, <2>1, <2>2 DEF GiveLeaseBack, TypeInv
<1>6. CASE ReserveWorker(p)
  <2> DEFINE w == procs[p].w
             copy == procs[p].snap[w]
             new == [copy EXCEPT !.active = procs[p].t]
  <2>1. procs[p].t \in Tasks
    BY <1>6 DEF ReserveWorker, Unbound
  <2>2. copy \in WorkerState
    OBVIOUS
  <2>3. new \in WorkerState
    BY <2>1, <2>2 DEF WorkerState
  <2>4. state' = [state EXCEPT ![w] = Saved(new)] \/ UNCHANGED state
    BY <1>6 DEF ReserveWorker
  <2> HIDE DEF new
  <2> QED BY <1>6, <2>1, <2>3, <2>4, SavedTyped, GotoTyped DEF ReserveWorker, TypeInv, Pc
<1>7. CASE MarkAssigned(p)
  <2>1. procs[p].t \in Tasks
    BY <1>7 DEF MarkAssigned, Unbound
  <2> QED BY <1>7, <2>1, SetStatusTyped, GotoTyped, ReturnTyped
          DEF MarkAssigned, TypeInv, Pc, TaskStatus
<1>8. CASE CommitLease(p)
  <2>1. queue' \in [Workers -> Seq(Entry)]
    <3> DEFINE q == queue[procs[p].w]
    <3>1. q \in Seq(Entry)
      BY DEF TypeInv
    <3>2. CASE q # <<>>
      BY <1>8, <3>1, <3>2, CommitKeeps DEF CommitLease, TypeInv
    <3>3. CASE q = <<>>
      BY <1>8, <3>3 DEF CommitLease, TypeInv, CanCommit
    <3> QED BY <3>2, <3>3
  <2> QED BY <1>8, <2>1, GotoTyped, ReturnTyped DEF CommitLease, TypeInv, Pc, Unbound
<1> QED BY <1>1, <1>2, <1>3, <1>4, <1>5, <1>6, <1>7, <1>8 DEF ScheduleStep

LEMMA ControlTyped ==
    ASSUME TypeInv, NEW p \in Procs, ControlStep(p), UNCHANGED crashes
    PROVE  TypeInv'
<1> USE ProcTyped
<1>1. CASE StopRun(p)
  BY <1>1, GotoTyped DEF StopRun, TypeInv, Pc, Unbound
<1>2. CASE SuspendTask(p)
  <2> DEFINE t == procs[p].t
             attempts == IF task[t].attempts = <<>> THEN task[t].attempts
                         ELSE ReplaceLast(task[t].attempts, "paused")
             new == [task[t] EXCEPT !.status = "paused", !.attempts = attempts]
  <2>1. ASSUME t \in Tasks PROVE new \in Task
    <3>1. task[t] \in Task
      BY <2>1 DEF TypeInv
    <3>2. attempts \in Seq(Disposition)
      BY <3>1, ReplaceLastTyped DEF Task, Disposition
    <3> HIDE DEF attempts
    <3> QED BY <3>1, <3>2 DEF Task, TaskStatus
  <2>2. SetTask(t, new) /\ Goto(p, "rest")
    BY <1>2 DEF SuspendTask
  <2> HIDE DEF new
  <2> QED BY <1>2, <2>1, <2>2, SetTaskTyped, GotoTyped DEF SuspendTask, TypeInv, Pc, Unbound
<1>3. CASE PauseWorker(p)
  <2>1. Became(procs[p].st, "paused") \in WorkerState
    BY BecameTyped DEF Lifecycle
  <2> QED BY <1>3, <2>1, SaveTyped, SaveLastTyped DEF PauseWorker, TypeInv, Pc, Unbound
<1>4. CASE WakeWorker(p)
  <2>1. Became(procs[p].st, "idle") \in WorkerState
    BY BecameTyped DEF Lifecycle
  <2> QED BY <1>4, <2>1, SaveTyped DEF WakeWorker, TypeInv, Pc, Unbound
<1>5. CASE ReassignTask(p)
  <2>1. procs[p].t \in Tasks
    BY <1>5 DEF ReassignTask, Unbound
  <2>2. procs' \in [Procs -> Bound]
    BY <1>5, <2>1, GotoTyped DEF ReassignTask, TypeInv, Pc
  <2>3. task' \in [Tasks -> Task]
    BY <1>5, SetStatusTyped DEF ReassignTask, TypeInv, TaskStatus
  <2> QED BY <1>5, <2>2, <2>3 DEF ReassignTask, TypeInv
<1>6. CASE FindWorker(p)
  <2> DEFINE st == state[procs[p].w]
             new == [procs[p] EXCEPT !.st = st, !.pc = "reassign"]
  <2>1. procs[p].t \in Tasks
    BY <1>6 DEF FindWorker, Unbound
  <2>2. "reassign" \in Pc /\ st \in WorkerState
    BY DEF Pc, TypeInv
  <2>3. new \in Bound
    BY <2>1, <2>2 DEF Bound, Process
  <2>4. Becomes(p, new) \/ Return(p)
    BY <1>6 DEF FindWorker
  <2> HIDE DEF new
  <2> QED BY <1>6, <2>3, <2>4, BecomesTyped, ReturnTyped DEF FindWorker, TypeInv
<1>7. CASE AdoptTask(p)
  <2> DEFINE st == procs[p].st
             adopted == [st EXCEPT !.life = "idle", !.active = procs[p].t]
             cleared == Became(Vacant(st), "idle")
  <2>1. procs[p].t \in Tasks
    BY <1>7 DEF AdoptTask, Unbound
  <2>2. adopted \in WorkerState /\ cleared \in WorkerState
    <3>1. "idle" \in Lifecycle
      BY DEF Lifecycle
    <3>2. adopted \in WorkerState
      BY <2>1, <3>1 DEF WorkerState
    <3>3. cleared \in WorkerState
      BY <3>1, BecameTyped
    <3> QED BY <3>2, <3>3
  <2>3. \/ Save(p, adopted, "start")
        \/ Save(p, cleared, "readopt")
        \/ Return(p) /\ UNCHANGED state
    <3>1. CASE st.life \in {"idle", "paused"}
      BY <1>7, <3>1 DEF AdoptTask
    <3>2. CASE st.life \in {"failed", "awaiting_review"}
      BY <1>7, <3>2 DEF AdoptTask
    <3>3. CASE st.life \notin {"idle", "paused", "failed", "awaiting_review"}
      BY <1>7, <3>3 DEF AdoptTask
    <3> QED BY <3>1, <3>2, <3>3
  <2> HIDE DEF adopted, cleared
  <2>4. procs' \in [Procs -> Bound] /\ state' \in [Workers -> WorkerState]
    BY <2>1, <2>2, <2>3, SaveTyped, ReturnTyped DEF TypeInv, Pc
  <2> QED BY <1>7, <2>4 DEF AdoptTask, TypeInv
<1>8. CASE ReadoptTask(p)
  <2>1. procs[p].t \in Tasks
    BY <1>8 DEF ReadoptTask, Unbound
  <2>2. [procs[p].st EXCEPT !.active = procs[p].t] \in WorkerState
    BY <2>1 DEF WorkerState
  <2> QED BY <1>8, <2>1, <2>2, SaveTyped DEF ReadoptTask, TypeInv, Pc
<1>9. CASE LookAtWorker(p)
  <2> DEFINE st == state[procs[p].w]
             running == st.active = procs[p].t /\ st.life = "executing"
             pc == IF running THEN "stop" ELSE AfterStop(p)
             new == [procs[p] EXCEPT !.st = st, !.pc = pc]
  <2>1. procs[p].t \in Tasks
    BY <1>9 DEF LookAtWorker, Unbound
  <2>2. pc \in Pc /\ st \in WorkerState
    BY DEF Pc, AfterStop, TypeInv
  <2>3. Becomes(p, new)
    BY <1>9 DEF LookAtWorker
  <2> HIDE DEF pc, st
  <2>4. new \in Bound
    BY <2>1, <2>2 DEF Bound, Process
  <2> QED BY <1>9, <2>3, <2>4, BecomesTyped DEF LookAtWorker, TypeInv
<1>10. CASE ReloadWorker(p)
  <2> DEFINE st == state[procs[p].w]
             pc == AfterStop(p)
             new == [procs[p] EXCEPT !.st = st, !.pc = pc]
  <2>1. procs[p].t \in Tasks
    BY <1>10 DEF ReloadWorker, Unbound
  <2>2. pc \in Pc /\ st \in WorkerState
    BY DEF Pc, AfterStop, TypeInv
  <2>3. Becomes(p, new)
    BY <1>10 DEF ReloadWorker
  <2> HIDE DEF pc, st
  <2>4. new \in Bound
    BY <2>1, <2>2 DEF Bound, Process
  <2> QED BY <1>10, <2>3, <2>4, BecomesTyped DEF ReloadWorker, TypeInv
<1>11. CASE CancelQueued(p)
  <2>1. procs[p].t \in Tasks
    BY <1>11 DEF CancelQueued, Unbound
  <2>2. procs' \in [Procs -> Bound]
    BY <1>11, <2>1, GotoTyped, ReturnTyped DEF CancelQueued, TypeInv, Pc
  <2>3. queue' \in [Workers -> Seq(Entry)]
    <3> DEFINE w == procs[p].w
    <3>1. queue[w] \in Seq(Entry)
      BY DEF TypeInv
    <3>2. \A i \in DOMAIN queue[w] : RemoveAt(queue[w], i) \in Seq(Entry)
      BY <3>1, RemoveKeeps
    <3> QED BY <1>11, <3>2 DEF CancelQueued, TypeInv
  <2> QED BY <1>11, <2>2, <2>3 DEF CancelQueued, TypeInv
<1>12. CASE VoidTask(p)
  <2>1. procs[p].t \in Tasks
    BY <1>12 DEF VoidTask, Unbound
  <2>2. procs' \in [Procs -> Bound]
    BY <1>12, <2>1, GotoTyped, ReturnTyped DEF VoidTask, TypeInv, Pc
  <2>3. task' \in [Tasks -> Task]
    BY <1>12, SetStatusTyped DEF VoidTask, TypeInv, TaskStatus
  <2> QED BY <1>12, <2>2, <2>3 DEF VoidTask, TypeInv
<1>13. CASE VacateWorker(p)
  <2> DEFINE st == procs[p].st
             new == [Vacant(st) EXCEPT !.life = IF @ = "paused" THEN "idle" ELSE @]
  <2>1. new \in WorkerState
    BY BecameTyped DEF WorkerState, Lifecycle
  <2>2. SaveLast(p, new)
    BY <1>13 DEF VacateWorker
  <2> HIDE DEF new
  <2> QED BY <1>13, <2>1, <2>2, SaveLastTyped DEF VacateWorker, TypeInv
<1>14. CASE ControlConflict(p)
  BY <1>14, ReturnTyped DEF ControlConflict, TypeInv
<1> QED BY <1>1, <1>2, <1>3, <1>4, <1>5, <1>6, <1>7, <1>8, <1>9, <1>10, <1>11, <1>12,
           <1>13, <1>14 DEF ControlStep

LEMMA ReviewTyped ==
    ASSUME TypeInv, NEW p \in Procs, ReviewStep(p), UNCHANGED crashes
    PROVE  TypeInv'
<1> USE ProcTyped
<1>1. CASE SubmitLoadState(p)
  <2> DEFINE st == state[procs[p].w]
             new == [procs[p] EXCEPT !.st = st, !.pc = "handoff"]
  <2>1. procs[p].t \in Tasks
    BY <1>1 DEF SubmitLoadState, Unbound
  <2>2. "handoff" \in Pc /\ st \in WorkerState
    BY DEF Pc, TypeInv
  <2>3. new \in Bound
    BY <2>1, <2>2 DEF Bound, Process
  <2>4. Becomes(p, new) \/ Return(p)
    BY <1>1 DEF SubmitLoadState
  <2> HIDE DEF new
  <2> QED BY <1>1, <2>3, <2>4, BecomesTyped, ReturnTyped DEF SubmitLoadState, TypeInv
<1>2. CASE AppendHandoff(p)
  <2> DEFINE t == procs[p].t
             handoffs == Append(task[t].handoffs, "pending")
             new == [task[t] EXCEPT !.status = "awaiting_review", !.handoffs = handoffs]
  <2>1. ASSUME t \in Tasks PROVE new \in Task
    <3>1. task[t] \in Task
      BY <2>1 DEF TypeInv
    <3>2. handoffs \in Seq(ReviewStatus)
      BY <3>1, AppendProperties DEF Task, ReviewStatus
    <3> HIDE DEF handoffs
    <3> QED BY <3>1, <3>2 DEF Task, TaskStatus
  <2>2. SetTask(t, new) /\ Goto(p, "await")
    BY <1>2 DEF AppendHandoff
  <2> HIDE DEF new
  <2> QED BY <1>2, <2>1, <2>2, SetTaskTyped, GotoTyped DEF AppendHandoff, TypeInv, Pc, Unbound
<1>3. CASE AwaitReview(p)
  <2>1. Became(procs[p].st, "awaiting_review") \in WorkerState
    BY BecameTyped DEF Lifecycle
  <2> QED BY <1>3, <2>1, SaveLastTyped DEF AwaitReview, TypeInv
<1>4. CASE VerdictLoadState(p)
  <2> DEFINE st == state[procs[p].w]
             new == [procs[p] EXCEPT !.st = st, !.pc = "decide"]
  <2>1. procs[p].t \in Tasks
    BY <1>4 DEF VerdictLoadState, Unbound
  <2>2. "decide" \in Pc /\ st \in WorkerState
    BY DEF Pc, TypeInv
  <2>3. new \in Bound
    BY <2>1, <2>2 DEF Bound, Process
  <2>4. Becomes(p, new)
    BY <1>4 DEF VerdictLoadState
  <2> HIDE DEF new
  <2> QED BY <1>4, <2>3, <2>4, BecomesTyped DEF VerdictLoadState, TypeInv
<1>5. CASE DecideHandoff(p)
  <2> DEFINE t == procs[p].t
             accepted == procs[p].op = "accept"
             status == IF accepted THEN "accepted" ELSE "pending"
             handoffs == ReplaceLast(task[t].handoffs,
                                     IF accepted THEN "accepted" ELSE "rejected")
             new == [task[t] EXCEPT !.status = status, !.handoffs = handoffs]
  <2>1. ASSUME t \in Tasks PROVE new \in Task
    <3>1. task[t] \in Task
      BY <2>1 DEF TypeInv
    <3>2. handoffs \in Seq(ReviewStatus)
      BY <3>1, ReplaceLastTyped DEF Task, ReviewStatus
    <3>3. status \in TaskStatus
      BY DEF TaskStatus
    <3> HIDE DEF handoffs, status
    <3> QED BY <3>1, <3>2, <3>3 DEF Task
  <2>2. SetTask(t, new) /\ Goto(p, IF accepted THEN "close" ELSE "requeue")
    BY <1>5 DEF DecideHandoff
  <2> HIDE DEF new
  <2> QED BY <1>5, <2>1, <2>2, SetTaskTyped, GotoTyped DEF DecideHandoff, TypeInv, Pc, Unbound
<1>6. CASE RequeueTask(p)
  <2>1. procs[p].t \in Tasks
    BY <1>6 DEF RequeueTask, Unbound
  <2>2. queue' \in [Workers -> Seq(Entry)]
    <3> DEFINE w == procs[p].w
    <3>1. queue[w] \in Seq(Entry)
      BY DEF TypeInv
    <3>2. Enqueue(queue[w], procs[p].t) \in Seq(Entry)
      BY <2>1, <3>1, EnqueueKeeps
    <3> QED BY <1>6, <3>2 DEF RequeueTask, TypeInv
  <2> QED BY <1>6, <2>1, <2>2, GotoTyped, ReturnTyped DEF RequeueTask, TypeInv, Pc
<1>7. CASE CloseReview(p)
  <2>1. Became(Vacant(procs[p].st), "idle") \in WorkerState
    BY BecameTyped DEF Lifecycle
  <2> QED BY <1>7, <2>1, SaveLastTyped DEF CloseReview, TypeInv
<1>8. CASE ReviewConflict(p)
  BY <1>8, ReturnTyped DEF ReviewConflict, TypeInv
<1> QED BY <1>1, <1>2, <1>3, <1>4, <1>5, <1>6, <1>7, <1>8 DEF ReviewStep

LEMMA InvokeTyped ==
    ASSUME TypeInv, NEW p \in Procs, Invoke(p), UNCHANGED crashes
    PROVE  TypeInv'
<1>1. NewState \in WorkerState /\ 1 \in Workers
  BY RecordsTyped, WorkersAssumption DEF Workers
<1>2. CASE \E w \in Workers, t \in Tasks : BeginIntake(p, w, t)
  BY <1>2, BeginTyped DEF BeginIntake, TypeInv, Pc
<1>3. CASE \E w \in Workers : BeginStart(p, w)
  BY <1>1, <1>3, BeginTyped DEF BeginStart, TypeInv, Pc, Unbound
<1>4. CASE BeginSchedule(p)
  BY <1>1, <1>4, BeginTyped DEF BeginSchedule, TypeInv, Pc, Unbound
<1>5. CASE \E w \in Workers : BeginPause(p, w)
  <2>1. PICK w \in Workers : BeginPause(p, w)
    BY <1>5
  <2>2. state[w] \in WorkerState /\ state[w].active \in Tasks
    BY <2>1 DEF BeginPause, TypeInv, WorkerState
  <2> QED BY <2>1, <2>2, BeginTyped DEF BeginPause, TypeInv, Pc
<1>6. CASE \E w \in Workers : BeginResume(p, w)
  <2>1. PICK w \in Workers : BeginResume(p, w)
    BY <1>6
  <2>2. state[w] \in WorkerState /\ state[w].active \in Tasks
    BY <2>1 DEF BeginResume, TypeInv, WorkerState
  <2> QED BY <2>1, <2>2, BeginTyped DEF BeginResume, TypeInv, Pc
<1>7. ASSUME NEW t \in Tasks PROVE task[t].owner \in Workers /\ task[t].status \in TaskStatus \cup {"absent"}
  BY <1>7 DEF TypeInv, Task
<1>8. CASE \E t \in Tasks : BeginRetry(p, t)
  BY <1>1, <1>7, <1>8, BeginTyped DEF BeginRetry, TypeInv, Pc
<1>9. CASE \E t \in Tasks : BeginCancel(p, t)
  <2>1. PICK t \in Tasks : BeginCancel(p, t)
    BY <1>9
  <2> DEFINE new == [Ready EXCEPT !.op = "cancel", !.pc = "look", !.w = task[t].owner,
                                  !.t = t, !.status = task[t].status]
  <2>2. "cancel" \in Command /\ "look" \in Pc
    BY DEF Command, Pc
  <2>3. new \in Bound
    BY <1>7, <2>2, RecordsTyped DEF Bound, Process
  <2>4. Becomes(p, new)
    BY <2>1 DEF BeginCancel
  <2> HIDE DEF new
  <2> QED BY <2>1, <2>3, <2>4, BecomesTyped DEF BeginCancel, TypeInv
<1>10. CASE \E t \in Tasks : BeginSubmit(p, t)
  BY <1>1, <1>7, <1>10, BeginTyped DEF BeginSubmit, TypeInv, Pc
<1>11. CASE \E t \in Tasks : BeginVerdict(p, t)
  BY <1>1, <1>7, <1>11, BeginTyped DEF BeginVerdict, TypeInv, Pc
<1> QED BY <1>2, <1>3, <1>4, <1>5, <1>6, <1>8, <1>9, <1>10, <1>11 DEF Invoke

LEMMA OperateTyped ==
    ASSUME TypeInv, NEW w \in Workers, Operate(w) \/ ExpireLease(w), UNCHANGED crashes
    PROVE  TypeInv'
<1>1. /\ queue[w] \in Seq(Entry)
      /\ DOMAIN queue[w] = 1 .. Len(queue[w])
      /\ state[w] \in WorkerState
  BY LenProperties DEF TypeInv
<1>2. CASE ReorderQueue(w)
  <2>1. \A i, j \in DOMAIN queue[w] : Reorder(queue[w], i, j) \in Seq(Entry)
    BY <1>1, ReorderKeeps
  <2> QED BY <1>2, <2>1 DEF ReorderQueue, TypeInv
<1>3. CASE RemoveFromQueue(w)
  <2>1. \A i \in DOMAIN queue[w] : RemoveAt(queue[w], i) \in Seq(Entry)
    BY <1>1, RemoveKeeps
  <2> QED BY <1>3, <2>1 DEF RemoveFromQueue, TypeInv
<1>4. CASE ResetWorker(w)
  <2>1. Saved(Became(Vacant(state[w]), "idle")) \in WorkerState
    BY <1>1, BecameTyped, SavedTyped DEF Lifecycle
  <2> QED BY <1>4, <2>1 DEF ResetWorker, TypeInv
<1>5. CASE ExpireLease(w)
  <2>1. Expire(queue[w], 1) \in Seq(Entry)
    BY <1>1, <1>5, ExpireKeeps DEF ExpireLease
  <2> QED BY <1>5, <2>1 DEF ExpireLease, TypeInv
<1> QED BY <1>2, <1>3, <1>4, <1>5 DEF Operate

LEMMA RunCompletesTyped ==
    ASSUME TypeInv, NEW r \in live, RunCompletes(r), UNCHANGED crashes
    PROVE  TypeInv'
<1> DEFINE w == task[r[1]].owner
<1>1. w \in Workers
  BY DEF TypeInv, Run, Task
<1>2. Saved(Became(state[w], "blocked")) \in WorkerState
  BY <1>1, BecameTyped, SavedTyped DEF TypeInv, Lifecycle
<1> QED BY <1>1, <1>2 DEF RunCompletes, TypeInv

LEMMA CrashTyped ==
    ASSUME TypeInv, NEW p \in Procs, Crash(p)
    PROVE  TypeInv'
BY ReturnTyped DEF Crash, TypeInv

LEMMA InitTyped == Init => TypeInv
<1> SUFFICES ASSUME Init PROVE TypeInv
  OBVIOUS
<1>1. <<>> \in Seq(Entry)
  BY EmptySeq
<1> QED BY <1>1, RecordsTyped DEF Init, TypeInv

LEMMA NextTyped == TypeInv /\ [Next]_vars => TypeInv'
<1> SUFFICES ASSUME TypeInv, [Next]_vars PROVE TypeInv'
  OBVIOUS
<1>1. ASSUME NEW p \in Procs, Invoke(p) \/ Step(p), UNCHANGED crashes PROVE TypeInv'
  BY <1>1, InvokeTyped, IntakeTyped, ScheduleTyped, StartTyped, ControlTyped, ReviewTyped
     DEF Step
<1>2. CASE UNCHANGED vars
  BY <1>2 DEF vars, TypeInv
<1> QED BY <1>1, <1>2, OperateTyped, RunCompletesTyped, CrashTyped DEF Next

\* Every variable keeps its shape (internal/workerdomain's Validate methods and
\* the stores' file formats), however many workers, tasks and invocations there
\* are: TypeOK is an invariant.
THEOREM TypeCorrect == Spec => []TypeOK
<1>1. TypeInv => TypeOK
  BY DEF TypeInv, TypeOK, Bound
<1> QED BY <1>1, InitTyped, NextTyped, PTL DEF Spec

-----------------------------------------------------------------------------
(* The optimistic lock on the worker state and what rests on it: a stale     *)
(* copy is never written, the lifecycle follows its table, and a worker's    *)
(* task is launched by one invocation at a time.                             *)

LaunchPc == {"launch", "record", "settle", "ascend"}

\* st is an earlier record of the worker whose record is now s, or s itself.
IsCopy(st, s) == st.rev <= s.rev /\ (st.rev = s.rev => st = s)

\* What an invocation's step says of its copy.  While the scheduler goes from
\* worker to worker its copy st is not in use.
LifeAt(pc, st) ==
    /\ pc \in {"restore", "claim", "locate", "depart", "readopt"} => st.life = "idle"
    /\ pc \in LaunchPc => st.life = "starting"
    /\ pc \in {"check", "stop", "suspend", "rest", "handoff", "await"} => st.life = "executing"
    /\ pc = "wake" => st.life = "paused"
    /\ pc \in {"snapshot", "consider", "lease", "inspect", "skip"} => st = NewState

CopyOK(p) ==
    /\ IsCopy(procs[p].st, state[procs[p].w])
    /\ \A w \in Workers : IsCopy(procs[p].snap[w], state[w])
    /\ LifeAt(procs[p].pc, procs[p].st)

\* The inductive invariant: revisions only grow, so a copy with the revision on
\* disk is the record on disk; LifeAt then gives the lifecycle that a write
\* starts from.
CopyInv ==
    /\ \A w \in Workers : IsCopy(NewState, state[w])
    /\ \A p \in Procs : CopyOK(p)
    /\ LaunchExclusive

\* What a step may do to the record of a worker.
Advances(w) ==
    \/ state'[w] = state[w]
    \/ /\ state'[w].rev = state[w].rev + 1
       /\ state'[w].life # state[w].life => CanTransition(state[w].life, state'[w].life)

\* What a step of p may do.
GoodStep(p) ==
    /\ \A q \in Procs \ {p} : procs'[q] = procs[q]
    /\ \A w \in Workers : Advances(w)
    /\ \A w \in Workers : state[w].life = "starting" /\ state'[w].life # "starting" =>
          Launching(p) /\ procs[p].w = w /\ ~Launching(p)'
    /\ CopyOK(p)'
    /\ Launching(p)' =>
          /\ state'[procs'[p].w].life = "starting"
          /\ \/ Launching(p) /\ procs'[p].w = procs[p].w
             \/ state[procs'[p].w].life # "starting"

-----------------------------------------------------------------------------
LEMMA CopyAdvances ==
    ASSUME TypeInv, TypeInv', NEW w \in Workers, Advances(w),
           NEW STATE st, st \in WorkerState, IsCopy(st, state[w])
    PROVE  IsCopy(st, state'[w])
<1>1. st.rev \in Int /\ state[w].rev \in Int /\ state'[w].rev \in Int
  BY DEF TypeInv, WorkerState
<1> QED BY <1>1 DEF Advances, IsCopy

LEMMA StepKeeps ==
    ASSUME TypeInv, TypeInv', CopyInv, NEW p \in Procs, GoodStep(p)
    PROVE  CopyInv'
<1>1. \A w \in Workers : IsCopy(NewState, state'[w])
  BY RecordsTyped, CopyAdvances DEF CopyInv, GoodStep
<1>2. ASSUME NEW q \in Procs PROVE CopyOK(q)'
  <2>1. CASE q = p
    BY <2>1 DEF GoodStep
  <2>2. CASE q # p
    <3>1. procs'[q] = procs[q]
      BY <2>2 DEF GoodStep
    <3>2. IsCopy(procs[q].st, state'[procs[q].w])
      BY ProcTyped, CopyAdvances DEF CopyInv, CopyOK, GoodStep
    <3>3. \A w \in Workers : IsCopy(procs[q].snap[w], state'[w])
      BY ProcTyped, CopyAdvances DEF CopyInv, CopyOK, GoodStep
    <3> QED BY <3>1, <3>2, <3>3 DEF CopyInv, CopyOK
  <2> QED BY <2>1, <2>2
<1>3. ASSUME NEW q \in Procs, Launching(q)'
      PROVE  /\ state'[procs'[q].w].life = "starting"
             /\ \A r \in Procs : Launching(r)' /\ procs'[r].w = procs'[q].w => r = q
  <2>1. ASSUME NEW r \in Procs \ {p}, Launching(r)'
        PROVE  /\ procs'[r].w = procs[r].w /\ Launching(r)
               /\ procs[r].w \in Workers
               /\ state[procs[r].w].life = "starting"
               /\ state'[procs[r].w].life = "starting"
    <3>1. procs'[r] = procs[r] /\ Launching(r)
      BY <2>1 DEF GoodStep, Launching
    <3>2. procs[r].w \in Workers /\ state[procs[r].w].life = "starting"
      BY <3>1, ProcTyped DEF CopyInv, LaunchExclusive
    <3>3. ~(Launching(p) /\ procs[p].w = procs[r].w)
      BY <2>1, <3>1 DEF CopyInv, LaunchExclusive
    <3> QED BY <3>1, <3>2, <3>3 DEF GoodStep
  <2>2. ASSUME NEW r \in Procs \ {p}, Launching(r)', Launching(p)'
        PROVE  procs'[r].w # procs'[p].w
    BY <2>1, <2>2 DEF GoodStep, CopyInv, LaunchExclusive
  <2>3. state'[procs'[q].w].life = "starting"
    BY <1>3, <2>1 DEF GoodStep
  <2>4. ASSUME NEW r \in Procs, Launching(r)', procs'[r].w = procs'[q].w
        PROVE  r = q
    <3>1. CASE r # p /\ q # p
      BY <1>3, <2>1, <2>4, <3>1 DEF CopyInv, LaunchExclusive
    <3>2. CASE r = p \/ q = p
      BY <1>3, <2>2, <2>4, <3>2
    <3> QED BY <3>1, <3>2
  <2> QED BY <2>3, <2>4
<1> QED BY <1>1, <1>2, <1>3 DEF CopyInv, LaunchExclusive

\* A step of no invocation.
LEMMA QuietKeeps ==
    ASSUME TypeInv, TypeInv', CopyInv, UNCHANGED procs, \A w \in Workers : Advances(w),
           \A w \in Workers : state[w].life = "starting" => state'[w].life = "starting"
    PROVE  CopyInv'
<1>1. \A w \in Workers : IsCopy(NewState, state'[w])
  BY RecordsTyped, CopyAdvances DEF CopyInv
<1>2. ASSUME NEW q \in Procs PROVE CopyOK(q)'
  <2>1. IsCopy(procs[q].st, state'[procs[q].w])
    BY ProcTyped, CopyAdvances DEF CopyInv, CopyOK
  <2>2. \A w \in Workers : IsCopy(procs[q].snap[w], state'[w])
    BY ProcTyped, CopyAdvances DEF CopyInv, CopyOK
  <2> QED BY <2>1, <2>2 DEF CopyInv, CopyOK
<1>3. LaunchExclusive'
  BY ProcTyped DEF CopyInv, LaunchExclusive, Launching
<1> QED BY <1>1, <1>2, <1>3 DEF CopyInv

-----------------------------------------------------------------------------
(* The steps every action is built from. *)

LEMMA BecomesGood ==
    ASSUME TypeInv, CopyInv, NEW p \in Procs, NEW new, Becomes(p, new), UNCHANGED state,
           new.w \in Workers, IsCopy(new.st, state[new.w]),
           \A w \in Workers : IsCopy(new.snap[w], state[w]),
           LifeAt(new.pc, new.st),
           new.pc \in LaunchPc => procs[p].pc \in LaunchPc /\ new.w = procs[p].w
    PROVE  GoodStep(p)
<1>1. procs'[p] = new /\ \A q \in Procs \ {p} : procs'[q] = procs[q]
  BY DEF Becomes, TypeInv
<1>2. Launching(p)' => Launching(p) /\ new.w = procs[p].w
  BY <1>1 DEF Launching, LaunchPc
<1>3. Launching(p) => state[procs[p].w].life = "starting"
  BY DEF CopyInv, LaunchExclusive
<1> QED BY <1>1, <1>2, <1>3 DEF GoodStep, Advances, CopyOK

LEMMA ReturnGood ==
    ASSUME TypeInv, CopyInv, NEW p \in Procs, Return(p), UNCHANGED state
    PROVE  GoodStep(p)
<1>1. 1 \in Workers
  BY WorkersAssumption DEF Workers
<1>2. LifeAt(Ready.pc, Ready.st) /\ Ready.pc \notin LaunchPc
  BY RecordsTyped DEF LifeAt, LaunchPc
<1>3. /\ IsCopy(Ready.st, state[Ready.w])
      /\ \A w \in Workers : IsCopy(Ready.snap[w], state[w])
  BY <1>1, RecordsTyped DEF CopyInv
<1> QED BY <1>1, <1>2, <1>3, RecordsTyped, BecomesGood DEF Return

LEMMA GotoGood ==
    ASSUME TypeInv, CopyInv, NEW p \in Procs, NEW pc, Goto(p, pc), UNCHANGED state,
           LifeAt(pc, procs[p].st), pc \in LaunchPc => procs[p].pc \in LaunchPc
    PROVE  GoodStep(p)
<1> DEFINE new == [procs[p] EXCEPT !.pc = pc]
<1>1. /\ new.pc = pc /\ new.w = procs[p].w /\ new.st = procs[p].st
      /\ new.snap = procs[p].snap
  BY ProcTyped DEF Process
<1>2. Becomes(p, new)
  BY DEF Goto
<1> HIDE DEF new
<1> QED BY <1>1, <1>2, ProcTyped, BecomesGood DEF CopyInv, CopyOK

LEMMA BeginGood ==
    ASSUME TypeInv, CopyInv, NEW p \in Procs, NEW cmd, NEW pc, NEW w \in Workers, NEW t,
           NEW st, Begin(p, cmd, pc, w, t, st), UNCHANGED state,
           st = NewState \/ st = state[w], LifeAt(pc, st), pc \notin LaunchPc
    PROVE  GoodStep(p)
<1> DEFINE new == [Ready EXCEPT !.op = cmd, !.pc = pc, !.w = w, !.t = t, !.st = st]
<1>1. /\ new.pc = pc /\ new.w = w /\ new.st = st
      /\ new.snap = [v \in Workers |-> NewState]
  BY DEF Ready
<1>2. Becomes(p, new)
  BY DEF Begin
<1> HIDE DEF new
<1>3. IsCopy(st, state[w])
  BY DEF CopyInv, IsCopy, TypeInv, WorkerState
<1>4. \A v \in Workers : IsCopy(new.snap[v], state[v])
  BY <1>1 DEF CopyInv
<1> QED BY <1>1, <1>2, <1>3, <1>4, BecomesGood

\* The new copy of the worker's own state, loaded from disk.
LEMMA LoadGood ==
    ASSUME TypeInv, CopyInv, NEW p \in Procs, NEW pc, NEW t, UNCHANGED state,
           Becomes(p, [procs[p] EXCEPT !.st = state[procs[p].w], !.t = t, !.pc = pc]),
           LifeAt(pc, state[procs[p].w]), pc \notin LaunchPc
    PROVE  GoodStep(p)
<1> DEFINE st == state[procs[p].w]
           new == [procs[p] EXCEPT !.st = st, !.t = t, !.pc = pc]
<1>1. /\ new.pc = pc /\ new.w = procs[p].w /\ new.st = st
      /\ new.snap = procs[p].snap
  BY ProcTyped DEF Process
<1>2. Becomes(p, new)
  OBVIOUS
<1>3. IsCopy(st, st)
  BY ProcTyped DEF IsCopy, TypeInv, WorkerState
<1> HIDE DEF new
<1> QED BY <1>1, <1>2, <1>3, ProcTyped, BecomesGood DEF CopyInv, CopyOK

\* A write: what it may do to the lifecycle is read off the invocation's copy,
\* because the copy passes the revision check.
LEMMA WriteGood ==
    ASSUME TypeInv, CopyInv, NEW p \in Procs, NEW w \in Workers, NEW copy, NEW new, NEW c,
           copy.rev = state[w].rev, IsCopy(copy, state[w]),
           new \in WorkerState, new.rev = copy.rev,
           state' = [state EXCEPT ![w] = Saved(new)],
           Becomes(p, c), c.w \in Workers,
           \/ c.st = Saved(new) /\ c.w = w
           \/ IsCopy(c.st, state[c.w]) /\ c.st \in WorkerState,
           c.snap \in [Workers -> WorkerState],
           \A v \in Workers : IsCopy(c.snap[v], state[v]),
           LifeAt(c.pc, c.st),
           new.life # copy.life => CanTransition(copy.life, new.life),
           copy.life = "starting" /\ new.life # "starting" =>
              procs[p].pc \in LaunchPc /\ procs[p].w = w /\ c.pc \notin LaunchPc,
           c.pc \in LaunchPc =>
              /\ c.w = w /\ new.life = "starting"
              /\ copy.life = "starting" => procs[p].pc \in LaunchPc /\ procs[p].w = w
    PROVE  GoodStep(p)
<1>1. copy = state[w]
  BY DEF IsCopy
<1>2. /\ Saved(new) \in WorkerState /\ Saved(new).rev = state[w].rev + 1
      /\ Saved(new).life = new.life
  BY <1>1, SavedTyped DEF Saved, WorkerState
<1>3. /\ state'[w] = Saved(new)
      /\ \A v \in Workers \ {w} : state'[v] = state[v]
      /\ state' \in [Workers -> WorkerState]
  BY <1>2 DEF TypeInv
<1>4. procs'[p] = c /\ \A q \in Procs \ {p} : procs'[q] = procs[q]
  BY DEF Becomes, TypeInv
<1>5. \A v \in Workers : Advances(v)
  BY <1>1, <1>2, <1>3 DEF Advances
<1>6. ASSUME NEW v \in Workers, NEW st \in WorkerState, IsCopy(st, state[v])
      PROVE  IsCopy(st, state'[v])
  <2>1. st.rev \in Int /\ state[v].rev \in Int /\ state'[v].rev \in Int
    BY <1>3, <1>6 DEF TypeInv, WorkerState
  <2> QED BY <1>5, <1>6, <2>1 DEF Advances, IsCopy
<1>7. IsCopy(c.st, state'[c.w])
  <2>1. CASE c.st = Saved(new) /\ c.w = w
    BY <1>2, <1>3, <2>1 DEF IsCopy, WorkerState
  <2>2. CASE IsCopy(c.st, state[c.w]) /\ c.st \in WorkerState
    BY <1>6, <2>2
  <2> QED BY <2>1, <2>2
<1>8. \A v \in Workers : IsCopy(c.snap[v], state'[v])
  BY <1>6
<1>9. CopyOK(p)'
  BY <1>4, <1>7, <1>8 DEF CopyOK
<1>10. /\ Launching(p) <=> procs[p].pc \in LaunchPc
       /\ Launching(p)' <=> c.pc \in LaunchPc
  BY <1>4 DEF Launching, LaunchPc
<1>11. ASSUME NEW v \in Workers, state[v].life = "starting", state'[v].life # "starting"
       PROVE  Launching(p) /\ procs[p].w = v /\ ~Launching(p)'
  BY <1>1, <1>2, <1>3, <1>10, <1>11
<1>12. ASSUME Launching(p)'
       PROVE  /\ state'[procs'[p].w].life = "starting"
              /\ \/ Launching(p) /\ procs'[p].w = procs[p].w
                 \/ state[procs'[p].w].life # "starting"
  BY <1>1, <1>2, <1>3, <1>4, <1>10, <1>12
<1> QED BY <1>4, <1>5, <1>9, <1>11, <1>12 DEF GoodStep

LEMMA SaveGood ==
    ASSUME TypeInv, CopyInv, NEW p \in Procs, NEW new \in WorkerState, NEW pc,
           Save(p, new, pc), new.rev = procs[p].st.rev, LifeAt(pc, new),
           pc \notin {"snapshot", "consider", "lease", "inspect", "skip"},
           new.life # procs[p].st.life => CanTransition(procs[p].st.life, new.life),
           procs[p].st.life = "starting" /\ new.life # "starting" =>
              procs[p].pc \in LaunchPc /\ pc \notin LaunchPc,
           pc \in LaunchPc => new.life = "starting" /\ procs[p].st.life # "starting"
    PROVE  GoodStep(p)
<1> DEFINE saved == Saved(new)
           c == [procs[p] EXCEPT !.st = saved, !.pc = pc]
<1>1. c.pc = pc /\ c.w = procs[p].w /\ c.st = saved /\ c.snap = procs[p].snap
  BY ProcTyped DEF Process
<1>2. saved.life = new.life
  BY DEF Saved, WorkerState
<1>3. LifeAt(pc, saved)
  BY <1>2 DEF LifeAt
<1>4. /\ Becomes(p, c)
      /\ state' = [state EXCEPT ![procs[p].w] = Saved(new)]
      /\ procs[p].st.rev = state[procs[p].w].rev
  BY DEF Save, Fresh
<1> HIDE DEF c, saved
<1>5. /\ IsCopy(procs[p].st, state[procs[p].w])
      /\ \A v \in Workers : IsCopy(procs[p].snap[v], state[v])
  BY DEF CopyInv, CopyOK
<1>6. c.st = Saved(new)
  BY <1>1 DEF saved
<1> QED BY <1>1, <1>3, <1>4, <1>5, <1>6, ProcTyped, WriteGood

LEMMA SaveLastGood ==
    ASSUME TypeInv, CopyInv, NEW p \in Procs, NEW new \in WorkerState,
           SaveLast(p, new), new.rev = procs[p].st.rev,
           new.life # procs[p].st.life => CanTransition(procs[p].st.life, new.life),
           procs[p].st.life = "starting" /\ new.life # "starting" => procs[p].pc \in LaunchPc
    PROVE  GoodStep(p)
<1>1. 1 \in Workers
  BY WorkersAssumption DEF Workers
<1>2. LifeAt(Ready.pc, Ready.st) /\ Ready.pc \notin LaunchPc
  BY RecordsTyped DEF LifeAt, LaunchPc
<1>3. /\ IsCopy(Ready.st, state[Ready.w])
      /\ \A w \in Workers : IsCopy(Ready.snap[w], state[w])
      /\ Ready.st \in WorkerState /\ Ready.snap \in [Workers -> WorkerState]
  BY <1>1, RecordsTyped DEF CopyInv
<1>4. /\ Becomes(p, Ready)
      /\ state' = [state EXCEPT ![procs[p].w] = Saved(new)]
      /\ procs[p].st.rev = state[procs[p].w].rev
  BY DEF SaveLast, Fresh, Return
<1>5. IsCopy(procs[p].st, state[procs[p].w])
  BY DEF CopyInv, CopyOK
<1> QED BY <1>1, <1>2, <1>3, <1>4, <1>5, RecordsTyped, ProcTyped, WriteGood

-----------------------------------------------------------------------------
(* The actions. *)

\* What CopyInv says of the invocation that takes a step.
LEMMA LifeKnown ==
    ASSUME TypeInv, CopyInv, NEW p \in Procs
    PROVE  LifeAt(procs[p].pc, procs[p].st)
BY DEF CopyInv, CopyOK

LEMMA StartGood ==
    ASSUME TypeInv, CopyInv, NEW p \in Procs, StartStep(p)
    PROVE  GoodStep(p)
<1> USE ProcTyped, LifeKnown DEF LifeAt, LaunchPc
<1>1. CASE StartLoadState(p)
  <2>1. CASE Return(p)
    BY <1>1, <2>1, ReturnGood DEF StartLoadState
  <2>2. CASE ~Return(p)
    <3> DEFINE st == state[procs[p].w]
    <3>1. /\ Becomes(p, [procs[p] EXCEPT !.st = st, !.t = st.active, !.pc = "restore"])
          /\ st.life = "idle"
          /\ UNCHANGED state
      BY <1>1, <2>2 DEF StartLoadState
    <3>2. LifeAt("restore", st) /\ "restore" \notin LaunchPc
      BY <3>1
    <3> QED BY <3>1, <3>2, LoadGood
  <2> QED BY <2>1, <2>2
<1>2. CASE StartLoadTask(p)
  BY <1>2, ReturnGood, GotoGood DEF StartLoadTask
<1>3. CASE ClaimWorktree(p)
  BY <1>3, ReturnGood, GotoGood DEF ClaimWorktree
<1>4. CASE SaveLocation(p)
  BY <1>4, SaveGood DEF SaveLocation
<1>5. CASE StartFails(p)
  BY <1>5, ReturnGood DEF StartFails
<1>6. CASE Depart(p)
  <2> DEFINE new == Became(procs[p].st, "starting")
  <2>1. new \in WorkerState /\ new.life = "starting" /\ new.rev = procs[p].st.rev
    BY DEF Became, WorkerState, Lifecycle
  <2>2. procs[p].st.life = "idle" /\ Save(p, new, "launch")
    BY <1>6 DEF Depart
  <2>3. CanTransition("idle", "starting")
    BY DEF CanTransition, LifecycleTransitions
  <2> HIDE DEF new
  <2> QED BY <2>1, <2>2, <2>3, SaveGood
<1>7. CASE Launch(p)
  <2>1. PICK out \in Outcome : Becomes(p, [procs[p] EXCEPT !.out = out, !.pc = "record"])
    BY <1>7 DEF Launch
  <2> DEFINE new == [procs[p] EXCEPT !.out = out, !.pc = "record"]
  <2>2. /\ new.pc = "record" /\ new.w = procs[p].w /\ new.st = procs[p].st
        /\ new.snap = procs[p].snap
    BY DEF Process
  <2>3. Becomes(p, new) /\ UNCHANGED state /\ procs[p].pc = "launch"
    BY <1>7, <2>1 DEF Launch
  <2> HIDE DEF new
  <2> QED BY <2>2, <2>3, BecomesGood DEF CopyInv, CopyOK
<1>8. CASE RecordAttempt(p)
  BY <1>8, GotoGood DEF RecordAttempt
<1>9. CASE SettleFailed(p)
  <2> DEFINE run == IF procs[p].out = "norun" THEN 0 ELSE Len(task[procs[p].t].attempts)
             new == [procs[p].st EXCEPT !.life = "failed", !.run = run]
  <2>1. run \in Nat
    BY <1>9, LenProperties DEF SettleFailed, Unbound, TypeInv, Task
  <2> HIDE DEF run
  <2>2. new \in WorkerState /\ new.life = "failed" /\ new.rev = procs[p].st.rev
    BY <2>1 DEF WorkerState, Lifecycle
  <2>3. SaveLast(p, new) /\ procs[p].st.life = "starting" /\ procs[p].pc = "settle"
    BY <1>9 DEF SettleFailed, run
  <2>4. CanTransition("starting", "failed")
    BY DEF CanTransition, LifecycleTransitions
  <2> HIDE DEF new
  <2> QED BY <2>2, <2>3, <2>4, SaveLastGood
<1>10. CASE TransferClaim(p)
  BY <1>10, GotoGood DEF TransferClaim
<1>11. CASE Ascend(p)
  <2> DEFINE new == [procs[p].st EXCEPT !.life = "executing",
                                        !.run = Len(task[procs[p].t].attempts)]
  <2>1. Len(task[procs[p].t].attempts) \in Nat
    BY <1>11, LenProperties DEF Ascend, Unbound, TypeInv, Task
  <2>2. new \in WorkerState /\ new.life = "executing" /\ new.rev = procs[p].st.rev
    BY <2>1 DEF WorkerState, Lifecycle
  <2>3. /\ Save(p, new, "check") \/ SaveLast(p, new)
        /\ procs[p].st.life = "starting" /\ procs[p].pc = "ascend"
    BY <1>11 DEF Ascend
  <2>4. CanTransition("starting", "executing")
    BY DEF CanTransition, LifecycleTransitions
  <2> HIDE DEF new
  <2> QED BY <2>2, <2>3, <2>4, SaveGood, SaveLastGood
<1>12. CASE CheckCompletion(p)
  <2> DEFINE new == Became(procs[p].st, "blocked")
  <2>1. new \in WorkerState /\ new.life = "blocked" /\ new.rev = procs[p].st.rev
    BY DEF Became, WorkerState, Lifecycle
  <2>2. \/ Return(p) /\ UNCHANGED state
        \/ SaveLast(p, new)
    BY <1>12 DEF CheckCompletion
  <2>3. procs[p].st.life = "executing"
    BY <1>12 DEF CheckCompletion
  <2>4. CanTransition("executing", "blocked")
    BY DEF CanTransition, LifecycleTransitions
  <2> HIDE DEF new
  <2> QED BY <2>1, <2>2, <2>3, <2>4, ReturnGood, SaveLastGood
<1>13. CASE StartConflict(p)
  BY <1>13, ReturnGood DEF StartConflict
<1> QED BY <1>1, <1>2, <1>3, <1>4, <1>5, <1>6, <1>7, <1>8, <1>9, <1>10, <1>11, <1>12, <1>13
        DEF StartStep

LEMMA IntakeGood ==
    ASSUME TypeInv, CopyInv, NEW p \in Procs, IntakeStep(p)
    PROVE  GoodStep(p)
<1> USE ProcTyped DEF LifeAt, LaunchPc
<1>1. CASE CreateTask(p)
  BY <1>1, ReturnGood, GotoGood DEF CreateTask
<1>2. CASE EnqueueTask(p)
  BY <1>2, ReturnGood, GotoGood DEF EnqueueTask
<1>3. CASE ActivateTask(p)
  <2> DEFINE new == [procs[p].st EXCEPT !.active = procs[p].t]
  <2>1. new \in WorkerState /\ new.life = procs[p].st.life /\ new.rev = procs[p].st.rev
    BY <1>3 DEF ActivateTask, WorkerState
  <2>2. SaveLast(p, new) \/ (Goto(p, "rollback") /\ UNCHANGED state)
    BY <1>3 DEF ActivateTask
  <2> HIDE DEF new
  <2> QED BY <2>1, <2>2, SaveLastGood, GotoGood
<1>4. CASE RollbackTask(p)
  BY <1>4, ReturnGood DEF RollbackTask
<1> QED BY <1>1, <1>2, <1>3, <1>4 DEF IntakeStep

LEMMA NextWorkerGood ==
    ASSUME TypeInv, CopyInv, NEW p \in Procs, NextWorker(p), UNCHANGED state,
           procs[p].st = NewState
    PROVE  GoodStep(p)
<1>1. CASE procs[p].w < NumWorkers
  <2> DEFINE new == [procs[p] EXCEPT !.w = procs[p].w + 1, !.pc = "consider"]
  <2>1. procs[p].w + 1 \in Workers
    BY <1>1, ProcTyped, WorkersAssumption DEF Workers
  <2>2. /\ new.pc = "consider" /\ new.w = procs[p].w + 1 /\ new.st = NewState
        /\ new.snap = procs[p].snap
    BY ProcTyped DEF Process
  <2>3. Becomes(p, new)
    BY <1>1 DEF NextWorker
  <2>4. LifeAt("consider", NewState) /\ "consider" \notin LaunchPc
    BY DEF LifeAt, LaunchPc
  <2> HIDE DEF new
  <2> QED BY <2>1, <2>2, <2>3, <2>4, BecomesGood DEF CopyInv, CopyOK
<1> QED BY <1>1, ReturnGood DEF NextWorker

LEMMA ScheduleGood ==
    ASSUME TypeInv, CopyInv, NEW p \in Procs, ScheduleStep(p)
    PROVE  GoodStep(p)
<1> USE ProcTyped, LifeKnown DEF LifeAt, LaunchPc
<1>1. CASE SnapshotWorker(p)
  <2> DEFINE w == procs[p].w
             snap == [procs[p].snap EXCEPT ![w] = state[w]]
             next == [procs[p] EXCEPT !.snap = snap, !.w = w + 1]
             first == [procs[p] EXCEPT !.snap = snap, !.w = 1, !.pc = "consider"]
  <2>1. \A v \in Workers : IsCopy(snap[v], state[v])
    BY DEF CopyInv, CopyOK, IsCopy, TypeInv, WorkerState
  <2>2. 1 \in Workers /\ (w < NumWorkers => w + 1 \in Workers)
    BY WorkersAssumption DEF Workers
  <2>3. procs[p].pc = "snapshot" /\ procs[p].st = NewState /\ UNCHANGED state
    BY <1>1 DEF SnapshotWorker
  <2> HIDE DEF snap
  <2>4. /\ next.pc = "snapshot" /\ next.w = w + 1 /\ next.st = NewState /\ next.snap = snap
        /\ first.pc = "consider" /\ first.w = 1 /\ first.st = NewState /\ first.snap = snap
    BY <2>3 DEF Process
  <2>5. \/ w < NumWorkers /\ Becomes(p, next)
        \/ Return(p)
        \/ Becomes(p, first)
    BY <1>1 DEF SnapshotWorker, snap
  <2> HIDE DEF next, first
  <2>6. CASE w < NumWorkers /\ Becomes(p, next)
    BY <2>1, <2>2, <2>3, <2>4, <2>6, BecomesGood DEF CopyInv
  <2>7. CASE Becomes(p, first)
    BY <2>1, <2>2, <2>3, <2>4, <2>7, BecomesGood DEF CopyInv
  <2>8. CASE Return(p)
    BY <2>3, <2>8, ReturnGood
  <2> QED BY <2>5, <2>6, <2>7, <2>8
<1>2. CASE ConsiderWorker(p)
  BY <1>2, NextWorkerGood, GotoGood DEF ConsiderWorker
<1>3. CASE LeaseHead(p)
  <2> DEFINE w == procs[p].w
             new == [procs[p] EXCEPT !.t = queue[w][1].task, !.pc = "inspect"]
  <2>1. /\ new.pc = "inspect" /\ new.w = w /\ new.st = procs[p].st
        /\ new.snap = procs[p].snap
    BY DEF Process
  <2>2. /\ procs[p].st = NewState
        /\ UNCHANGED state
        /\ Becomes(p, new) \/ Return(p) \/ NextWorker(p)
    BY <1>3 DEF LeaseHead
  <2> HIDE DEF new
  <2>3. CASE Becomes(p, new)
    BY <2>1, <2>2, <2>3, BecomesGood DEF CopyInv, CopyOK
  <2> QED BY <2>2, <2>3, ReturnGood, NextWorkerGood
<1>4. CASE InspectTask(p)
  <2>1. procs[p].st = NewState /\ UNCHANGED state
    BY <1>4 DEF InspectTask
  <2>2. \E pc \in {"giveback", "reserve", "skip"} : Goto(p, pc)
    BY <1>4 DEF InspectTask
  <2> QED BY <2>1, <2>2, GotoGood
<1>5. CASE GiveLeaseBack(p)
  BY <1>5, ReturnGood, NextWorkerGood DEF GiveLeaseBack
<1>6. CASE ReserveWorker(p)
  <2> DEFINE w == procs[p].w
             copy == procs[p].snap[w]
             new == [copy EXCEPT !.active = procs[p].t]
             c == [procs[p] EXCEPT !.pc = "mark"]
  <2>1. CASE Goto(p, "giveback") /\ UNCHANGED state
    BY <2>1, GotoGood
  <2>2. CASE /\ copy.rev = state[w].rev
             /\ state' = [state EXCEPT ![w] = Saved(new)]
             /\ Goto(p, "mark")
    <3>1. copy \in WorkerState /\ IsCopy(copy, state[w])
      BY DEF CopyInv, CopyOK
    <3>2. procs[p].t \in Tasks
      BY <1>6 DEF ReserveWorker, Unbound
    <3>3. new \in WorkerState /\ new.rev = copy.rev /\ new.life = copy.life
      BY <3>1, <3>2 DEF WorkerState
    <3>4. /\ c.pc = "mark" /\ c.w = w /\ c.st = procs[p].st /\ c.snap = procs[p].snap
          /\ Becomes(p, c)
      BY <2>2 DEF Process, Goto
    <3> HIDE DEF c
    <3>5. /\ c.w \in Workers /\ c.st \in WorkerState /\ IsCopy(c.st, state[c.w])
          /\ c.snap \in [Workers -> WorkerState]
          /\ \A v \in Workers : IsCopy(c.snap[v], state[v])
      BY <3>4 DEF CopyInv, CopyOK
    <3>6. LifeAt(c.pc, c.st) /\ c.pc \notin LaunchPc
      BY <3>4
    <3>7. /\ w \in Workers
          /\ state' = [state EXCEPT ![w] = Saved(new)] /\ copy.rev = state[w].rev
      BY <2>2
    <3>8. /\ new.life # copy.life => CanTransition(copy.life, new.life)
          /\ ~(copy.life = "starting" /\ new.life # "starting")
      BY <3>3
    <3> HIDE ProcTyped, LifeKnown
    <3> HIDE DEF w, copy, new, LifeAt, LaunchPc
    <3> QED BY <3>1, <3>3, <3>4, <3>5, <3>6, <3>7, <3>8, WriteGood
  <2> QED BY <1>6, <2>1, <2>2 DEF ReserveWorker
<1>7. CASE MarkAssigned(p)
  BY <1>7, ReturnGood, GotoGood DEF MarkAssigned
<1>8. CASE CommitLease(p)
  BY <1>8, ReturnGood, GotoGood DEF CommitLease
<1> QED BY <1>1, <1>2, <1>3, <1>4, <1>5, <1>6, <1>7, <1>8 DEF ScheduleStep

LEMMA ControlGood ==
    ASSUME TypeInv, CopyInv, NEW p \in Procs, ControlStep(p)
    PROVE  GoodStep(p)
<1> USE ProcTyped, LifeKnown DEF LifeAt, LaunchPc
<1>0. /\ CanTransition("executing", "paused") /\ CanTransition("paused", "idle")
      /\ CanTransition("failed", "idle") /\ CanTransition("awaiting_review", "idle")
  BY DEF CanTransition, LifecycleTransitions
<1>1. CASE StopRun(p)
  BY <1>1, GotoGood DEF StopRun
<1>2. CASE SuspendTask(p)
  BY <1>2, GotoGood DEF SuspendTask
<1>3. CASE PauseWorker(p)
  <2> DEFINE new == Became(procs[p].st, "paused")
  <2>1. new \in WorkerState /\ new.life = "paused" /\ new.rev = procs[p].st.rev
    BY DEF Became, WorkerState, Lifecycle
  <2>2. /\ procs[p].st.life = "executing"
        /\ Save(p, new, "reload") \/ SaveLast(p, new)
    BY <1>3 DEF PauseWorker
  <2> HIDE DEF new
  <2> QED BY <1>0, <2>1, <2>2, SaveGood, SaveLastGood
<1>4. CASE WakeWorker(p)
  <2> DEFINE new == Became(procs[p].st, "idle")
  <2>1. new \in WorkerState /\ new.life = "idle" /\ new.rev = procs[p].st.rev
    BY DEF Became, WorkerState, Lifecycle
  <2>2. procs[p].st.life = "paused" /\ Save(p, new, "reassign")
    BY <1>4 DEF WakeWorker
  <2> HIDE DEF new
  <2> QED BY <1>0, <2>1, <2>2, SaveGood
<1>5. CASE ReassignTask(p)
  BY <1>5, GotoGood DEF ReassignTask
<1>6. CASE FindWorker(p)
  <2> DEFINE new == [procs[p] EXCEPT !.st = state[procs[p].w], !.pc = "reassign"]
  <2>1. /\ new.pc = "reassign" /\ new.w = procs[p].w /\ new.st = state[procs[p].w]
        /\ new.snap = procs[p].snap
    BY DEF Process
  <2>2. UNCHANGED state /\ (Becomes(p, new) \/ Return(p))
    BY <1>6 DEF FindWorker
  <2>3. IsCopy(state[procs[p].w], state[procs[p].w])
    BY DEF IsCopy, TypeInv, WorkerState
  <2> HIDE DEF new
  <2> QED BY <2>1, <2>2, <2>3, BecomesGood, ReturnGood DEF CopyInv, CopyOK
<1>7. CASE AdoptTask(p)
  <2> DEFINE st == procs[p].st
             adopted == [st EXCEPT !.life = "idle", !.active = procs[p].t]
             cleared == Became(Vacant(st), "idle")
  <2>1. procs[p].t \in Tasks
    BY <1>7 DEF AdoptTask, Unbound
  <2>2. "idle" \in Lifecycle
    BY DEF Lifecycle
  <2>3. adopted \in WorkerState /\ adopted.life = "idle" /\ adopted.rev = st.rev
    BY <2>1, <2>2 DEF WorkerState
  <2>4. cleared \in WorkerState /\ cleared.life = "idle" /\ cleared.rev = st.rev
    BY <2>2 DEF Became, Vacant, WorkerState
  <2>5. CASE st.life \in {"idle", "paused"}
    <3>1. Save(p, adopted, "start")
      BY <1>7, <2>5 DEF AdoptTask
    <3> HIDE DEF adopted
    <3> QED BY <1>0, <2>3, <2>5, <3>1, SaveGood
  <2>6. CASE st.life \in {"failed", "awaiting_review"}
    <3>1. Save(p, cleared, "readopt")
      BY <1>7, <2>6 DEF AdoptTask
    <3> HIDE DEF cleared
    <3> QED BY <1>0, <2>4, <2>6, <3>1, SaveGood
  <2>7. CASE st.life \notin {"idle", "paused", "failed", "awaiting_review"}
    BY <1>7, <2>7, ReturnGood DEF AdoptTask
  <2> QED BY <2>5, <2>6, <2>7
<1>8. CASE ReadoptTask(p)
  <2> DEFINE new == [procs[p].st EXCEPT !.active = procs[p].t]
  <2>1. procs[p].t \in Tasks
    BY <1>8 DEF ReadoptTask, Unbound
  <2>2. new \in WorkerState /\ new.life = procs[p].st.life /\ new.rev = procs[p].st.rev
    BY <2>1 DEF WorkerState
  <2>3. procs[p].st.life = "idle" /\ Save(p, new, "start")
    BY <1>8 DEF ReadoptTask
  <2> HIDE DEF new
  <2> QED BY <2>2, <2>3, SaveGood
<1>9. CASE LookAtWorker(p)
  <2> DEFINE st == state[procs[p].w]
             pc == IF st.active = procs[p].t /\ st.life = "executing" THEN "stop"
                   ELSE AfterStop(p)
             new == [procs[p] EXCEPT !.st = st, !.pc = pc]
  <2>1. LifeAt(pc, st) /\ pc \notin LaunchPc
    BY DEF AfterStop
  <2>2. Becomes(p, new) /\ UNCHANGED state
    BY <1>9 DEF LookAtWorker
  <2>3. IsCopy(st, st)
    BY DEF IsCopy, TypeInv, WorkerState
  <2> HIDE DEF pc
  <2>4. new.pc = pc /\ new.w = procs[p].w /\ new.st = st /\ new.snap = procs[p].snap
    BY DEF Process
  <2> HIDE DEF new, LifeAt, LaunchPc
  <2> QED BY <2>1, <2>2, <2>3, <2>4, BecomesGood DEF CopyInv, CopyOK
<1>10. CASE ReloadWorker(p)
  <2> DEFINE st == state[procs[p].w]
             pc == AfterStop(p)
             new == [procs[p] EXCEPT !.st = st, !.pc = pc]
  <2>1. LifeAt(pc, st) /\ pc \notin LaunchPc
    BY DEF AfterStop
  <2>2. Becomes(p, new) /\ UNCHANGED state
    BY <1>10 DEF ReloadWorker
  <2>3. IsCopy(st, st)
    BY DEF IsCopy, TypeInv, WorkerState
  <2> HIDE DEF pc
  <2>4. new.pc = pc /\ new.w = procs[p].w /\ new.st = st /\ new.snap = procs[p].snap
    BY DEF Process
  <2> HIDE DEF new, LifeAt, LaunchPc
  <2> QED BY <2>1, <2>2, <2>3, <2>4, BecomesGood DEF CopyInv, CopyOK
<1>11. CASE CancelQueued(p)
  BY <1>11, ReturnGood, GotoGood DEF CancelQueued
<1>12. CASE VoidTask(p)
  BY <1>12, ReturnGood, GotoGood DEF VoidTask
<1>13. CASE VacateWorker(p)
  <2> DEFINE st == procs[p].st
             new == [Vacant(st) EXCEPT !.life = IF @ = "paused" THEN "idle" ELSE @]
  <2>1. /\ new \in WorkerState /\ new.rev = st.rev
        /\ new.life = IF st.life = "paused" THEN "idle" ELSE st.life
    BY DEF Vacant, WorkerState, Lifecycle
  <2>2. SaveLast(p, new)
    BY <1>13 DEF VacateWorker
  <2> HIDE DEF new
  <2> QED BY <1>0, <2>1, <2>2, SaveLastGood
<1>14. CASE ControlConflict(p)
  BY <1>14, ReturnGood DEF ControlConflict
<1> QED BY <1>1, <1>2, <1>3, <1>4, <1>5, <1>6, <1>7, <1>8, <1>9, <1>10, <1>11, <1>12,
           <1>13, <1>14 DEF ControlStep

LEMMA ReviewGood ==
    ASSUME TypeInv, CopyInv, NEW p \in Procs, ReviewStep(p)
    PROVE  GoodStep(p)
<1> USE ProcTyped, LifeKnown DEF LifeAt, LaunchPc
<1>0. IsCopy(state[procs[p].w], state[procs[p].w])
  BY DEF IsCopy, TypeInv, WorkerState
<1>1. CASE SubmitLoadState(p)
  <2> DEFINE st == state[procs[p].w]
             new == [procs[p] EXCEPT !.st = st, !.pc = "handoff"]
  <2>1. new.pc = "handoff" /\ new.w = procs[p].w /\ new.st = st /\ new.snap = procs[p].snap
    BY DEF Process
  <2>2. /\ UNCHANGED state
        /\ (Becomes(p, new) /\ st.life = "executing") \/ Return(p)
    BY <1>1 DEF SubmitLoadState
  <2> HIDE DEF new
  <2> QED BY <1>0, <2>1, <2>2, BecomesGood, ReturnGood DEF CopyInv, CopyOK
<1>2. CASE AppendHandoff(p)
  BY <1>2, GotoGood DEF AppendHandoff
<1>3. CASE AwaitReview(p)
  <2> DEFINE new == Became(procs[p].st, "awaiting_review")
  <2>1. new \in WorkerState /\ new.life = "awaiting_review" /\ new.rev = procs[p].st.rev
    BY DEF Became, WorkerState, Lifecycle
  <2>2. procs[p].st.life = "executing" /\ SaveLast(p, new)
    BY <1>3 DEF AwaitReview
  <2>3. CanTransition("executing", "awaiting_review")
    BY DEF CanTransition, LifecycleTransitions
  <2> HIDE DEF new
  <2> QED BY <2>1, <2>2, <2>3, SaveLastGood
<1>4. CASE VerdictLoadState(p)
  <2> DEFINE st == state[procs[p].w]
             new == [procs[p] EXCEPT !.st = st, !.pc = "decide"]
  <2>1. new.pc = "decide" /\ new.w = procs[p].w /\ new.st = st /\ new.snap = procs[p].snap
    BY DEF Process
  <2>2. UNCHANGED state /\ Becomes(p, new)
    BY <1>4 DEF VerdictLoadState
  <2> HIDE DEF new
  <2> QED BY <1>0, <2>1, <2>2, BecomesGood DEF CopyInv, CopyOK
<1>5. CASE DecideHandoff(p)
  BY <1>5, GotoGood DEF DecideHandoff
<1>6. CASE RequeueTask(p)
  BY <1>6, ReturnGood, GotoGood DEF RequeueTask
<1>7. CASE CloseReview(p)
  <2> DEFINE new == Became(Vacant(procs[p].st), "idle")
  <2>1. new \in WorkerState /\ new.life = "idle" /\ new.rev = procs[p].st.rev
    BY DEF Became, Vacant, WorkerState, Lifecycle
  <2>2. CanTransition(procs[p].st.life, "idle") /\ SaveLast(p, new)
    BY <1>7 DEF CloseReview
  <2>3. procs[p].st.life # "starting"
    BY <2>2 DEF CanTransition, LifecycleTransitions
  <2> HIDE DEF new
  <2> QED BY <2>1, <2>2, <2>3, SaveLastGood
<1>8. CASE ReviewConflict(p)
  BY <1>8, ReturnGood DEF ReviewConflict
<1> QED BY <1>1, <1>2, <1>3, <1>4, <1>5, <1>6, <1>7, <1>8 DEF ReviewStep

LEMMA InvokeGood ==
    ASSUME TypeInv, CopyInv, NEW p \in Procs, Invoke(p)
    PROVE  GoodStep(p)
<1> USE DEF LifeAt, LaunchPc
<1>1. 1 \in Workers /\ \A t \in Tasks : task[t].owner \in Workers
  BY WorkersAssumption DEF Workers, TypeInv, Task
<1>2. CASE \E w \in Workers, t \in Tasks : BeginIntake(p, w, t)
  BY <1>2, BeginGood DEF BeginIntake
<1>3. CASE \E w \in Workers : BeginStart(p, w)
  BY <1>3, BeginGood DEF BeginStart
<1>4. CASE BeginSchedule(p)
  BY <1>1, <1>4, BeginGood DEF BeginSchedule
<1>5. CASE \E w \in Workers : BeginPause(p, w)
  BY <1>5, BeginGood DEF BeginPause
<1>6. CASE \E w \in Workers : BeginResume(p, w)
  BY <1>6, BeginGood DEF BeginResume
<1>7. CASE \E t \in Tasks : BeginRetry(p, t)
  BY <1>1, <1>7, BeginGood DEF BeginRetry
<1>8. CASE \E t \in Tasks : BeginCancel(p, t)
  <2>1. PICK t \in Tasks : BeginCancel(p, t)
    BY <1>8
  <2> DEFINE new == [Ready EXCEPT !.op = "cancel", !.pc = "look", !.w = task[t].owner,
                                  !.t = t, !.status = task[t].status]
  <2>2. /\ new.pc = "look" /\ new.w = task[t].owner /\ new.st = NewState
        /\ new.snap = [v \in Workers |-> NewState]
    BY DEF Ready
  <2>3. Becomes(p, new) /\ UNCHANGED state
    BY <2>1 DEF BeginCancel
  <2> HIDE DEF new
  <2> QED BY <1>1, <2>2, <2>3, BecomesGood DEF CopyInv
<1>9. CASE \E t \in Tasks : BeginSubmit(p, t)
  BY <1>1, <1>9, BeginGood DEF BeginSubmit
<1>10. CASE \E t \in Tasks : BeginVerdict(p, t)
  BY <1>1, <1>10, BeginGood DEF BeginVerdict
<1> QED BY <1>2, <1>3, <1>4, <1>5, <1>6, <1>7, <1>8, <1>9, <1>10 DEF Invoke

\* A write of no invocation: reset, and the completion check of a run.
LEMMA QuietWrite ==
    ASSUME TypeInv, NEW w \in Workers, NEW life \in Lifecycle, NEW st \in WorkerState,
           st.rev = state[w].rev, CanTransition(state[w].life, life),
           state' = [state EXCEPT ![w] = Saved(Became(st, life))],
           state[w].life # "starting"
    PROVE  /\ \A v \in Workers : Advances(v)
           /\ \A v \in Workers : state[v].life = "starting" => state'[v].life = "starting"
<1>1. /\ Saved(Became(st, life)).rev = state[w].rev + 1
      /\ Saved(Became(st, life)).life = life
  BY DEF Saved, Became, WorkerState
<1> QED BY <1>1 DEF Advances, TypeInv

LEMMA OperateQuiet ==
    ASSUME TypeInv, NEW w \in Workers, Operate(w) \/ ExpireLease(w)
    PROVE  /\ UNCHANGED procs
           /\ \A v \in Workers : Advances(v)
           /\ \A v \in Workers : state[v].life = "starting" => state'[v].life = "starting"
<1>1. CASE ReorderQueue(w) \/ RemoveFromQueue(w) \/ ExpireLease(w)
  BY <1>1 DEF ReorderQueue, RemoveFromQueue, ExpireLease, Advances
<1>2. CASE ResetWorker(w)
  <2> DEFINE st == Vacant(state[w])
  <2>1. st \in WorkerState /\ st.rev = state[w].rev
    BY DEF Vacant, WorkerState, TypeInv
  <2>2. "idle" \in Lifecycle /\ CanTransition(state[w].life, "idle")
    BY <1>2 DEF ResetWorker, Lifecycle, CanTransition, LifecycleTransitions
  <2>3. /\ state' = [state EXCEPT ![w] = Saved(Became(st, "idle"))]
        /\ state[w].life # "starting" /\ UNCHANGED procs
    BY <1>2 DEF ResetWorker
  <2> HIDE DEF st
  <2> QED BY <2>1, <2>2, <2>3, QuietWrite
<1> QED BY <1>1, <1>2 DEF Operate

LEMMA RunCompletesQuiet ==
    ASSUME TypeInv, NEW r \in live, RunCompletes(r)
    PROVE  /\ UNCHANGED procs
           /\ \A v \in Workers : Advances(v)
           /\ \A v \in Workers : state[v].life = "starting" => state'[v].life = "starting"
<1> DEFINE w == task[r[1]].owner
<1>1. w \in Workers /\ state[w] \in WorkerState
  BY DEF TypeInv, Run, Task
<1>2. CASE UNCHANGED state
  BY <1>2 DEF RunCompletes, Advances
<1>3. CASE /\ state[w].life = "executing"
           /\ state' = [state EXCEPT ![w] = Saved(Became(state[w], "blocked"))]
  <2>1. "blocked" \in Lifecycle /\ CanTransition(state[w].life, "blocked")
    BY <1>3 DEF Lifecycle, CanTransition, LifecycleTransitions
  <2> HIDE DEF w
  <2> QED BY <1>1, <1>3, <2>1, QuietWrite DEF RunCompletes
<1> QED BY <1>2, <1>3 DEF RunCompletes

-----------------------------------------------------------------------------
LEMMA InitCopy == Init => CopyInv
<1> SUFFICES ASSUME Init PROVE CopyInv
  OBVIOUS
<1>1. \A w \in Workers : state[w] = NewState
  BY DEF Init
<1>2. IsCopy(NewState, NewState)
  BY DEF IsCopy, NewState
<1>3. 1 \in Workers
  BY WorkersAssumption DEF Workers
<1>4. \A p \in Procs : CopyOK(p)
  BY <1>1, <1>2, <1>3, RecordsTyped DEF Init, CopyOK, LifeAt, LaunchPc
<1>5. LaunchExclusive
  BY RecordsTyped DEF Init, LaunchExclusive, Launching
<1> QED BY <1>1, <1>2, <1>4, <1>5 DEF CopyInv

\* Every step is good for one invocation, or quiet.
LEMMA NextGood ==
    ASSUME TypeInv, CopyInv, [Next]_vars
    PROVE  \/ \E p \in Procs : GoodStep(p)
           \/ /\ UNCHANGED procs
              /\ \A v \in Workers : Advances(v)
              /\ \A v \in Workers :
                    state[v].life = "starting" => state'[v].life = "starting"
<1>1. CASE \E p \in Procs : Invoke(p) \/ Step(p)
  BY <1>1, InvokeGood, IntakeGood, ScheduleGood, StartGood, ControlGood, ReviewGood DEF Step
<1>2. CASE \E w \in Workers : Operate(w) \/ ExpireLease(w)
  BY <1>2, OperateQuiet
<1>3. CASE \E r \in live : RunCompletes(r)
  BY <1>3, RunCompletesQuiet
<1>4. CASE \E p \in Procs : Crash(p)
  BY <1>4, ReturnGood DEF Crash
<1>5. CASE UNCHANGED vars
  BY <1>5 DEF vars, Advances
<1> QED BY <1>1, <1>2, <1>3, <1>4, <1>5 DEF Next

LEMMA NextCopy == TypeInv /\ CopyInv /\ [Next]_vars => CopyInv'
<1> SUFFICES ASSUME TypeInv, CopyInv, [Next]_vars PROVE CopyInv'
  OBVIOUS
<1>1. TypeInv'
  BY NextTyped
<1> QED BY <1>1, NextGood, StepKeeps, QuietKeeps

\* workerstate.Save (store.go:102-126): a copy that passes the revision check is
\* the record on disk, so no invocation ever overwrites what another one wrote
\* to a worker's state since it read it.
THEOREM CopiesAreCurrent == Spec => []CopiesCurrent
<1>1. TypeInv /\ CopyInv => CopiesCurrent
  BY DEF CopyInv, CopyOK, CopiesCurrent, Fresh, IsCopy
<1> QED BY <1>1, InitTyped, NextTyped, InitCopy, NextCopy, PTL DEF Spec

\* start.go:143-208: at most one invocation is between a worker's Transition to
\* starting and the write that settles its launch, and the worker is starting
\* all that time, whatever is invoked meanwhile and whichever invocations die.
THEOREM LaunchesExclude == Spec => []LaunchExclusive
<1>1. CopyInv => LaunchExclusive
  BY DEF CopyInv
<1> QED BY <1>1, InitTyped, NextTyped, InitCopy, NextCopy, PTL DEF Spec

\* lifecycle.go: every change of a worker's lifecycle on disk is in the table,
\* although each command validates it against its own copy, and retry, Start
\* and cancel assign the lifecycle without validating it.
THEOREM LifecycleFollows == Spec => LifecycleFollowsTable
<1>1. TypeInv /\ CopyInv /\ [Next]_vars =>
        [\A w \in Workers :
           state'[w].life # state[w].life => CanTransition(state[w].life, state'[w].life)]_vars
  BY NextGood DEF GoodStep, Advances
<1> QED BY <1>1, InitTyped, NextTyped, InitCopy, NextCopy, PTL DEF Spec, LifecycleFollowsTable
=============================================================================
