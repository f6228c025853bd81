------------------------------ MODULE RoleReviews ------------------------------
(***************************************************************************)
(* internal/roleenhance, lifecycle.go and review_store.go: reviews of role *)
(* files that are created from recommendations, refined, decided, edited,  *)
(* rejected and applied, while the user works on the same files.           *)
(*                                                                         *)
(* Every command but the creation of a review holds the lifecycle lock     *)
(* from its start to its end, so that the only one with steps of its own   *)
(* is apply; the others load the review, check its sources and save it in  *)
(* one step. A command that fails without a change is left out.            *)
(***************************************************************************)
EXTENDS Naturals, RoleRefinement

CONSTANTS
    Written,      \* what the role files may hold at the beginning
    Proposals,    \* the sets of recommendations that the advisor may return
    NumReviews,   \* bound on the reviews
    NumEdits,     \* bound on the edits of the user
    NumChanges,   \* bound on the decisions, edits and refinements of reviews
    MaxFaults     \* bound on the crashes and failed renames of an apply

Reviews == 1 .. NumReviews
Edits == 1 .. NumEdits

\* A scalar field is one string. ValidateRecommendations: no unsupported
\* recommendation reaches a review; an answer of the advisor is finite.
ASSUME ReviewsAssumption ==
    /\ Written \subseteq [Roles -> Content]
    /\ \A w \in Written, r \in Roles, f \in ScalarFields : Cardinality(w[r][f]) <= 1
    /\ \A recs \in Proposals :
          /\ recs \subseteq {rec \in Recommendation : Supported(rec)}
          /\ IsFiniteSet(recs)
          /\ \A rec \in recs : IsFiniteSet(rec.values)
    /\ IsFiniteSet(Roles) /\ IsFiniteSet(Fields)
    /\ {NumReviews, NumEdits, NumChanges, MaxFaults} \subseteq Nat
    /\ NumReviews >= 1

VARIABLES
    files,     \* files[r]: what a role file holds
    marks,     \* marks[r]: the edits of the user that are in it
    notes,     \* the version of the documents that the evidence was collected from
    review,    \* review[s]: the stored reviews
    adviser,   \* what a creation has read, while the advisor is thinking
    proc,      \* the apply that holds the lifecycle lock
    edits, changes, faults,
    written,   \* history: the items that were written to their files, by review
    late,      \* history: the edits made while an apply was renaming
    erased     \* history: the reviews that a refine took an applied item from

vars == <<files, marks, notes, review, adviser, proc, edits, changes, faults, written, late,
          erased>>

ReviewStatus == {"proposed", "refined", "partially_decided", "decided", "applied",
                 "rejected", "stale"}
Decision == {"pending", "approved", "rejected"}

\* The bytes of a role file, and everything a review was computed from.
Bytes == [content : Content, marks : SUBSET Edits]
Sources == [roles : [Roles -> Bytes], notes : Nat]

\* An item keeps the id it was refined with when its value is edited.
StoredItem == [id : Item, new : SUBSET Values, safety : Safety, decision : Decision,
               applied : BOOLEAN]
ReviewEdit == [id : Item, new : SUBSET Values]

Review == [status : ReviewStatus \cup {"absent"}, sources : Sources,
           recs : SUBSET Recommendation, items : SUBSET StoredItem, edited : SUBSET ReviewEdit]

RoleBytes == [r \in Roles |-> [content |-> files[r], marks |-> marks[r]]]
CurrentSources == [roles |-> RoleBytes, notes |-> notes]

NoReview == [status |-> "absent", recs |-> {}, items |-> {}, edited |-> {},
             sources |-> [roles |-> [r \in Roles |-> [content |-> [f \in Fields |-> {}],
                                                      marks |-> {}]],
                          notes |-> 0]]

NoAdvice == [busy |-> FALSE, sources |-> NoReview.sources, recs |-> {}]

\* An apply: its items, the role files as it loaded them, what it has staged
\* and the files that are still to be replaced.
Apply == [pc : {"idle", "load", "merge", "check", "rename", "record"}, of : Reviews,
          safe : BOOLEAN, chosen : SUBSET StoredItem, seen : [Roles -> Bytes],
          staged : [Roles -> Content], todo : SUBSET Roles]

Idle == [pc |-> "idle", of |-> 1, safe |-> FALSE, chosen |-> {},
         seen |-> NoReview.sources.roles, staged |-> [r \in Roles |-> [f \in Fields |-> {}]],
         todo |-> {}]

Locked == proc.pc # "idle"

-----------------------------------------------------------------------------
(* The store.                                                               *)

\* validTransition.
ValidTransition(from, to) ==
    from = to \/
    to \in CASE from = "proposed" -> {"refined", "partially_decided", "rejected", "stale"}
             [] from = "refined" -> {"partially_decided", "decided", "applied", "rejected",
                                     "stale"}
             [] from = "partially_decided" -> {"decided", "applied", "rejected", "stale"}
             [] from = "decided" -> {"refined", "partially_decided", "applied", "rejected",
                                     "stale"}
             [] from = "stale" -> {"refined", "rejected"}
             [] OTHER -> {}

With(items, decision) == {i \in items : i.decision = decision}

\* RoleReview.Validate.
Valid(rv) ==
    LET pending  == With(rv.items, "pending")
        decided  == rv.items \ pending
    IN  /\ \A i \in rv.items : i.applied => i.decision = "approved"
        /\ {e.id : e \in rv.edited} \subseteq {i.id : i \in rv.items}
        /\ rv.status \in {"proposed", "refined"} => decided = {}
        /\ rv.status = "partially_decided" => decided # {} /\ pending # {}
        /\ rv.status = "decided" => pending = {} /\ decided # {}
        /\ rv.status \in {"applied", "rejected"} => pending = {}
        /\ rv.status = "rejected" => With(rv.items, "rejected") = rv.items
        /\ rv.status = "applied" => With(rv.items, "approved") # {}

\* CompareAndUpdate. The lifecycle lock keeps others from moving the revision.
Update(s, next) ==
    /\ ValidTransition(review[s].status, next.status)
    /\ Valid(next)
    /\ review' = [review EXCEPT ![s] = next]

-----------------------------------------------------------------------------
(* Creation.                                                                *)

\* Enhance reads the role files and the documents and asks the advisor.
BeginEnhance ==
    /\ ~adviser.busy
    /\ \E s \in Reviews : review[s].status = "absent"
    /\ \E recs \in Proposals :
          adviser' = [busy |-> TRUE, sources |-> CurrentSources, recs |-> recs]
    /\ UNCHANGED <<files, marks, notes, review, proc, edits, changes, faults, written, late,
                   erased>>

AdvisorFails ==
    /\ adviser.busy
    /\ adviser' = NoAdvice
    /\ UNCHANGED <<files, marks, notes, review, proc, edits, changes, faults, written, late,
                   erased>>

Undecided(ids) ==
    {[id |-> i, new |-> i.new, safety |-> i.safety, decision |-> "pending", applied |-> FALSE] :
       i \in ids}

\* The id of a review is a digest of what it proposes: the same proposal is
\* stored once. The documents are read again to be hashed (lifecycle.go:62).
Create ==
    LET seen    == adviser.sources.roles
        ids     == Refine([r \in Roles |-> seen[r].content], adviser.recs)
        sources == [roles |-> seen, notes |-> notes]
    IN  /\ adviser.busy
        /\ adviser' = NoAdvice
        /\ \A s \in Reviews : ~(/\ review[s].recs = adviser.recs
                                 /\ review[s].sources = sources
                                 /\ {i.id : i \in review[s].items} = ids)
        /\ \E s \in Reviews :
              /\ review[s].status = "absent"
              /\ \A t \in Reviews : t < s => review[t].status # "absent"
              /\ review' = [review EXCEPT ![s] =
                               [status |-> "refined", sources |-> sources,
                                recs |-> adviser.recs, items |-> Undecided(ids),
                                edited |-> {}]]
        /\ UNCHANGED <<files, marks, notes, proc, edits, changes, faults, written, late, erased>>

-----------------------------------------------------------------------------
(* Commands of one step.                                                    *)

\* verifySources.
Verified(s) == review[s].sources = CurrentSources

\* A command on a stored review, which waits for the lifecycle lock.
Open(s) == ~Locked /\ review[s].status # "absent"

\* A decision, an edit or a refinement, of which there may be any number.
Change(s) ==
    /\ Open(s)
    /\ changes < NumChanges
    /\ changes' = changes + 1

\* markStale, by refine and by apply.
MarkStale(s) ==
    /\ Open(s)
    /\ review[s].status \notin {"stale", "rejected"}
    /\ ~Verified(s)
    /\ Update(s, [review[s] EXCEPT !.status = "stale"])
    /\ UNCHANGED <<files, marks, notes, adviser, proc, edits, changes, faults, written, late,
                   erased>>

\* sameRefinedContent. A list that was loaded never equals one that was
\* computed, and an item that was applied none that was not.
Survivors(prior, id, new) ==
    {i \in prior : /\ id.field \in ScalarFields
                   /\ i.id = id
                   /\ i.new = new
                   /\ i.safety = id.safety
                   /\ ~i.applied}

Decided(items) == items \ With(items, "pending")

\* The items of a refinement: first with their refined values, where the
\* decisions on equal items survive, then with the edits.
Again(rv, id) ==
    LET values == {e.new : e \in {x \in rv.edited : x.id = id}}
        new    == IF values = {} THEN id.new ELSE CHOOSE v \in values : TRUE
        kept   == Survivors(rv.items, id, id.new) \cup Survivors(rv.items, id, new)
    IN  [id |-> id, new |-> new, safety |-> id.safety, applied |-> FALSE,
         decision |-> IF kept = {} THEN "pending" ELSE (CHOOSE i \in kept : TRUE).decision]

\* RefineReview refuses a review whose decisions all survive.
FullyDecided(rv, ids) ==
    /\ ids # {}
    /\ rv.status \notin {"applied", "rejected"}
    /\ \A id \in ids : Decided(Survivors(rv.items, id, id.new)) # {}

StatusAfterRefine(rv, items) ==
    CASE Decided(items) = {} -> "refined"
      [] Decided(items) # {} /\ With(items, "pending") # {} -> "partially_decided"
      [] Decided(items) = items /\ items # {} /\ With(items, "approved") = {} -> "rejected"
      [] OTHER -> IF rv.status = "applied" THEN "applied" ELSE "decided"

RefineAgain(s) ==
    LET rv    == review[s]
        ids   == Refine(files, rv.recs)
        items == {Again(rv, id) : id \in ids}
    IN  /\ Change(s)
        /\ Verified(s)
        /\ ~FullyDecided(rv, ids)
        /\ Update(s, [rv EXCEPT !.items = items, !.status = StatusAfterRefine(rv, items)])
        /\ erased' = IF \E i \in rv.items : i.applied THEN erased \cup {s} ELSE erased
        /\ UNCHANGED <<files, marks, notes, adviser, proc, edits, faults, written, late>>

\* Mutant: a partially applied review is rejected.
RejectApplied(s) ==
    /\ Open(s)
    /\ review[s].status \notin {"rejected", "applied"}
    /\ Update(s, [review[s] EXCEPT
                     !.status = "rejected",
                     !.items = {[i EXCEPT !.decision = "rejected", !.applied = FALSE] : i \in @}])
    /\ UNCHANGED <<files, marks, notes, adviser, proc, edits, changes, faults, written, late,
                   erased>>

Reject(s) ==
    /\ Open(s)
    /\ review[s].status \notin {"rejected", "applied"}
    /\ \A i \in review[s].items : ~i.applied
    /\ Update(s, [review[s] EXCEPT !.status = "rejected",
                                   !.items = {[i EXCEPT !.decision = "rejected"] : i \in @}])
    /\ UNCHANGED <<files, marks, notes, adviser, proc, edits, changes, faults, written, late,
                   erased>>

Closed(s) == review[s].status \in {"applied", "rejected", "stale"}

StatusAfterDecide(items) ==
    IF With(items, "pending") # {} THEN "partially_decided"
    ELSE IF With(items, "approved") = {} THEN "rejected" ELSE "decided"

Decide(s, i, decision) ==
    LET items == (review[s].items \ {i}) \cup {[i EXCEPT !.decision = decision]}
    IN  /\ Change(s)
        /\ ~Closed(s)
        /\ Update(s, [review[s] EXCEPT !.items = items, !.status = StatusAfterDecide(items)])
        /\ UNCHANGED <<files, marks, notes, adviser, proc, edits, faults, written, late, erased>>

\* Mutant: the edited value is not normalized.
AnyValue(i, value) == value # i.id.old

\* normalizeEditedValue, and no edit that changes nothing. A list that was
\* loaded never equals a normalized one.
Editable(i, value) ==
    /\ SupportedValues(i.id.field, value)
    /\ i.id.field \in ScalarFields => value # i.id.old

EditValue(s, i, value) ==
    LET item  == [i EXCEPT !.new = value, !.decision = "pending",
                           !.safety = IF i.id.op = "remove" THEN "removal"
                                      ELSE Replacing(i.id.old)]
        items == (review[s].items \ {i}) \cup {item}
    IN  /\ Change(s)
        /\ ~Closed(s)
        /\ Editable(i, value)
        /\ Update(s, [review[s] EXCEPT
                         !.items = items,
                         !.edited = {e \in @ : e.id # i.id} \cup {[id |-> i.id, new |-> value]},
                         !.status = IF Decided(items) = {} THEN "refined"
                                    ELSE "partially_decided"])
        /\ UNCHANGED <<files, marks, notes, adviser, proc, edits, faults, written, late, erased>>

-----------------------------------------------------------------------------
(* Apply.                                                                   *)

\* chooseItems for --safe: additions that were not rejected.
SafeItems(s) ==
    {i \in review[s].items : i.decision # "rejected" /\ i.safety = "addition"}

BeginApply(s) ==
    /\ Open(s)
    /\ review[s].status \notin {"rejected", "stale"}
    /\ Verified(s)
    /\ \E safe \in BOOLEAN :
          \E chosen \in IF safe THEN {SafeItems(s)} ELSE SUBSET review[s].items :
             /\ \E i \in chosen : ~i.applied
             /\ proc' = [Idle EXCEPT !.pc = "load", !.of = s, !.safe = safe, !.chosen = chosen]
    /\ UNCHANGED <<files, marks, notes, review, adviser, edits, changes, faults, written, late,
                   erased>>

LoadFiles ==
    /\ proc.pc = "load"
    /\ proc' = [proc EXCEPT !.pc = "merge", !.seen = RoleBytes]
    /\ UNCHANGED <<files, marks, notes, review, adviser, edits, changes, faults, written, late,
                   erased>>

\* The items that are planned, as exactPlan hands them on.
Planned(r) ==
    {[role |-> i.id.role, field |-> i.id.field, op |-> i.id.op, old |-> i.id.old, new |-> i.new,
      id |-> i.id] :
       i \in {c \in proc.chosen : ~c.applied /\ c.id.role = r}}

PlannedRoles == {r \in Roles : Planned(r) # {}}

\* Mutant: the old value of an item is not compared with the file.
MergeableUnread(r) ==
    /\ proc.seen[r] = RoleBytes[r]
    /\ \A i \in Planned(r) : PlannedValues(i.op, i.old, i.new) # {}

\* What RoleMergeService.Apply asks of a file and its items: it has not changed
\* since it was loaded, and it holds the old values of the review.
Mergeable(r) ==
    /\ proc.seen[r] = RoleBytes[r]
    /\ \A i \in Planned(r) : /\ i.old = proc.seen[r].content[i.field]
                             /\ PlannedValues(i.op, i.old, i.new) # {}

Merge ==
    /\ proc.pc = "merge"
    /\ proc' = IF \A r \in PlannedRoles : Mergeable(r)
               THEN [proc EXCEPT !.pc = "check", !.todo = PlannedRoles,
                                 !.staged = [r \in Roles |-> Merged(files[r], Planned(r))]]
               ELSE Idle
    /\ UNCHANGED <<files, marks, notes, review, adviser, edits, changes, faults, written, late,
                   erased>>

\* Mutant: the files are not read again when everything is staged.
CheckNothing ==
    /\ proc.pc = "check"
    /\ proc' = [proc EXCEPT !.pc = "rename"]
    /\ UNCHANGED <<files, marks, notes, review, adviser, edits, changes, faults, written, late,
                   erased>>

\* The last look at the files before the first of them is replaced.
CheckStaged ==
    /\ proc.pc = "check"
    /\ proc' = IF \A r \in proc.todo : proc.seen[r] = RoleBytes[r]
               THEN [proc EXCEPT !.pc = "rename"] ELSE Idle
    /\ UNCHANGED <<files, marks, notes, review, adviser, edits, changes, faults, written, late,
                   erased>>

\* The files are replaced one by one, by whatever was staged.
Rename ==
    LET r == CHOOSE x \in proc.todo : TRUE
    IN  /\ proc.pc = "rename"
        /\ files' = [files EXCEPT ![r] = proc.staged[r]]
        /\ marks' = [marks EXCEPT ![r] = proc.seen[r].marks]
        /\ proc' = [proc EXCEPT !.todo = @ \ {r},
                               !.pc = IF proc.todo = {r} THEN "record" ELSE @]
        /\ written' = written \cup {<<proc.of, i.id>> : i \in Planned(r)}
        /\ UNCHANGED <<notes, review, adviser, edits, changes, faults, late, erased>>

\* The review records what was applied, and the files as they are by then.
Record ==
    LET rv    == review[proc.of]
        items == {IF i \in proc.chosen THEN [i EXCEPT !.decision = "approved", !.applied = TRUE]
                                       ELSE i : i \in rv.items}
    IN  /\ proc.pc = "record"
        /\ Update(proc.of, [rv EXCEPT
                 !.items = items,
                 !.status = IF With(items, "pending") = {} THEN "applied"
                            ELSE "partially_decided",
                 !.sources.roles = RoleBytes])
        /\ proc' = Idle
        /\ UNCHANGED <<files, marks, notes, adviser, edits, changes, faults, written, late,
                       erased>>

\* The command dies, or a file cannot be replaced: what was replaced stays.
Stops ==
    /\ Locked
    /\ faults < MaxFaults
    /\ faults' = faults + 1
    /\ proc' = Idle
    /\ UNCHANGED <<files, marks, notes, review, adviser, edits, changes, written, late, erased>>

-----------------------------------------------------------------------------
(* The user.                                                                *)

\* An entry is put into a field or taken out of it.
EditRole(r, f, v) ==
    /\ edits < NumEdits
    /\ edits' = edits + 1
    /\ files' = [files EXCEPT ![r][f] = IF f \in ScalarFields THEN {v}
                                        ELSE IF v \in @ THEN @ \ {v} ELSE @ \cup {v}]
    /\ marks' = [marks EXCEPT ![r] = @ \cup {edits'}]
    /\ late' = IF proc.pc = "rename" THEN late \cup {edits'} ELSE late
    /\ UNCHANGED <<notes, review, adviser, proc, changes, faults, written, erased>>

\* A document is changed, or changed back.
EditNotes ==
    /\ notes' = 1 - notes
    /\ UNCHANGED <<files, marks, review, adviser, proc, edits, changes, faults, written, late,
                   erased>>

Init ==
    /\ files \in Written
    /\ marks = [r \in Roles |-> {}]
    /\ notes = 0
    /\ review = [s \in Reviews |-> NoReview]
    /\ adviser = NoAdvice
    /\ proc = Idle
    /\ edits = 0
    /\ changes = 0
    /\ faults = 0
    /\ written = {}
    /\ late = {}
    /\ erased = {}

Next ==
    \/ BeginEnhance \/ AdvisorFails \/ Create
    \/ \E s \in Reviews : MarkStale(s) \/ RefineAgain(s) \/ Reject(s) \/ BeginApply(s)
    \/ \E s \in Reviews : \E i \in review[s].items :
          \/ \E decision \in {"approved", "rejected"} : Decide(s, i, decision)
          \/ \E value \in SUBSET Values : EditValue(s, i, value)
    \/ LoadFiles \/ Merge \/ CheckStaged \/ Rename \/ Record \/ Stops
    \/ \E r \in Roles, f \in Fields, v \in Values : EditRole(r, f, v)
    \/ EditNotes

Spec == Init /\ [][Next]_vars

-----------------------------------------------------------------------------
(* Every variable keeps its shape, and a scalar field one value at most. *)
TypeOK ==
    /\ files \in [Roles -> Content]
    /\ \A r \in Roles, f \in ScalarFields : Cardinality(files[r][f]) <= 1
    /\ marks \in [Roles -> SUBSET Edits]
    /\ notes \in {0, 1}
    /\ DOMAIN review = Reviews
    /\ \A s \in Reviews : /\ review[s].status \in ReviewStatus \cup {"absent"}
                           /\ review[s].items \subseteq StoredItem
                           /\ review[s].status # "absent" => Valid(review[s])
    /\ proc.of \in Reviews
    /\ proc.chosen \subseteq StoredItem
    /\ proc.todo \subseteq Roles
    /\ proc.staged \in [Roles -> Content]
    /\ edits \in 0 .. NumEdits
    /\ changes \in 0 .. NumChanges
    /\ faults \in 0 .. MaxFaults

\* Where the user does not edit a file while it is being replaced, a step that
\* replaces it changes only fields that an item of the review is about, from
\* the very value the review shows, and adds only with --safe (README.md:659).
WritesReviewed ==
    [][\A r \in proc.todo \ proc'.todo :
          proc.pc = "rename" /\ marks[r] = proc.seen[r].marks =>
             \A f \in Fields : files'[r][f] # files[r][f] =>
                /\ \E i \in review[proc.of].items :
                      i.id.role = r /\ i.id.field = f /\ i.id.old = files[r][f]
                /\ proc.safe => files[r][f] \subseteq files'[r][f]]_vars

\* An edit of the user is never overwritten, unless it was made between the
\* last check and the replacement of the files (merge.go:134).
UserEditsKept == \A e \in (1 .. edits) \ late : \E r \in Roles : e \in marks[r]

\* A review that was rejected has changed no file, unless a fault kept an apply
\* from recording what it did, or a refine dropped the items that were applied
\* (lifecycle.go:222).
RejectedUntouched ==
    \A s \in Reviews \ erased :
        review[s].status = "rejected" /\ faults = 0 => \A w \in written : w[1] # s
=============================================================================
