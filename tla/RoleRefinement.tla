---------------------------- MODULE RoleRefinement ----------------------------
(***************************************************************************)
(* internal/roleenhance, refiner.go and merge.go: how the recommendations  *)
(* of an advisor become the items of a review, and what an item does to a  *)
(* role file.                                                              *)
(*                                                                         *)
(* The value of a field is the set of its entries: one at most in a scalar *)
(* field, any number in a list, whose order is left out, as are the        *)
(* confidence, the explanation and the evidence of a recommendation.       *)
(***************************************************************************)
EXTENDS FiniteSets, FiniteSetsExt

CONSTANTS Roles, ScalarFields, ListFields, Values

Fields == ScalarFields \cup ListFields

Operation == {"set", "append", "remove"}
Safety == {"addition", "replacement", "removal", "conflict"}

\* What the fields of a role hold.
Content == [Fields -> SUBSET Values]

Recommendation == [role : Roles, field : Fields, op : Operation, values : SUBSET Values]

\* supportedOperations and normalizeRecommendation.
SupportedValues(field, values) ==
    values # {} /\ (field \in ScalarFields => Cardinality(values) = 1)

Supported(rec) ==
    /\ rec.field \in ScalarFields => rec.op = "set"
    /\ SupportedValues(rec.field, rec.values)

\* proposedValue.
ProposedValue(old, op, values) ==
    CASE op = "set"    -> values
      [] op = "append" -> old \cup values
      [] op = "remove" -> old \ values

\* A refined item as its id names it, which is a digest of the rest.
Refined(role, field, op, old, new, safety) ==
    [role |-> role, field |-> field, op |-> op, old |-> old, new |-> new, safety |-> safety]

Item == [role : Roles, field : Fields, op : Operation, old : SUBSET Values,
         new : SUBSET Values, safety : Safety]

\* Different sets, a set beside anything else, or one entry that is both
\* appended and removed.
Contradicts(sets, appends, removes) ==
    \/ Cardinality({rec.values : rec \in sets}) > 1
    \/ sets # {} /\ appends \cup removes # {}
    \/ \E a \in appends, r \in removes : a.values \cap r.values # {}

Replacing(old) == IF old = {} THEN "addition" ELSE "replacement"

\* refineField: contradicting recommendations are items of their own; sets that
\* agree and all the appends are one, each removed entry is one; what changes
\* nothing is dropped.
RefineField(role, field, old, group) ==
    LET by(op)  == {rec \in group : rec.op = op}
        sets    == by("set")
        appends == by("append")
        removes == by("remove")
        item(op, values, safety) ==
            Refined(role, field, op, old, ProposedValue(old, op, values), safety)
        entries(recs) == UNION {rec.values : rec \in recs}
    IN  IF Contradicts(sets, appends, removes)
        THEN {item(rec.op, rec.values, "conflict") : rec \in group}
        ELSE {i \in {item("set", rec.values, Replacing(old)) : rec \in sets}
                    \cup {item("append", entries(appends), "addition") : rec \in appends}
                    \cup {item("remove", {v}, "removal") : v \in entries(removes)} :
                i.new # old}

\* RoleReviewRefiner.Refine, without the decisions.
Refine(files, recs) ==
    UNION {RefineField(role, field, files[role][field],
                       {rec \in recs : rec.role = role /\ rec.field = field}) :
             role \in Roles, field \in Fields}

\* exactPlan: what is asked of the merge for an item whose new value may have
\* been edited.
PlannedValues(op, old, new) ==
    CASE op = "set"    -> new
      [] op = "append" -> new \ old
      [] op = "remove" -> old \ new

\* The items of one role in the order of their ids, which is arbitrary.
Merged(content, items) ==
    LET effect(i, c) ==
            [c EXCEPT ![i.field] = ProposedValue(@, i.op, PlannedValues(i.op, i.old, i.new))]
    IN  FoldSet(effect, content, items)
=============================================================================
