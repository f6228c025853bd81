---------------------------- MODULE LaunchInputs ----------------------------
(***************************************************************************)
(* The model that a worker is launched with. A slice requires a model, a   *)
(* maximal cost and capabilities, each of them by default what its role    *)
(* requires; the repository may have a policy of models; and the runtime   *)
(* has a catalog of those that it can select.                              *)
(*                                                                         *)
(* A requirement is a record of model, cost and caps, "" or {} if it is    *)
(* not set. A policy of models is [present, default, models], the models a *)
(* sequence of [id, cost, caps], sorted by id.                             *)
(***************************************************************************)
EXTENDS Naturals, Sequences, FiniteSets, FiniteSetsExt

Rank(cost) == CASE cost = "low" -> 0 [] cost = "medium" -> 1 [] cost = "high" -> 2

NoRequirement == [model |-> "", cost |-> "", caps |-> {}]

ModelsOK(policy) ==
    policy.present =>
        /\ policy.models # <<>>
        /\ \A j, k \in DOMAIN policy.models : policy.models[j].id = policy.models[k].id => j = k
        /\ policy.default # "" =>
              \E k \in DOMAIN policy.models : policy.models[k].id = policy.default

\* Mutant: the role of a slice that names its model does not limit it.
RequiredByName(slice, role) ==
    IF slice.model # "" THEN slice
    ELSE [model |-> role.model, cost |-> IF slice.cost # "" THEN slice.cost ELSE role.cost,
          caps |-> IF slice.caps # {} THEN slice.caps ELSE role.caps]

\* What a slice does not set is what its role sets.
Required(slice, role) ==
    [model |-> IF slice.model # "" THEN slice.model ELSE role.model,
     cost |-> IF slice.cost # "" THEN slice.cost ELSE role.cost,
     caps |-> IF slice.caps # {} THEN slice.caps ELSE role.caps]

Satisfies(model, required) ==
    /\ required.cost # "" => Rank(model.cost) <= Rank(required.cost)
    /\ required.caps \subseteq model.caps

\* Of those that satisfy the requirement the cheapest, and of these the first.
Cheapest(models, required) ==
    LET fit == {k \in DOMAIN models : Satisfies(models[k], required)}
        best == {k \in fit : \A l \in fit : Rank(models[k].cost) <= Rank(models[l].cost)}
    IN  IF best = {} THEN {} ELSE {models[Min(best)].id}

\* The model in a set, or {} if there is none; "" leaves it to the runtime.
Resolve(policy, required) ==
    CASE ~policy.present ->
            IF required.cost = "" /\ required.caps = {} THEN {required.model} ELSE {}
      [] policy.present /\ required.model # "" ->
            {policy.models[k].id : k \in {l \in DOMAIN policy.models :
                policy.models[l].id = required.model /\ Satisfies(policy.models[l], required)}}
      [] policy.present /\ required = NoRequirement /\ policy.default # "" -> {policy.default}
      [] OTHER -> Cheapest(policy.models, required)

Selectable(ids, catalog) == {id \in ids : id = "" \/ id \in catalog}

ModelFor(slice, role, policy, catalog) ==
    IF ModelsOK(policy) THEN Selectable(Resolve(policy, Required(slice, role)), catalog) ELSE {}
=============================================================================
