-------------------------------- MODULE MCRoles --------------------------------
(***************************************************************************)
(* Instances of RoleReviews for TLC.                                       *)
(***************************************************************************)
EXTENDS RoleReviews

\* A recommendation.
Rec(role, field, op, values) == [role |-> role, field |-> field, op |-> op, values |-> values]

CONSTANTS dev, ops, name, gates, a, b

\* One role has a name and a gate, the other neither.
SomeFiles == {[r \in Roles |-> [f \in Fields |-> IF r = dev THEN {a} ELSE {}]]}

\* An append and a removal on one list beside a name; a change of both roles;
\* two names that contradict each other.
SomeProposals ==
    {{Rec(dev, gates, "append", {b}), Rec(dev, gates, "remove", {a}), Rec(dev, name, "set", {b})},
     {Rec(dev, gates, "append", {b}), Rec(ops, name, "set", {a})},
     {Rec(dev, name, "set", {a}), Rec(dev, name, "set", {b})}}
=============================================================================
