------------------------------ MODULE Roles_proofs ------------------------------
(***************************************************************************)
(* Theorems about RoleReviews, for any roles, fields, values, proposals    *)
(* and numbers of reviews, edits, changes and faults.                      *)
(***************************************************************************)
EXTENDS RoleReviews, FiniteSetTheorems, WellFoundedInduction, TLAPS

-----------------------------------------------------------------------------
(* Folds over finite sets.                                                   *)

\* The natural numbers are well-founded: a set of them that has 0, and with every
\* number the next one, has them all.
LEMMA NaturalsFrom0 ==
    ASSUME NEW N \in SUBSET Nat, 0 \in N, \A n \in N : n + 1 \in N
    PROVE  N = Nat
<1> DEFINE Less == {pair \in Nat \X Nat : pair[1] < pair[2]}
<1> SUFFICES ASSUME Nat \ N # {} PROVE FALSE
  OBVIOUS
<1>1. PICK m \in Nat \ N : \A x \in Nat \ N : <<x, m>> \notin Less
  <2>1. IsWellFoundedOn(Less, Nat)
    BY NatLessThanWellFounded DEF OpToRel
  <2> HIDE DEF Less
  <2> QED BY <2>1, WFMin
<1>2. m - 1 \in Nat /\ <<m - 1, m>> \in Less
  <2>1. m # 0
    OBVIOUS
  <2> QED BY <2>1
<1>3. m - 1 \in N
  BY <1>1, <1>2
<1> QED BY <1>3

Pick(s) == CHOOSE x \in s : TRUE

LEMMA PickIn ==
    ASSUME NEW S, IsFiniteSet(S), NEW s \in SUBSET S, s # {}
    PROVE  /\ Pick(s) \in s /\ s \ {Pick(s)} \in SUBSET S
           /\ IsFiniteSet(s) /\ Cardinality(s \ {Pick(s)}) = Cardinality(s) - 1
           /\ Cardinality(s) \in Nat
BY FS_Subset, FS_RemoveElement, FS_CardinalityType DEF Pick

\* Whether g[s] is what e makes of base and the elements of s, for all subsets s of S.
IsFold(g, S, base, e) ==
    \A s \in SUBSET S : g[s] = IF s = {} THEN base ELSE e[<<Pick(s), g[s \ {Pick(s)}]>>]

\* A fold of a function over a finite set: there is one.
LEMMA FoldExists ==
    ASSUME NEW S, IsFiniteSet(S), NEW T, NEW base \in T, NEW e \in [S \X T -> T]
    PROVE  \E g \in [SUBSET S -> T] : IsFold(g, S, base, e)
<1> DEFINE Upto(g, n) ==
               \A s \in SUBSET S : Cardinality(s) <= n =>
                  g[s] = IF s = {} THEN base ELSE e[<<Pick(s), g[s \ {Pick(s)}]>>]
           N == {n \in Nat : \E g \in [SUBSET S -> T] : Upto(g, n)}
<1>0. \A s \in SUBSET S : /\ IsFiniteSet(s) /\ Cardinality(s) \in Nat
                          /\ Cardinality(s) = 0 <=> s = {}
                          /\ Cardinality(s) <= Cardinality(S)
  BY FS_Subset, FS_CardinalityType, FS_EmptySet
<1>1. 0 \in N
  <2>1. [s \in SUBSET S |-> base] \in [SUBSET S -> T]
    OBVIOUS
  <2>2. Upto([s \in SUBSET S |-> base], 0)
    BY <1>0
  <2> QED BY <2>1, <2>2
<1>2. ASSUME NEW n \in N PROVE n + 1 \in N
  <2>1. PICK g \in [SUBSET S -> T] : Upto(g, n)
    BY <1>2
  <2> DEFINE h == [s \in SUBSET S |-> IF s = {} THEN base
                                       ELSE e[<<Pick(s), g[s \ {Pick(s)}]>>]]
  <2>2. h \in [SUBSET S -> T]
    <3>1. ASSUME NEW s \in SUBSET S, s # {} PROVE e[<<Pick(s), g[s \ {Pick(s)}]>>] \in T
      <4>1. Pick(s) \in S /\ g[s \ {Pick(s)}] \in T
        BY <3>1, PickIn
      <4> QED BY <4>1
    <3> QED BY <3>1
  <2>3. ASSUME NEW s \in SUBSET S, s # {}, Cardinality(s) <= n + 1
        PROVE  h[s \ {Pick(s)}] = g[s \ {Pick(s)}]
    <3>1. s \ {Pick(s)} \in SUBSET S /\ Cardinality(s \ {Pick(s)}) <= n
      BY <2>3, PickIn
    <3> QED BY <2>1, <3>1
  <2>4. Upto(h, n + 1)
    BY <2>3
  <2> HIDE DEF Upto, h
  <2> QED BY <2>2, <2>4
<1>3. Cardinality(S) \in N
  <2> HIDE DEF N
  <2>1. N \in SUBSET Nat
    BY DEF N
  <2>2. N = Nat
    BY <1>1, <1>2, <2>1, NaturalsFrom0
  <2> QED BY <1>0, <2>2
<1>4. PICK g \in [SUBSET S -> T] : Upto(g, Cardinality(S))
  BY <1>3
<1> QED BY <1>0, <1>4 DEF IsFold

\* What merging keeps, whatever the order of the items.
LEMMA MergedIn ==
    ASSUME NEW items, IsFiniteSet(items), NEW T, NEW content \in T,
           \A i \in items : \A c \in T :
              [c EXCEPT ![i.field] = ProposedValue(@, i.op, PlannedValues(i.op, i.old, i.new))] \in T
    PROVE  Merged(content, items) \in T
<1> DEFINE eff(i, c) == [c EXCEPT ![i.field] =
                            ProposedValue(@, i.op, PlannedValues(i.op, i.old, i.new))]
           e == [pair \in items \X T |-> eff(pair[1], pair[2])]
           Step(g) == [s \in SUBSET items |->
                          IF s = {} THEN content ELSE eff(Pick(s), g[s \ {Pick(s)}])]
           iter == CHOOSE g : g = Step(g)
<1>1. e \in [items \X T -> T]
  OBVIOUS
<1>2. \E g : g = Step(g)
  <2>0. \A i \in items : \A c \in T : e[<<i, c>>] = eff(i, c)
    OBVIOUS
  <2> HIDE DEF e, eff, iter, Step
  <2>1. PICK g \in [SUBSET items -> T] :
            \A s \in SUBSET items :
               g[s] = IF s = {} THEN content ELSE e[<<Pick(s), g[s \ {Pick(s)}]>>]
    <3>1. PICK g \in [SUBSET items -> T] : IsFold(g, items, content, e)
      BY <1>1, FoldExists
    <3> QED BY <3>1 DEF IsFold
  <2>2. ASSUME NEW s \in SUBSET items, s # {}
        PROVE  e[<<Pick(s), g[s \ {Pick(s)}]>>] = eff(Pick(s), g[s \ {Pick(s)}])
    <3>1. Pick(s) \in items /\ g[s \ {Pick(s)}] \in T
      BY <2>1, <2>2, PickIn
    <3> QED BY <2>0, <3>1
  <2>3. g = Step(g)
    BY <2>1, <2>2 DEF Step
  <2> QED BY <2>3
<1>3. iter = Step(iter)
  <2> HIDE DEF Step
  <2> QED BY <1>2
<1>4. \A s \in SUBSET items : iter[s] \in T
  <2>0. \A s \in SUBSET items :
            iter[s] = IF s = {} THEN content ELSE eff(Pick(s), iter[s \ {Pick(s)}])
    <3>1. PICK it : it = iter
      OBVIOUS
    <3>2. it = Step(it)
      BY <1>3, <3>1
    <3> HIDE DEF iter
    <3>3. \A s \in SUBSET items :
              it[s] = IF s = {} THEN content ELSE eff(Pick(s), it[s \ {Pick(s)}])
      BY <3>2
    <3> QED BY <3>1, <3>3
  <2>1. PICK it : it = iter
    OBVIOUS
  <2> HIDE DEF iter, Step
  <2> DEFINE N == {n \in Nat : \A s \in SUBSET items : Cardinality(s) <= n => it[s] \in T}
  <2>2. 0 \in N
    <3>1. ASSUME NEW s \in SUBSET items, Cardinality(s) <= 0 PROVE s = {}
      BY <3>1, FS_Subset, FS_CardinalityType, FS_EmptySet
    <3>2. it[{}] = content
      BY <2>0, <2>1
    <3> QED BY <3>1, <3>2
  <2>3. ASSUME NEW n \in N PROVE n + 1 \in N
    <3>1. ASSUME NEW s \in SUBSET items, Cardinality(s) <= n + 1, s # {} PROVE it[s] \in T
      <4>1. /\ Pick(s) \in items /\ s \ {Pick(s)} \in SUBSET items
            /\ Cardinality(s \ {Pick(s)}) <= n
        BY <3>1, PickIn
      <4>2. it[s \ {Pick(s)}] \in T
        BY <2>3, <4>1
      <4>3. it[s] = eff(Pick(s), it[s \ {Pick(s)}])
        BY <2>0, <2>1, <3>1
      <4> QED BY <4>1, <4>2, <4>3
    <3>2. it[{}] = content
      BY <2>0, <2>1
    <3> QED BY <3>1, <3>2
  <2>4. N = Nat
    <3>1. N \in SUBSET Nat
      OBVIOUS
    <3> HIDE DEF N
    <3> QED BY <2>2, <2>3, <3>1, NaturalsFrom0
  <2> QED BY <2>1, <2>4, FS_Subset, FS_CardinalityType
<1>5. Merged(content, items) = iter[items]
  BY DEF Merged, FoldSet, MapThenFoldSet, Pick
<1> QED BY <1>4, <1>5
-----------------------------------------------------------------------------
(* Finite sets of items.                                                     *)

LEMMA ImageFinite ==
    ASSUME NEW S, IsFiniteSet(S), NEW f, DOMAIN f = S
    PROVE  IsFiniteSet({f[x] : x \in S})
<1> DEFINE g == [x \in S |-> f[x]]
<1>1. g \in Surjection(S, {f[x] : x \in S})
  BY DEF Surjection
<1> QED BY <1>1, FS_Surjection

\* A refined item is of its role and field; an item of a scalar sets it to one entry; an
\* addition replaces nothing.
SoundItem(id, new, safety) ==
    /\ id.field \in ScalarFields => id.op = "set" /\ Cardinality(new) = 1
    /\ safety = "addition" => /\ id.op \in {"set", "append"}
                              /\ id.op = "set" => id.old = {}

LEMMA RefinedSound ==
    ASSUME NEW role \in Roles, NEW field \in Fields, NEW old \in SUBSET Values,
           NEW group \in SUBSET {rec \in Recommendation : Supported(rec)},
           \A rec \in group : rec.field = field,
           NEW id \in RefineField(role, field, old, group)
    PROVE  id \in Item /\ SoundItem(id, id.new, id.safety)
<1> DEFINE by(op) == {rec \in group : rec.op = op}
           entries(recs) == UNION {rec.values : rec \in recs}
           item(op, values, safety) ==
               Refined(role, field, op, old, ProposedValue(old, op, values), safety)
<1>1. \A rec \in group : rec.values \in SUBSET Values /\ rec.op \in Operation
  BY DEF Recommendation
<1>9. \A rec \in group : field \in ScalarFields => rec.op = "set" /\ Cardinality(rec.values) = 1
  BY DEF Recommendation, Supported, SupportedValues
<1>2. PICK op \in Operation, values \in SUBSET Values, safety \in Safety :
          /\ id = item(op, values, safety)
          /\ field \in ScalarFields => op = "set" /\ Cardinality(values) = 1
          /\ safety = "addition" => op \in {"set", "append"} /\ (op = "set" => old = {})
  <2>0. {"conflict", "addition", "replacement", "removal"} \subseteq Safety
        /\ {"set", "append", "remove"} \subseteq Operation
    BY DEF Safety, Operation
  <2>1. CASE \E rec \in group : id = item(rec.op, rec.values, "conflict")
    <3> HIDE DEF item
    <3>1. PICK rec \in group : id = item(rec.op, rec.values, "conflict")
      BY <2>1
    <3>2. rec.op \in Operation /\ rec.values \in SUBSET Values /\ "conflict" \in Safety
      BY <1>1, <2>0
    <3>3. field \in ScalarFields => rec.op = "set" /\ Cardinality(rec.values) = 1
      BY <1>9
    <3> QED BY <3>1, <3>2, <3>3
  <2>2. CASE \E rec \in by("set") : id = item("set", rec.values, Replacing(old))
    <3> HIDE DEF item
    <3>1. PICK rec \in group : id = item("set", rec.values, Replacing(old)) /\ rec.op = "set"
      BY <2>2
    <3>2. Replacing(old) \in Safety /\ (Replacing(old) = "addition" => old = {})
      BY <2>0 DEF Replacing
    <3>3. rec.values \in SUBSET Values /\ "set" \in Operation
      BY <1>1, <2>0
    <3>4. field \in ScalarFields => Cardinality(rec.values) = 1
      BY <1>9
    <3> QED BY <3>1, <3>2, <3>3, <3>4
  <2>3. CASE \E rec \in by("append") : id = item("append", entries(by("append")), "addition")
    <3>1. entries(by("append")) \in SUBSET Values
      BY <1>1
    <3>2. PICK rec \in group : rec.op = "append"
      BY <2>3
    <3>3. field \notin ScalarFields
      BY <1>9, <3>2
    <3> HIDE DEF entries, by, item
    <3> QED BY <2>0, <2>3, <3>1, <3>3
  <2>4. CASE \E v \in entries(by("remove")) : id = item("remove", {v}, "removal")
    <3>1. PICK v \in entries(by("remove")) : id = item("remove", {v}, "removal")
      BY <2>4
    <3>2. PICK rec \in group : rec.op = "remove" /\ v \in rec.values
      OBVIOUS
    <3>3. v \in Values
      BY <1>1, <3>2
    <3>4. field \notin ScalarFields
      BY <1>9, <3>2
    <3> HIDE DEF item
    <3> QED BY <2>0, <3>1, <3>3, <3>4
  <2> QED BY <2>1, <2>2, <2>3, <2>4 DEF RefineField
<1>3. ProposedValue(old, op, values) \in SUBSET Values
  BY DEF ProposedValue, Operation
<1>4. op = "set" => ProposedValue(old, op, values) = values
  BY DEF ProposedValue
<1> QED BY <1>2, <1>3, <1>4 DEF Refined, Item, SoundItem

LEMMA RefineFieldFinite ==
    ASSUME NEW role, NEW field, NEW old, NEW group, IsFiniteSet(group),
           \A rec \in group : IsFiniteSet(rec.values)
    PROVE  IsFiniteSet(RefineField(role, field, old, group))
<1> DEFINE by(op) == {rec \in group : rec.op = op}
           entries(recs) == UNION {rec.values : rec \in recs}
           item(op, values, safety) ==
               Refined(role, field, op, old, ProposedValue(old, op, values), safety)
           conflicts == {item(rec.op, rec.values, "conflict") : rec \in group}
           set == {item("set", rec.values, Replacing(old)) : rec \in by("set")}
           append == {item("append", entries(by("append")), "addition") : rec \in by("append")}
           remove == {item("remove", {v}, "removal") : v \in entries(by("remove"))}
<1>1. \A op : IsFiniteSet(by(op))
  BY FS_Subset
<1>2. IsFiniteSet(conflicts)
  <2> DEFINE f == [rec \in group |-> item(rec.op, rec.values, "conflict")]
  <2> HIDE DEF item
  <2>1. conflicts = {f[rec] : rec \in group} /\ DOMAIN f = group
    OBVIOUS
  <2> HIDE DEF f, conflicts
  <2> QED BY <2>1, ImageFinite
<1>3. IsFiniteSet(set)
  <2> DEFINE f == [rec \in by("set") |-> item("set", rec.values, Replacing(old))]
  <2> HIDE DEF item, by
  <2>1. set = {f[rec] : rec \in by("set")} /\ DOMAIN f = by("set")
    OBVIOUS
  <2> HIDE DEF f, set
  <2> QED BY <1>1, <2>1, ImageFinite
<1>4. IsFiniteSet(append)
  <2>1. append \in SUBSET {item("append", entries(by("append")), "addition")}
    OBVIOUS
  <2>2. PICK x : x = item("append", entries(by("append")), "addition")
    OBVIOUS
  <2>3. append \in SUBSET {x} /\ IsFiniteSet({x})
    <3> HIDE DEF append, item, entries, by
    <3> QED BY <2>1, <2>2, FS_Singleton
  <2> HIDE DEF append
  <2> QED BY <2>3, FS_Subset
<1>5. IsFiniteSet(entries(by("remove")))
  <2> DEFINE f == [rec \in by("remove") |-> rec.values]
  <2>1. {rec.values : rec \in by("remove")} = {f[rec] : rec \in by("remove")}
    OBVIOUS
  <2>2. IsFiniteSet({f[rec] : rec \in by("remove")})
    <3>1. DOMAIN f = by("remove")
      OBVIOUS
    <3> HIDE DEF f, by
    <3> QED BY <1>1, <3>1, ImageFinite
  <2>3. \A T \in {rec.values : rec \in by("remove")} : IsFiniteSet(T)
    OBVIOUS
  <2> HIDE DEF f, by
  <2> QED BY <2>1, <2>2, <2>3, FS_UNION
<1>6. IsFiniteSet(remove)
  <2> DEFINE some == entries(by("remove"))
  <2> DEFINE f == [v \in some |-> item("remove", {v}, "removal")]
  <2>0. IsFiniteSet(some)
    BY <1>5
  <2> HIDE DEF item, entries, by
  <2>1. remove = {f[v] : v \in some} /\ DOMAIN f = some
    OBVIOUS
  <2> HIDE DEF f, some, remove
  <2> QED BY <2>0, <2>1, ImageFinite
<1>7. RefineField(role, field, old, group) = conflicts
      \/ RefineField(role, field, old, group) \in SUBSET (set \cup append \cup remove)
  BY DEF RefineField
<1>8. IsFiniteSet(set \cup append \cup remove)
  <2> HIDE DEF set, append, remove
  <2> QED BY <1>3, <1>4, <1>6, FS_Union
<1> HIDE DEF conflicts, set, append, remove
<1> QED BY <1>2, <1>7, <1>8, FS_Subset

\* The items of one field.
ItemsOf(had, recs, role, field) ==
    RefineField(role, field, had[role][field],
                {rec \in recs : rec.role = role /\ rec.field = field})

LEMMA RefineTyped ==
    ASSUME NEW had \in [Roles -> Content], NEW recs \in Proposals
    PROVE  /\ IsFiniteSet(Refine(had, recs))
           /\ \A id \in Refine(had, recs) : id \in Item /\ SoundItem(id, id.new, id.safety)
<1>0. PICK f : f = [pair \in Roles \X Fields |-> ItemsOf(had, recs, pair[1], pair[2])]
  OBVIOUS
<1>1. /\ recs \in SUBSET {rec \in Recommendation : Supported(rec)}
      /\ IsFiniteSet(recs)
      /\ \A rec \in recs : IsFiniteSet(rec.values)
      /\ IsFiniteSet(Roles \X Fields)
  BY ReviewsAssumption, FS_Product
<1>2. Refine(had, recs) = UNION {f[pair] : pair \in Roles \X Fields}
  <2> DEFINE B == {f[pair] : pair \in Roles \X Fields}
  <2>1. ASSUME NEW role \in Roles, NEW field \in Fields
        PROVE  ItemsOf(had, recs, role, field) \in B
    <3>1. ItemsOf(had, recs, role, field) = f[<<role, field>>]
      BY <1>0
    <3> QED BY <3>1
  <2>2. ASSUME NEW X \in B
        PROVE  \E role \in Roles, field \in Fields : X = ItemsOf(had, recs, role, field)
    <3>1. PICK pair \in Roles \X Fields : X = f[pair]
      OBVIOUS
    <3>2. X = ItemsOf(had, recs, pair[1], pair[2])
      BY <1>0, <3>1
    <3> QED BY <3>2
  <2> HIDE DEF B
  <2>3. {ItemsOf(had, recs, role, field) : role \in Roles, field \in Fields} = B
    BY <2>1, <2>2
  <2>4. Refine(had, recs) =
            UNION {ItemsOf(had, recs, role, field) : role \in Roles, field \in Fields}
    BY DEF Refine, ItemsOf
  <2> QED BY <2>3, <2>4 DEF B
<1>3. ASSUME NEW role \in Roles, NEW field \in Fields
      PROVE  /\ IsFiniteSet(ItemsOf(had, recs, role, field))
             /\ \A id \in ItemsOf(had, recs, role, field) :
                   id \in Item /\ SoundItem(id, id.new, id.safety)
  <2> DEFINE group == {rec \in recs : rec.role = role /\ rec.field = field}
  <2>1. /\ group \in SUBSET {rec \in Recommendation : Supported(rec)}
        /\ group \in SUBSET recs
        /\ \A rec \in group : rec.field = field
        /\ had[role][field] \in SUBSET Values
    BY <1>1 DEF Content
  <2>2. ItemsOf(had, recs, role, field) = RefineField(role, field, had[role][field], group)
    BY DEF ItemsOf
  <2> HIDE DEF group
  <2>3. IsFiniteSet(group) /\ \A rec \in group : IsFiniteSet(rec.values)
    BY <1>1, <2>1, FS_Subset
  <2>4. IsFiniteSet(ItemsOf(had, recs, role, field))
    BY <2>2, <2>3, RefineFieldFinite
  <2> QED BY <2>1, <2>2, <2>4, RefinedSound
<1>4. \A pair \in Roles \X Fields :
          /\ IsFiniteSet(f[pair])
          /\ \A id \in f[pair] : id \in Item /\ SoundItem(id, id.new, id.safety)
  BY <1>0, <1>3
<1>5. IsFiniteSet({f[pair] : pair \in Roles \X Fields})
  BY <1>0, <1>1, ImageFinite
<1> QED BY <1>2, <1>4, <1>5, FS_UNION

-----------------------------------------------------------------------------
(* What a merge writes.                                                      *)

OneEntry(content) == \A f \in ScalarFields : Cardinality(content[f]) <= 1

\* What is planned for field f replaces nothing.
OnlyAdds(content, items, f) ==
    \A i \in items : i.field = f => /\ i.old = content[f]
                                    /\ i.op \in {"set", "append"}
                                    /\ i.op = "set" => i.old = {}

\* Only fields that an item is about change, and additions only add.
LEMMA MergedTyped ==
    ASSUME NEW content \in Content, OneEntry(content), NEW items, IsFiniteSet(items),
           \A i \in items :
              /\ i.field \in Fields /\ i.op \in Operation
              /\ i.old \in SUBSET Values /\ i.new \in SUBSET Values
              /\ i.field \in ScalarFields => i.op = "set" /\ Cardinality(i.new) = 1
    PROVE  /\ Merged(content, items) \in Content
           /\ OneEntry(Merged(content, items))
           /\ \A f \in Fields :
                 /\ Merged(content, items)[f] # content[f] => \E i \in items : i.field = f
                 /\ OnlyAdds(content, items, f) => content[f] \subseteq Merged(content, items)[f]
<1> DEFINE T == {c \in Content :
                    /\ OneEntry(c)
                    /\ \A f \in Fields :
                          /\ c[f] # content[f] => \E i \in items : i.field = f
                          /\ OnlyAdds(content, items, f) => content[f] \subseteq c[f]}
<1>1. content \in T
  OBVIOUS
<1>2. ASSUME NEW i \in items, NEW c \in T
      PROVE  [c EXCEPT ![i.field] = ProposedValue(@, i.op, PlannedValues(i.op, i.old, i.new))] \in T
  <2>1. PICK v : v = ProposedValue(c[i.field], i.op, PlannedValues(i.op, i.old, i.new))
    OBVIOUS
  <2>2. PICK d : d = [c EXCEPT ![i.field] = v]
    OBVIOUS
  <2>3. c \in [Fields -> SUBSET Values] /\ c[i.field] \in SUBSET Values /\ i.field \in Fields
    BY DEF Content
  <2>4. v \in SUBSET Values
    BY <2>1, <2>3 DEF ProposedValue, PlannedValues, Operation
  <2>5. d \in Content /\ \A f \in Fields : d[f] = IF f = i.field THEN v ELSE c[f]
    BY <2>2, <2>3, <2>4 DEF Content
  <2>6. OneEntry(d)
    <3>1. i.field \in ScalarFields => v = i.new /\ Cardinality(v) = 1
      BY <2>1 DEF ProposedValue, PlannedValues
    <3>2. OneEntry(c)
      OBVIOUS
    <3>3. ASSUME NEW f \in ScalarFields PROVE Cardinality(d[f]) <= 1
      <4>1. f \in Fields
        BY DEF Fields
      <4> QED BY <2>5, <3>1, <3>2, <4>1 DEF OneEntry
    <3> QED BY <3>3 DEF OneEntry
  <2>7. ASSUME NEW f \in Fields
        PROVE  /\ d[f] # content[f] => \E j \in items : j.field = f
               /\ OnlyAdds(content, items, f) => content[f] \subseteq d[f]
    <3>1. CASE f # i.field
      BY <2>5, <3>1
    <3>2. CASE f = i.field
      <4>1. ASSUME OnlyAdds(content, items, f) PROVE content[f] \subseteq v
        <5>1. /\ i.old = content[f] /\ i.op \in {"set", "append"}
              /\ i.op = "set" => i.old = {}
          BY <3>2, <4>1 DEF OnlyAdds
        <5>2. content[f] \subseteq c[f]
          BY <4>1
        <5> QED BY <2>1, <3>2, <5>1, <5>2 DEF ProposedValue
      <4> QED BY <2>5, <3>2, <4>1
    <3> QED BY <3>1, <3>2
  <2>8. d \in T
    BY <2>5, <2>6, <2>7
  <2> QED BY <2>1, <2>2, <2>8
<1>3. Merged(content, items) \in T
  <2> HIDE DEF T
  <2> QED BY <1>1, <1>2, MergedIn
<1> QED BY <1>3

-----------------------------------------------------------------------------
(* Types.                                                                    *)

SoundReview(rv) ==
    /\ IsFiniteSet(rv.items)
    /\ \A i \in rv.items : SoundItem(i.id, i.new, i.safety)
    /\ \A e \in rv.edited : e.id.field \in ScalarFields => Cardinality(e.new) = 1
    /\ IF rv.status = "absent" THEN rv.items = {} ELSE rv.recs \in Proposals /\ Valid(rv)

TypeInv ==
    /\ files \in [Roles -> Content] /\ \A r \in Roles : OneEntry(files[r])
    /\ marks \in [Roles -> SUBSET Edits]
    /\ notes \in {0, 1}
    /\ review \in [Reviews -> Review] /\ \A s \in Reviews : SoundReview(review[s])
    /\ adviser \in [busy : BOOLEAN, sources : Sources, recs : SUBSET Recommendation]
    /\ adviser.busy => adviser.recs \in Proposals
    /\ proc \in Apply /\ \A r \in Roles : OneEntry(proc.staged[r])
    /\ Locked => /\ review[proc.of].status # "absent"
                 /\ proc.chosen \subseteq review[proc.of].items
                 /\ \E i \in proc.chosen : ~i.applied
    /\ edits \in 0 .. NumEdits
    /\ changes \in 0 .. NumChanges
    /\ faults \in 0 .. MaxFaults

LEMMA EmptyTyped ==
    /\ [f \in Fields |-> {}] \in Content
    /\ OneEntry([f \in Fields |-> {}])
    /\ NoReview \in Review /\ SoundReview(NoReview)
    /\ Idle \in Apply /\ Idle.staged = [r \in Roles |-> [f \in Fields |-> {}]]
    /\ Idle.pc = "idle"
    /\ NoAdvice \in [busy : BOOLEAN, sources : Sources, recs : SUBSET Recommendation]
    /\ ~NoAdvice.busy
<1>1. PICK none : none = [f \in Fields |-> {}]
  OBVIOUS
<1>2. none \in Content /\ OneEntry(none)
  BY <1>1, FS_EmptySet DEF Content, OneEntry, Fields
<1>3. [r \in Roles |-> [content |-> none, marks |-> {}]] \in [Roles -> Bytes]
  BY <1>2 DEF Bytes
<1>4. [roles |-> [r \in Roles |-> [content |-> none, marks |-> {}]], notes |-> 0] \in Sources
  BY <1>3 DEF Sources
<1>5. NoReview \in Review /\ NoReview.sources \in Sources
      /\ NoReview.items = {} /\ NoReview.edited = {} /\ NoReview.status = "absent"
  BY <1>1, <1>4 DEF NoReview, Review
<1>6. SoundReview(NoReview)
  BY <1>5, FS_EmptySet DEF SoundReview
<1>7. NoAdvice \in [busy : BOOLEAN, sources : Sources, recs : SUBSET Recommendation]
      /\ ~NoAdvice.busy
  BY <1>5 DEF NoAdvice
<1>8. [r \in Roles |-> none] \in [Roles -> Content] /\ NoReview.sources.roles \in [Roles -> Bytes]
      /\ 1 \in Reviews
  BY <1>2, <1>5, ReviewsAssumption DEF Sources, Reviews
<1>9. Idle \in Apply /\ Idle.staged = [r \in Roles |-> none] /\ Idle.pc = "idle"
  BY <1>1, <1>8 DEF Idle, Apply
<1> QED BY <1>1, <1>2, <1>5, <1>6, <1>7, <1>9

LEMMA CurrentTyped ==
    ASSUME TypeInv
    PROVE  RoleBytes \in [Roles -> Bytes] /\ CurrentSources \in Sources
BY DEF TypeInv, RoleBytes, CurrentSources, Bytes, Sources

LEMMA TypeInvImplies == TypeInv => TypeOK
BY DEF TypeInv, TypeOK, OneEntry, Review, Apply, SoundReview

LEMMA InitTyped == Init => TypeInv
<1> SUFFICES ASSUME Init PROVE TypeInv
  OBVIOUS
<1>1. /\ review = [s \in Reviews |-> NoReview] /\ adviser = NoAdvice /\ proc = Idle
      /\ marks = [r \in Roles |-> {}] /\ files \in Written
  BY DEF Init
<1>2. files \in [Roles -> Content] /\ \A r \in Roles : OneEntry(files[r])
  BY <1>1, ReviewsAssumption DEF OneEntry
<1>3. 0 \in 0 .. NumEdits /\ 0 \in 0 .. NumChanges /\ 0 \in 0 .. MaxFaults
  BY ReviewsAssumption
<1>4. \A r \in Roles : OneEntry(Idle.staged[r])
  BY EmptyTyped
<1> QED BY <1>1, <1>2, <1>3, <1>4, EmptyTyped DEF TypeInv, Init, Locked

\* A review that a command saves.
SavedReview(s, next) ==
    /\ next \in Review /\ next.status # "absent" /\ next.recs \in Proposals
    /\ IsFiniteSet(next.items)
    /\ \A i \in next.items : SoundItem(i.id, i.new, i.safety)
    /\ \A e \in next.edited : e.id.field \in ScalarFields => Cardinality(e.new) = 1
    /\ Update(s, next)

LEMMA SaveTyped ==
    ASSUME TypeInv, NEW s \in Reviews, NEW next, SavedReview(s, next)
    PROVE  /\ review' \in [Reviews -> Review]
           /\ \A t \in Reviews : SoundReview(review'[t])
           /\ review'[s] = next /\ \A t \in Reviews : t # s => review'[t] = review[t]
<1>1. /\ review' = [review EXCEPT ![s] = next] /\ Valid(next)
      /\ review \in [Reviews -> Review] /\ next \in Review
      /\ \A t \in Reviews : SoundReview(review[t])
  BY DEF SavedReview, Update, TypeInv
<1>2. SoundReview(next)
  BY <1>1 DEF SavedReview, SoundReview
<1> QED BY <1>1, <1>2

LEMMA CommandTyped ==
    ASSUME TypeInv, NEW s \in Reviews, NEW next, SavedReview(s, next), ~Locked,
           UNCHANGED <<files, marks, notes, adviser, proc, edits, faults>>,
           changes' \in 0 .. NumChanges
    PROVE  TypeInv'
BY SaveTyped DEF TypeInv, Locked

LEMMA OpenReview ==
    ASSUME TypeInv, NEW s \in Reviews, review[s].status # "absent"
    PROVE  /\ review[s] \in Review /\ review[s].recs \in Proposals /\ IsFiniteSet(review[s].items)
           /\ review[s].items \subseteq StoredItem /\ review[s].edited \subseteq ReviewEdit
           /\ \A i \in review[s].items : SoundItem(i.id, i.new, i.safety)
           /\ \A e \in review[s].edited : e.id.field \in ScalarFields => Cardinality(e.new) = 1
           /\ Valid(review[s])
BY DEF TypeInv, SoundReview, Review

LEMMA ChangeCounted ==
    ASSUME TypeInv, NEW s \in Reviews, Change(s)
    PROVE  /\ changes' \in 0 .. NumChanges /\ ~Locked /\ review[s].status # "absent"
BY ReviewsAssumption DEF TypeInv, Change, Open

LEMMA MarkStaleTyped ==
    ASSUME TypeInv, NEW s \in Reviews, MarkStale(s)
    PROVE  TypeInv' /\ \E next : SavedReview(s, next)
<1>1. PICK next : next = [review[s] EXCEPT !.status = "stale"]
  OBVIOUS
<1>2. SavedReview(s, next)
  <2>1. Update(s, next) /\ review[s].status # "absent"
    BY <1>1 DEF MarkStale, Open
  <2>2. /\ next \in Review /\ next.status = "stale"
        /\ next.items = review[s].items /\ next.edited = review[s].edited
        /\ next.recs = review[s].recs
    BY <1>1, <2>1, OpenReview DEF Review, ReviewStatus
  <2> QED BY <2>1, <2>2, OpenReview DEF SavedReview
<1> QED BY <1>2, CommandTyped DEF MarkStale, Open, TypeInv

LEMMA RejectTyped ==
    ASSUME TypeInv, NEW s \in Reviews, Reject(s)
    PROVE  TypeInv' /\ \E next : SavedReview(s, next)
<1>0. review[s].status # "absent" /\ ~Locked
  BY DEF Reject, Open
<1>1. PICK had : had = review[s].items
  OBVIOUS
<1>2. PICK f : f = [i \in had |-> [i EXCEPT !.decision = "rejected"]]
  OBVIOUS
<1>3. PICK items : items = {f[i] : i \in had}
  OBVIOUS
<1>4. PICK next : next = [review[s] EXCEPT !.status = "rejected", !.items = items]
  OBVIOUS
<1>5. {[i EXCEPT !.decision = "rejected"] : i \in had} = items
  BY <1>2, <1>3
<1>6. Update(s, next)
  BY <1>1, <1>4, <1>5 DEF Reject
<1>7. IsFiniteSet(items)
  <2>1. IsFiniteSet(had) /\ DOMAIN f = had
    BY <1>0, <1>1, <1>2, OpenReview
  <2> QED BY <1>3, <2>1, ImageFinite
<1>8. ASSUME NEW x \in items
      PROVE  x \in StoredItem /\ SoundItem(x.id, x.new, x.safety)
  <2>1. PICK i \in had : x = [i EXCEPT !.decision = "rejected"]
    BY <1>2, <1>3
  <2>2. i \in StoredItem /\ SoundItem(i.id, i.new, i.safety)
    BY <1>0, <1>1, OpenReview
  <2>3. x \in StoredItem /\ x.id = i.id /\ x.new = i.new /\ x.safety = i.safety
    BY <2>1, <2>2 DEF StoredItem, Decision
  <2> QED BY <2>2, <2>3
<1>9. /\ next \in Review /\ next.status = "rejected" /\ next.items = items
      /\ next.edited = review[s].edited /\ next.recs = review[s].recs
  BY <1>0, <1>4, <1>8, OpenReview DEF Review, ReviewStatus
<1>10. SavedReview(s, next)
  BY <1>0, <1>6, <1>7, <1>8, <1>9, OpenReview DEF SavedReview
<1> QED BY <1>10, CommandTyped DEF Reject, Open, TypeInv

\* One item is replaced by a sound one.
LEMMA ItemReplaced ==
    ASSUME TypeInv, NEW s \in Reviews, review[s].status # "absent", NEW i \in review[s].items,
           NEW item \in StoredItem, SoundItem(item.id, item.new, item.safety),
           NEW items, items = (review[s].items \ {i}) \cup {item}
    PROVE  /\ IsFiniteSet(items) /\ items \subseteq StoredItem
           /\ \A x \in items : SoundItem(x.id, x.new, x.safety)
<1>1. IsFiniteSet(review[s].items \ {i})
  BY OpenReview, FS_Difference
<1>2. IsFiniteSet(items)
  BY <1>1, FS_AddElement
<1> QED BY <1>2, OpenReview

LEMMA DecideTyped ==
    ASSUME TypeInv, NEW s \in Reviews, NEW i \in review[s].items,
           NEW decision \in {"approved", "rejected"}, Decide(s, i, decision)
    PROVE  TypeInv' /\ \E next : SavedReview(s, next)
<1>0. review[s].status # "absent" /\ ~Locked
  BY ChangeCounted DEF Decide
<1>1. PICK item : item = [i EXCEPT !.decision = decision]
  OBVIOUS
<1>2. PICK items : items = (review[s].items \ {i}) \cup {item}
  OBVIOUS
<1>3. PICK next : next = [review[s] EXCEPT !.items = items, !.status = StatusAfterDecide(items)]
  OBVIOUS
<1>4. Update(s, next)
  BY <1>1, <1>2, <1>3 DEF Decide
<1>5. item \in StoredItem /\ SoundItem(item.id, item.new, item.safety)
  <2>1. i \in StoredItem /\ SoundItem(i.id, i.new, i.safety)
    BY <1>0, OpenReview
  <2>2. item \in StoredItem /\ item.id = i.id /\ item.new = i.new /\ item.safety = i.safety
    BY <1>1, <2>1 DEF StoredItem, Decision
  <2> QED BY <2>1, <2>2
<1>6. /\ IsFiniteSet(items) /\ items \subseteq StoredItem
      /\ \A x \in items : SoundItem(x.id, x.new, x.safety)
  BY <1>0, <1>2, <1>5, ItemReplaced
<1>7. /\ next \in Review /\ next.status # "absent" /\ next.items = items
      /\ next.edited = review[s].edited /\ next.recs = review[s].recs
  BY <1>0, <1>3, <1>6, OpenReview DEF Review, ReviewStatus, StatusAfterDecide
<1>8. SavedReview(s, next)
  BY <1>0, <1>4, <1>6, <1>7, OpenReview DEF SavedReview
<1> QED BY <1>0, <1>8, ChangeCounted, CommandTyped DEF Decide

LEMMA EditTyped ==
    ASSUME TypeInv, NEW s \in Reviews, NEW i \in review[s].items, NEW value \in SUBSET Values,
           EditValue(s, i, value)
    PROVE  TypeInv' /\ \E next : SavedReview(s, next)
<1>0. review[s].status # "absent" /\ ~Locked
  BY ChangeCounted DEF EditValue
<1>1. PICK safety : safety = IF i.id.op = "remove" THEN "removal" ELSE Replacing(i.id.old)
  OBVIOUS
<1>2. PICK item : item = [i EXCEPT !.new = value, !.decision = "pending", !.safety = safety]
  OBVIOUS
<1>3. PICK items : items = (review[s].items \ {i}) \cup {item}
  OBVIOUS
<1>4. PICK edited : edited = {e \in review[s].edited : e.id # i.id}
                                \cup {[id |-> i.id, new |-> value]}
  OBVIOUS
<1>5. PICK status : status = IF Decided(items) = {} THEN "refined" ELSE "partially_decided"
  OBVIOUS
<1>6. PICK next : next = [review[s] EXCEPT !.items = items, !.edited = edited, !.status = status]
  OBVIOUS
<1>7. Update(s, next)
  BY <1>1, <1>2, <1>3, <1>4, <1>5, <1>6 DEF EditValue
<1>8. i \in StoredItem /\ SoundItem(i.id, i.new, i.safety) /\ i.id \in Item
  BY <1>0, OpenReview DEF StoredItem
<1>9. i.id.field \in ScalarFields => Cardinality(value) = 1
  BY DEF EditValue, Editable, SupportedValues
<1>10. item \in StoredItem /\ SoundItem(item.id, item.new, item.safety)
  <2>1. safety \in Safety /\ (safety = "addition" => i.id.op # "remove" /\ i.id.old = {})
    BY <1>1 DEF Safety, Replacing
  <2>2. item \in StoredItem /\ item.id = i.id /\ item.new = value /\ item.safety = safety
    BY <1>2, <1>8, <2>1 DEF StoredItem, Decision
  <2>3. i.id.op \in {"set", "append", "remove"}
    BY <1>8 DEF Item, Operation
  <2> QED BY <1>8, <1>9, <2>1, <2>2, <2>3 DEF SoundItem
<1>11. /\ IsFiniteSet(items) /\ items \subseteq StoredItem
       /\ \A x \in items : SoundItem(x.id, x.new, x.safety)
  BY <1>0, <1>3, <1>10, ItemReplaced
<1>12. /\ edited \subseteq ReviewEdit
       /\ \A e \in edited : e.id.field \in ScalarFields => Cardinality(e.new) = 1
  BY <1>0, <1>4, <1>8, <1>9, OpenReview DEF ReviewEdit
<1>13. /\ next \in Review /\ next.status # "absent" /\ next.items = items
       /\ next.edited = edited /\ next.recs = review[s].recs
  BY <1>0, <1>5, <1>6, <1>11, <1>12, OpenReview DEF Review, ReviewStatus
<1>14. SavedReview(s, next)
  BY <1>0, <1>7, <1>11, <1>12, <1>13, OpenReview DEF SavedReview
<1> QED BY <1>0, <1>14, ChangeCounted, CommandTyped DEF EditValue

\* A refined item, with the value it was edited to.
LEMMA AgainTyped ==
    ASSUME TypeInv, NEW s \in Reviews, review[s].status # "absent",
           NEW id \in Item, SoundItem(id, id.new, id.safety), NEW again, again = Again(review[s], id)
    PROVE  again \in StoredItem /\ SoundItem(again.id, again.new, again.safety)
<1>1. PICK values : values = {e.new : e \in {x \in review[s].edited : x.id = id}}
  OBVIOUS
<1>2. PICK new : new = IF values = {} THEN id.new ELSE CHOOSE v \in values : TRUE
  OBVIOUS
<1>3. PICK kept : kept = Survivors(review[s].items, id, id.new)
                             \cup Survivors(review[s].items, id, new)
  OBVIOUS
<1>4. PICK decision : decision = IF kept = {} THEN "pending" ELSE (CHOOSE i \in kept : TRUE).decision
  OBVIOUS
<1>5. again = [id |-> id, new |-> new, safety |-> id.safety, applied |-> FALSE,
               decision |-> decision]
  BY <1>1, <1>2, <1>3, <1>4 DEF Again
<1>6. new \in SUBSET Values /\ (id.field \in ScalarFields => Cardinality(new) = 1)
  <2>1. CASE values = {}
    BY <1>2, <2>1 DEF Item, SoundItem
  <2>2. CASE values # {}
    <3>1. new \in values
      BY <1>2, <2>2
    <3>2. PICK e \in review[s].edited : e.id = id /\ e.new = new
      BY <1>1, <3>1
    <3> QED BY <3>2, OpenReview DEF ReviewEdit
  <2> QED BY <2>1, <2>2
<1>7. decision \in Decision
  <2>1. kept \subseteq review[s].items
    BY <1>3 DEF Survivors
  <2>2. kept # {} => (CHOOSE i \in kept : TRUE) \in StoredItem
    BY <2>1, OpenReview
  <2> QED BY <1>4, <2>2 DEF StoredItem, Decision
<1>8. id.safety \in Safety
  BY DEF Item
<1>9. again \in StoredItem /\ again.id = id /\ again.new = new /\ again.safety = id.safety
  BY <1>5, <1>6, <1>7, <1>8 DEF StoredItem
<1> QED BY <1>6, <1>9 DEF SoundItem

LEMMA RefineAgainTyped ==
    ASSUME TypeInv, NEW s \in Reviews, RefineAgain(s)
    PROVE  TypeInv' /\ \E next : SavedReview(s, next)
<1>0. review[s].status # "absent" /\ ~Locked
  BY ChangeCounted DEF RefineAgain
<1>1. PICK rv : rv = review[s]
  OBVIOUS
<1>2. PICK ids : ids = Refine(files, rv.recs)
  OBVIOUS
<1>3. PICK f : f = [id \in ids |-> Again(rv, id)]
  OBVIOUS
<1>4. PICK items : items = {f[id] : id \in ids}
  OBVIOUS
<1>5. {Again(rv, id) : id \in ids} = items
  BY <1>3, <1>4
<1>6. PICK next : next = [rv EXCEPT !.items = items, !.status = StatusAfterRefine(rv, items)]
  OBVIOUS
<1>7. Update(s, next)
  BY <1>1, <1>2, <1>5, <1>6 DEF RefineAgain
<1>8. IsFiniteSet(ids) /\ \A id \in ids : id \in Item /\ SoundItem(id, id.new, id.safety)
  BY <1>0, <1>1, <1>2, OpenReview, RefineTyped DEF TypeInv
<1>9. IsFiniteSet(items)
  <2>1. DOMAIN f = ids
    BY <1>3
  <2> QED BY <1>4, <1>8, <2>1, ImageFinite
<1>10. \A x \in items : x \in StoredItem /\ SoundItem(x.id, x.new, x.safety)
  BY <1>0, <1>1, <1>3, <1>4, <1>8, AgainTyped
<1>11. /\ next \in Review /\ next.status # "absent" /\ next.items = items
       /\ next.edited = rv.edited /\ next.recs = rv.recs
  <2>1. StatusAfterRefine(rv, items) \in ReviewStatus
    BY DEF StatusAfterRefine, ReviewStatus
  <2>2. StatusAfterRefine(rv, items) # "absent"
    BY <2>1 DEF ReviewStatus
  <2> QED BY <1>0, <1>1, <1>6, <1>10, <2>1, <2>2, OpenReview DEF Review
<1>12. SavedReview(s, next)
  BY <1>0, <1>1, <1>7, <1>9, <1>10, <1>11, OpenReview DEF SavedReview
<1> QED BY <1>0, <1>12, ChangeCounted, CommandTyped DEF RefineAgain

LEMMA CreateTyped ==
    ASSUME TypeInv, Create
    PROVE  /\ TypeInv'
           /\ \E s \in Reviews : /\ review[s].status = "absent"
                                  /\ review'[s].status = "refined"
                                  /\ \A t \in Reviews : t # s => review'[t] = review[t]
<1>1. PICK seen : seen = adviser.sources.roles
  OBVIOUS
<1>2. PICK had : had = [r \in Roles |-> seen[r].content]
  OBVIOUS
<1>3. PICK ids : ids = Refine(had, adviser.recs)
  OBVIOUS
<1>4. PICK f : f = [i \in ids |-> [id |-> i, new |-> i.new, safety |-> i.safety,
                                   decision |-> "pending", applied |-> FALSE]]
  OBVIOUS
<1>5. PICK items : items = {f[i] : i \in ids}
  OBVIOUS
<1>6. Undecided(ids) = items
  BY <1>4, <1>5 DEF Undecided
<1>7. PICK next : next = [status |-> "refined", sources |-> [roles |-> seen, notes |-> notes],
                          recs |-> adviser.recs, items |-> items, edited |-> {}]
  OBVIOUS
<1>8. PICK s \in Reviews : review[s].status = "absent" /\ review' = [review EXCEPT ![s] = next]
  BY <1>1, <1>2, <1>3, <1>6, <1>7 DEF Create
<1>9. adviser.busy /\ adviser' = NoAdvice /\ UNCHANGED <<files, marks, notes, proc, edits, changes, faults>>
  BY DEF Create
<1>10. seen \in [Roles -> Bytes] /\ had \in [Roles -> Content] /\ adviser.recs \in Proposals
  BY <1>1, <1>2, <1>9 DEF TypeInv, Sources, Bytes
<1>11. IsFiniteSet(ids) /\ \A id \in ids : id \in Item /\ SoundItem(id, id.new, id.safety)
  BY <1>3, <1>10, RefineTyped
<1>12. IsFiniteSet(items)
  <2>1. DOMAIN f = ids
    BY <1>4
  <2> QED BY <1>5, <1>11, <2>1, ImageFinite
<1>13. ASSUME NEW x \in items
       PROVE  /\ x \in StoredItem /\ SoundItem(x.id, x.new, x.safety)
              /\ x.decision = "pending" /\ ~x.applied
  <2>1. PICK i \in ids : x = [id |-> i, new |-> i.new, safety |-> i.safety,
                              decision |-> "pending", applied |-> FALSE]
    BY <1>4, <1>5
  <2>2. i \in Item /\ SoundItem(i, i.new, i.safety) /\ i.new \in SUBSET Values /\ i.safety \in Safety
    BY <1>11 DEF Item
  <2> QED BY <2>1, <2>2 DEF StoredItem, Decision
<1>14. next \in Review
  <2>1. adviser.recs \in SUBSET Recommendation /\ notes \in Nat
    BY DEF TypeInv
  <2>2. [roles |-> seen, notes |-> notes] \in Sources
    BY <1>10, <2>1 DEF Sources
  <2> QED BY <1>7, <1>13, <2>1, <2>2 DEF Review, ReviewStatus
<1>15. Valid(next)
  <2>1. With(items, "pending") = items
    BY <1>13 DEF With
  <2>2. /\ next.items = items /\ next.edited = {} /\ next.status = "refined"
    BY <1>7
  <2> QED BY <1>13, <2>1, <2>2 DEF Valid
<1>16. SoundReview(next)
  BY <1>7, <1>10, <1>12, <1>13, <1>15 DEF SoundReview
<1>17. /\ review' \in [Reviews -> Review] /\ \A t \in Reviews : SoundReview(review'[t])
       /\ review'[s] = next /\ \A t \in Reviews : t # s => review'[t] = review[t]
  BY <1>8, <1>14, <1>16 DEF TypeInv
<1>18. Locked => proc.of # s /\ proc.of \in Reviews
  BY <1>8 DEF TypeInv, Apply
<1> QED BY <1>7, <1>8, <1>9, <1>17, <1>18, EmptyTyped DEF TypeInv, Locked

-----------------------------------------------------------------------------
(* An apply.                                                                 *)

\* What is planned for a role are the chosen items of that role.
LEMMA PlannedTyped ==
    ASSUME TypeInv, Locked, NEW r \in Roles
    PROVE  /\ IsFiniteSet(Planned(r))
           /\ \A p \in Planned(r) :
                 /\ p.field \in Fields /\ p.op \in Operation
                 /\ p.old \in SUBSET Values /\ p.new \in SUBSET Values
                 /\ p.field \in ScalarFields => p.op = "set" /\ Cardinality(p.new) = 1
                 /\ \E i \in proc.chosen :
                       /\ ~i.applied /\ i.id.role = r /\ i.id.field = p.field
                       /\ i.id.old = p.old /\ p.id = i.id
                       /\ i.safety = "addition" => /\ p.op \in {"set", "append"}
                                                   /\ p.op = "set" => p.old = {}
<1>1. PICK mine : mine = {c \in proc.chosen : ~c.applied /\ c.id.role = r}
  OBVIOUS
<1>2. PICK f : f = [i \in mine |-> [role |-> i.id.role, field |-> i.id.field, op |-> i.id.op,
                                    old |-> i.id.old, new |-> i.new, id |-> i.id]]
  OBVIOUS
<1>3. Planned(r) = {f[i] : i \in mine}
  BY <1>1, <1>2 DEF Planned
<1>4. /\ proc.chosen \subseteq review[proc.of].items /\ proc.of \in Reviews
      /\ review[proc.of].status # "absent"
  BY DEF TypeInv, Apply
<1>5. IsFiniteSet(mine) /\ DOMAIN f = mine
  <2>1. mine \in SUBSET review[proc.of].items
    BY <1>1, <1>4
  <2> QED BY <1>2, <1>4, <2>1, OpenReview, FS_Subset
<1>6. IsFiniteSet(Planned(r))
  BY <1>3, <1>5, ImageFinite
<1>7. ASSUME NEW p \in Planned(r)
      PROVE  /\ p.field \in Fields /\ p.op \in Operation
             /\ p.old \in SUBSET Values /\ p.new \in SUBSET Values
             /\ p.field \in ScalarFields => p.op = "set" /\ Cardinality(p.new) = 1
             /\ \E i \in proc.chosen :
                   /\ ~i.applied /\ i.id.role = r /\ i.id.field = p.field
                   /\ i.id.old = p.old /\ p.id = i.id
                   /\ i.safety = "addition" => /\ p.op \in {"set", "append"}
                                               /\ p.op = "set" => p.old = {}
  <2>1. PICK i \in mine : p = [role |-> i.id.role, field |-> i.id.field, op |-> i.id.op,
                              old |-> i.id.old, new |-> i.new, id |-> i.id]
    BY <1>2, <1>3
  <2>2. /\ i \in proc.chosen /\ ~i.applied /\ i.id.role = r
        /\ i \in StoredItem /\ SoundItem(i.id, i.new, i.safety)
    BY <1>1, <1>4, OpenReview
  <2>3. i.id \in Item /\ i.new \in SUBSET Values
    BY <2>2 DEF StoredItem
  <2>4. /\ i.id.field \in Fields /\ i.id.op \in Operation /\ i.id.old \in SUBSET Values
    BY <2>3 DEF Item
  <2> QED BY <2>1, <2>2, <2>3, <2>4 DEF SoundItem
<1> QED BY <1>6, <1>7

LEMMA PlannedMerges ==
    ASSUME TypeInv, Locked, NEW r \in Roles
    PROVE  /\ Merged(files[r], Planned(r)) \in Content
           /\ OneEntry(Merged(files[r], Planned(r)))
           /\ \A f \in Fields :
                 /\ Merged(files[r], Planned(r))[f] # files[r][f] =>
                        \E i \in Planned(r) : i.field = f
                 /\ OnlyAdds(files[r], Planned(r), f) =>
                        files[r][f] \subseteq Merged(files[r], Planned(r))[f]
<1>1. PICK content : content = files[r]
  OBVIOUS
<1>2. content \in Content /\ OneEntry(content)
  BY <1>1 DEF TypeInv
<1>3. PICK items : items = Planned(r)
  OBVIOUS
<1>4. /\ IsFiniteSet(items)
      /\ \A i \in items :
            /\ i.field \in Fields /\ i.op \in Operation
            /\ i.old \in SUBSET Values /\ i.new \in SUBSET Values
            /\ i.field \in ScalarFields => i.op = "set" /\ Cardinality(i.new) = 1
  BY <1>3, PlannedTyped
<1>5. /\ Merged(content, items) \in Content
      /\ OneEntry(Merged(content, items))
      /\ \A f \in Fields :
            /\ Merged(content, items)[f] # content[f] => \E i \in items : i.field = f
            /\ OnlyAdds(content, items, f) => content[f] \subseteq Merged(content, items)[f]
  BY <1>2, <1>4, MergedTyped
<1> QED BY <1>1, <1>3, <1>5

LEMMA RolesPlanned ==
    ASSUME TypeInv, Locked
    PROVE  PlannedRoles # {} /\ PlannedRoles \subseteq Roles
<1>1. PICK i \in proc.chosen : ~i.applied
  BY DEF TypeInv
<1>2. i \in StoredItem
  BY DEF TypeInv, Apply
<1>3. i.id.role \in Roles
  BY <1>2 DEF StoredItem, Item
<1>4. Planned(i.id.role) # {}
  BY <1>1 DEF Planned
<1> QED BY <1>3, <1>4 DEF PlannedRoles

LEMMA MergeTyped == ASSUME TypeInv, Merge PROVE TypeInv'
<1>1. /\ UNCHANGED <<files, marks, notes, review, adviser, edits, changes, faults>> /\ Locked
  BY DEF Merge, Locked
<1>2. CASE proc' = Idle
  BY <1>1, <1>2, EmptyTyped DEF TypeInv, Locked
<1>3. CASE proc' # Idle
  <2>1. PICK staged : staged = [r \in Roles |-> Merged(files[r], Planned(r))]
    OBVIOUS
  <2>2. proc' = [proc EXCEPT !.pc = "check", !.todo = PlannedRoles, !.staged = staged]
    BY <1>3, <2>1 DEF Merge
  <2>3. staged \in [Roles -> Content] /\ \A r \in Roles : OneEntry(staged[r])
    BY <1>1, <2>1, PlannedMerges
  <2>4. /\ proc' \in Apply /\ proc'.staged = staged /\ proc'.chosen = proc.chosen
        /\ proc'.of = proc.of
    BY <1>1, <2>2, <2>3, RolesPlanned DEF TypeInv, Apply
  <2> QED BY <1>1, <2>3, <2>4 DEF TypeInv
<1> QED BY <1>2, <1>3

LEMMA BeginApplyTyped == ASSUME TypeInv, NEW s \in Reviews, BeginApply(s) PROVE TypeInv'
<1>1. UNCHANGED <<files, marks, notes, review, adviser, edits, changes, faults>>
  BY DEF BeginApply
<1>2. review[s].status # "absent"
  BY DEF BeginApply, Open
<1>3. PICK safe \in BOOLEAN, chosen \in SUBSET review[s].items :
          /\ \E i \in chosen : ~i.applied
          /\ proc' = [Idle EXCEPT !.pc = "load", !.of = s, !.safe = safe, !.chosen = chosen]
  <2>1. SafeItems(s) \subseteq review[s].items
    BY DEF SafeItems
  <2> QED BY <2>1 DEF BeginApply
<1>4. chosen \subseteq StoredItem
  BY <1>2, OpenReview
<1>5. /\ proc' \in Apply /\ proc'.of = s /\ proc'.chosen = chosen /\ proc'.staged = Idle.staged
  BY <1>3, <1>4, EmptyTyped DEF Apply
<1>6. \A r \in Roles : OneEntry(Idle.staged[r])
  BY EmptyTyped
<1> QED BY <1>1, <1>2, <1>3, <1>5, <1>6 DEF TypeInv

LEMMA RenameTyped == ASSUME TypeInv, Rename PROVE TypeInv'
<1>1. PICK r : r = CHOOSE x \in proc.todo : TRUE
  OBVIOUS
<1>2. /\ files' = [files EXCEPT ![r] = proc.staged[r]]
      /\ marks' = [marks EXCEPT ![r] = proc.seen[r].marks]
      /\ proc' = [proc EXCEPT !.todo = @ \ {r}, !.pc = IF proc.todo = {r} THEN "record" ELSE @]
      /\ UNCHANGED <<notes, review, adviser, edits, changes, faults>> /\ Locked
  BY <1>1 DEF Rename, Locked
<1>3. /\ proc.seen \in [Roles -> Bytes] /\ proc.staged \in [Roles -> Content]
      /\ \A x \in Roles : OneEntry(proc.staged[x])
  BY DEF TypeInv, Apply
<1>4. files' \in [Roles -> Content] /\ \A x \in Roles : OneEntry(files'[x])
  BY <1>2, <1>3 DEF TypeInv
<1>5. marks' \in [Roles -> SUBSET Edits]
  BY <1>2, <1>3 DEF TypeInv, Bytes
<1>6. /\ proc' \in Apply /\ proc'.of = proc.of /\ proc'.chosen = proc.chosen
      /\ proc'.staged = proc.staged
  BY <1>2 DEF TypeInv, Apply
<1> QED BY <1>2, <1>4, <1>5, <1>6 DEF TypeInv

LEMMA RecordTyped ==
    ASSUME TypeInv, Record
    PROVE  /\ TypeInv'
           /\ \E i \in review'[proc.of].items : i.applied
           /\ review'[proc.of].status \in {"applied", "partially_decided"}
           /\ \A t \in Reviews : t # proc.of => review'[t] = review[t]
<1>0. /\ Locked /\ proc.of \in Reviews /\ proc' = Idle /\ review[proc.of].status # "absent"
      /\ UNCHANGED <<files, marks, notes, adviser, edits, changes, faults>>
  BY DEF Record, Locked, TypeInv, Apply
<1>1. PICK rv : rv = review[proc.of]
  OBVIOUS
<1>2. PICK f : f = [i \in rv.items |->
                       IF i \in proc.chosen THEN [i EXCEPT !.decision = "approved", !.applied = TRUE]
                                            ELSE i]
  OBVIOUS
<1>3. PICK items : items = {f[i] : i \in rv.items}
  OBVIOUS
<1>4. {IF i \in proc.chosen THEN [i EXCEPT !.decision = "approved", !.applied = TRUE] ELSE i :
         i \in rv.items} = items
  BY <1>2, <1>3
<1>5. PICK status : status = IF With(items, "pending") = {} THEN "applied" ELSE "partially_decided"
  OBVIOUS
<1>6. PICK next : next = [rv EXCEPT !.items = items, !.status = status,
                                    !.sources.roles = RoleBytes]
  OBVIOUS
<1>7. Update(proc.of, next)
  BY <1>1, <1>4, <1>5, <1>6 DEF Record
<1>8. IsFiniteSet(items)
  <2>1. IsFiniteSet(rv.items) /\ DOMAIN f = rv.items
    BY <1>0, <1>1, <1>2, OpenReview
  <2> QED BY <1>3, <2>1, ImageFinite
<1>9. ASSUME NEW x \in items
      PROVE  x \in StoredItem /\ SoundItem(x.id, x.new, x.safety)
  <2>1. PICK i \in rv.items :
            x = i \/ x = [i EXCEPT !.decision = "approved", !.applied = TRUE]
    BY <1>2, <1>3
  <2>2. i \in StoredItem /\ SoundItem(i.id, i.new, i.safety)
    BY <1>0, <1>1, OpenReview
  <2>3. x \in StoredItem /\ x.id = i.id /\ x.new = i.new /\ x.safety = i.safety
    BY <2>1, <2>2 DEF StoredItem, Decision
  <2> QED BY <2>2, <2>3
<1>10. /\ next \in Review /\ next.status = status /\ next.items = items
       /\ next.edited = rv.edited /\ next.recs = rv.recs
  <2>1. rv \in Review
    BY <1>0, <1>1, OpenReview
  <2>2. [rv.sources EXCEPT !.roles = RoleBytes] \in Sources
    BY <2>1, CurrentTyped DEF Review, Sources
  <2>3. items \subseteq StoredItem /\ status \in ReviewStatus
    BY <1>5, <1>9 DEF ReviewStatus
  <2>4. next = [rv EXCEPT !.items = items, !.status = status,
                          !.sources = [rv.sources EXCEPT !.roles = RoleBytes]]
    BY <1>6, <2>1 DEF Review
  <2> QED BY <2>1, <2>2, <2>3, <2>4 DEF Review
<1>11. SavedReview(proc.of, next)
  BY <1>0, <1>1, <1>5, <1>7, <1>8, <1>9, <1>10, OpenReview DEF SavedReview
<1>12. /\ review' \in [Reviews -> Review] /\ \A t \in Reviews : SoundReview(review'[t])
       /\ review'[proc.of] = next /\ \A t \in Reviews : t # proc.of => review'[t] = review[t]
  BY <1>0, <1>11, SaveTyped
<1>13. \E x \in items : x.applied
  <2>1. PICK i \in proc.chosen : i \in rv.items /\ i \in StoredItem
    BY <1>0, <1>1, OpenReview DEF TypeInv
  <2>2. f[i] \in items /\ f[i].applied
    BY <1>2, <1>3, <2>1 DEF StoredItem
  <2> QED BY <2>2
<1> QED BY <1>0, <1>5, <1>10, <1>12, <1>13, EmptyTyped DEF TypeInv, Locked

LEMMA UserEditTyped ==
    ASSUME TypeInv, NEW r \in Roles, NEW f \in Fields, NEW v \in Values, EditRole(r, f, v)
    PROVE  TypeInv'
<1>1. PICK value : value = IF f \in ScalarFields THEN {v}
                           ELSE IF v \in files[r][f] THEN files[r][f] \ {v} ELSE files[r][f] \cup {v}
  OBVIOUS
<1>2. PICK content : content = [files[r] EXCEPT ![f] = value]
  OBVIOUS
<1>3. files[r] \in [Fields -> SUBSET Values] /\ OneEntry(files[r])
  BY DEF TypeInv, Content
<1>4. files' = [files EXCEPT ![r] = content]
  BY <1>1, <1>2, <1>3 DEF EditRole, TypeInv
<1>5. content \in Content /\ OneEntry(content)
  <2>1. value \in SUBSET Values /\ (f \in ScalarFields => Cardinality(value) = 1)
    BY <1>1, <1>3, FS_Singleton
  <2>2. content \in Content /\ \A g \in Fields : content[g] = IF g = f THEN value ELSE files[r][g]
    BY <1>2, <1>3, <2>1 DEF Content
  <2> QED BY <1>3, <2>1, <2>2 DEF OneEntry, Fields
<1>6. edits' \in 1 .. NumEdits /\ marks' = [marks EXCEPT ![r] = @ \cup {edits'}]
      /\ UNCHANGED <<notes, review, adviser, proc, changes, faults>>
  BY ReviewsAssumption DEF EditRole, TypeInv
<1>7. files' \in [Roles -> Content] /\ \A x \in Roles : OneEntry(files'[x])
  BY <1>4, <1>5 DEF TypeInv
<1>8. marks' \in [Roles -> SUBSET Edits]
  BY <1>6 DEF TypeInv, Edits
<1> QED BY <1>6, <1>7, <1>8 DEF TypeInv, Locked

LEMMA TypeInvHolds == Spec => []TypeInv
<1>1. TypeInv /\ [Next]_vars => TypeInv'
  <2> SUFFICES ASSUME TypeInv, [Next]_vars PROVE TypeInv'
    OBVIOUS
  <2>1. CASE UNCHANGED vars
    BY <2>1 DEF vars, TypeInv, Locked
  <2>2. CASE BeginEnhance
    <3>1. PICK recs \in Proposals :
              adviser' = [busy |-> TRUE, sources |-> CurrentSources, recs |-> recs]
      BY <2>2 DEF BeginEnhance
    <3>2. recs \in SUBSET Recommendation
      BY ReviewsAssumption
    <3> QED BY <2>2, <3>1, <3>2, CurrentTyped DEF BeginEnhance, TypeInv, Locked
  <2>3. CASE AdvisorFails
    BY <2>3, EmptyTyped DEF AdvisorFails, TypeInv, Locked
  <2>4. CASE Create
    BY <2>4, CreateTyped
  <2>5. CASE \E s \in Reviews : MarkStale(s) \/ RefineAgain(s) \/ Reject(s) \/ BeginApply(s)
    BY <2>5, MarkStaleTyped, RefineAgainTyped, RejectTyped, BeginApplyTyped
  <2>6. CASE \E s \in Reviews : \E i \in review[s].items :
                \/ \E decision \in {"approved", "rejected"} : Decide(s, i, decision)
                \/ \E value \in SUBSET Values : EditValue(s, i, value)
    BY <2>6, DecideTyped, EditTyped
  <2>7. CASE LoadFiles
    <3>1. proc' = [proc EXCEPT !.pc = "merge", !.seen = RoleBytes]
          /\ UNCHANGED <<files, marks, notes, review, adviser, edits, changes, faults>> /\ Locked
      BY <2>7 DEF LoadFiles, Locked
    <3>2. /\ proc' \in Apply /\ proc'.of = proc.of /\ proc'.chosen = proc.chosen
          /\ proc'.staged = proc.staged
      BY <3>1, CurrentTyped DEF TypeInv, Apply
    <3> QED BY <3>1, <3>2 DEF TypeInv
  <2>8. CASE Merge
    BY <2>8, MergeTyped
  <2>9. CASE CheckStaged
    <3>1. UNCHANGED <<files, marks, notes, review, adviser, edits, changes, faults>> /\ Locked
      BY <2>9 DEF CheckStaged, Locked
    <3>2. CASE proc' = Idle
      BY <3>1, <3>2, EmptyTyped DEF TypeInv, Locked
    <3>3. CASE proc' = [proc EXCEPT !.pc = "rename"]
      <4>1. /\ proc' \in Apply /\ proc'.of = proc.of /\ proc'.chosen = proc.chosen
            /\ proc'.staged = proc.staged
        BY <3>3 DEF TypeInv, Apply
      <4> QED BY <3>1, <4>1 DEF TypeInv
    <3> QED BY <2>9, <3>2, <3>3 DEF CheckStaged
  <2>10. CASE Rename
    BY <2>10, RenameTyped
  <2>11. CASE Record
    BY <2>11, RecordTyped
  <2>12. CASE Stops
    <3>1. /\ UNCHANGED <<files, marks, notes, review, adviser, edits, changes>>
          /\ faults' \in 0 .. MaxFaults /\ proc' = Idle
      BY <2>12, ReviewsAssumption DEF Stops, TypeInv
    <3> QED BY <3>1, EmptyTyped DEF TypeInv, Locked
  <2>13. CASE \E r \in Roles, f \in Fields, v \in Values : EditRole(r, f, v)
    BY <2>13, UserEditTyped
  <2>14. CASE EditNotes
    BY <2>14 DEF EditNotes, TypeInv, Locked
  <2> QED BY <2>1, <2>2, <2>3, <2>4, <2>5, <2>6, <2>7, <2>8, <2>9, <2>10, <2>11, <2>12, <2>13,
             <2>14 DEF Next
<1> QED BY <1>1, InitTyped, PTL DEF Spec

\* Every variable keeps its shape and a scalar field one entry at most; every stored
\* review is valid.
THEOREM RolesTypeCorrect == Spec => []TypeOK
BY TypeInvHolds, TypeInvImplies, PTL

-----------------------------------------------------------------------------
(* The edits of the user.                                                    *)

\* A file that is still to be replaced is as it was loaded, but for late edits.
MarksInv ==
    /\ \A r \in Roles : marks[r] \cup proc.seen[r].marks \subseteq 1 .. edits
    /\ proc.pc \in {"check", "rename"} => proc.todo # {}
    /\ proc.pc = "rename" =>
          \A r \in proc.todo : /\ marks[r] \ proc.seen[r].marks \subseteq late
                               /\ marks[r] = proc.seen[r].marks => files[r] = proc.seen[r].content
    /\ UserEditsKept

LEMMA IdleMarks ==
    /\ \A r \in Roles : Idle.seen[r].marks = {}
    /\ Idle.pc \notin {"check", "rename"}
<1>1. PICK bytes : bytes = [content |-> [f \in Fields |-> {}], marks |-> {}]
  OBVIOUS
<1>2. NoReview.sources.roles = [r \in Roles |-> bytes] /\ bytes.marks = {}
  BY <1>1 DEF NoReview
<1> QED BY <1>2 DEF Idle

\* A step that leaves the files alone and starts no replacement.
LEMMA MarksStay ==
    ASSUME TypeInv, MarksInv, UNCHANGED <<marks, edits, late>>,
           (proc' = proc /\ UNCHANGED files) \/ proc' = Idle
    PROVE  MarksInv'
<1>1. UserEditsKept'
  BY DEF MarksInv, UserEditsKept
<1>2. CASE proc' = Idle
  BY <1>1, <1>2, IdleMarks DEF MarksInv
<1>3. CASE proc' = proc /\ UNCHANGED files
  BY <1>1, <1>3 DEF MarksInv
<1> QED BY <1>2, <1>3

LEMMA RenameMarks == ASSUME TypeInv, MarksInv, Rename PROVE MarksInv'
<1>1. PICK r : r = CHOOSE x \in proc.todo : TRUE
  OBVIOUS
<1>2. /\ proc.pc = "rename" /\ r \in proc.todo /\ r \in Roles
      /\ files' = [files EXCEPT ![r] = proc.staged[r]]
      /\ marks' = [marks EXCEPT ![r] = proc.seen[r].marks]
      /\ proc' = [proc EXCEPT !.todo = @ \ {r}, !.pc = IF proc.todo = {r} THEN "record" ELSE @]
      /\ UNCHANGED <<edits, late>>
  BY <1>1 DEF Rename, MarksInv, TypeInv, Apply
<1>3. /\ proc'.seen = proc.seen /\ proc'.todo = proc.todo \ {r}
      /\ proc'.pc = IF proc.todo = {r} THEN "record" ELSE "rename"
  BY <1>2 DEF TypeInv, Apply
<1>4. /\ \A x \in Roles : marks'[x] = IF x = r THEN proc.seen[r].marks ELSE marks[x]
      /\ \A x \in Roles \ {r} : files'[x] = files[x]
  BY <1>2 DEF TypeInv
<1>5. UserEditsKept'
  <2>1. ASSUME NEW e \in (1 .. edits) \ late PROVE \E x \in Roles : e \in marks'[x]
    <3>1. PICK x \in Roles : e \in marks[x]
      BY DEF MarksInv, UserEditsKept
    <3>2. CASE x = r
      <4>1. e \in proc.seen[r].marks
        BY <1>2, <3>1, <3>2 DEF MarksInv
      <4> QED BY <1>2, <1>4, <4>1
    <3>3. CASE x # r
      BY <1>4, <3>1, <3>3
    <3> QED BY <3>2, <3>3
  <2> QED BY <1>2, <2>1 DEF UserEditsKept
<1>6. \A x \in Roles : marks'[x] \cup proc.seen[x].marks \subseteq 1 .. edits
  BY <1>4 DEF MarksInv
<1>7. \A x \in proc'.todo : x \in Roles /\ marks'[x] = marks[x] /\ files'[x] = files[x]
  BY <1>3, <1>4 DEF TypeInv, Apply
<1>8. proc'.pc = "rename" =>
          \A x \in proc'.todo : /\ marks'[x] \ proc'.seen[x].marks \subseteq late
                                /\ marks'[x] = proc'.seen[x].marks => files'[x] = proc'.seen[x].content
  BY <1>2, <1>3, <1>7 DEF MarksInv
<1>9. proc'.pc \in {"check", "rename"} => proc'.todo # {}
  BY <1>2, <1>3
<1> QED BY <1>2, <1>3, <1>5, <1>6, <1>8, <1>9 DEF MarksInv

LEMMA UserEditMarks ==
    ASSUME TypeInv, MarksInv, NEW r \in Roles, NEW f \in Fields, NEW v \in Values,
           EditRole(r, f, v)
    PROVE  MarksInv'
<1>1. /\ edits' = edits + 1 /\ edits \in Nat /\ proc' = proc
      /\ marks' = [marks EXCEPT ![r] = @ \cup {edits'}]
      /\ late' = IF proc.pc = "rename" THEN late \cup {edits'} ELSE late
  BY DEF EditRole, TypeInv
<1>2. \A x \in Roles \ {r} : files'[x] = files[x]
  BY DEF EditRole, TypeInv
<1>3. \A x \in Roles : marks'[x] = IF x = r THEN marks[r] \cup {edits'} ELSE marks[x]
  BY <1>1 DEF TypeInv
<1>4. \A x \in Roles : marks'[x] \cup proc.seen[x].marks \subseteq 1 .. edits'
  <2>1. 1 .. edits \subseteq 1 .. edits' /\ edits' \in 1 .. edits' /\ edits' \notin 1 .. edits
    BY <1>1
  <2> QED BY <1>3, <2>1 DEF MarksInv
<1>5. UserEditsKept'
  <2>1. ASSUME NEW e \in (1 .. edits') \ late' PROVE \E x \in Roles : e \in marks'[x]
    <3>1. CASE e = edits'
      BY <1>3, <3>1
    <3>2. CASE e # edits'
      <4>1. e \in (1 .. edits) \ late
        BY <1>1, <3>2
      <4>2. PICK x \in Roles : e \in marks[x]
        BY <4>1 DEF MarksInv, UserEditsKept
      <4> QED BY <1>3, <4>2
    <3> QED BY <3>1, <3>2
  <2> QED BY <2>1 DEF UserEditsKept
<1>6. ASSUME proc.pc = "rename", NEW x \in proc.todo
      PROVE  /\ marks'[x] \ proc.seen[x].marks \subseteq late'
             /\ marks'[x] = proc.seen[x].marks => files'[x] = proc.seen[x].content
  <2>1. x \in Roles /\ marks[x] \ proc.seen[x].marks \subseteq late
        /\ (marks[x] = proc.seen[x].marks => files[x] = proc.seen[x].content)
    BY <1>6 DEF MarksInv, TypeInv, Apply
  <2>2. CASE x = r
    <3>1. edits' \notin proc.seen[r].marks
      <4>1. edits' \notin 1 .. edits
        BY <1>1
      <4> QED BY <4>1 DEF MarksInv
    <3>2. edits' \in marks'[r] /\ edits' \in late'
      BY <1>1, <1>3, <1>6
    <3>3. marks'[r] \ proc.seen[r].marks \subseteq late'
      BY <1>1, <1>3, <1>6, <2>1, <2>2
    <3> QED BY <2>2, <3>1, <3>2, <3>3
  <2>3. CASE x # r
    BY <1>1, <1>2, <1>3, <1>6, <2>1, <2>3
  <2> QED BY <2>2, <2>3
<1> QED BY <1>1, <1>4, <1>5, <1>6 DEF MarksInv

LEMMA MarksInvHolds == Spec => []MarksInv
<1>1. Init => MarksInv
  BY IdleMarks DEF Init, MarksInv, UserEditsKept
<1>2. TypeInv /\ TypeInv' /\ MarksInv /\ [Next]_vars => MarksInv'
  <2> SUFFICES ASSUME TypeInv, TypeInv', MarksInv, [Next]_vars PROVE MarksInv'
    OBVIOUS
  <2>1. CASE UNCHANGED vars
    BY <2>1, MarksStay DEF vars
  <2>2. CASE BeginEnhance \/ AdvisorFails \/ Create \/ EditNotes
    BY <2>2, MarksStay DEF BeginEnhance, AdvisorFails, Create, EditNotes
  <2>3. CASE \E s \in Reviews : MarkStale(s) \/ RefineAgain(s) \/ Reject(s)
    BY <2>3, MarksStay DEF MarkStale, RefineAgain, Reject
  <2>4. CASE \E s \in Reviews : \E i \in review[s].items :
                \/ \E decision \in {"approved", "rejected"} : Decide(s, i, decision)
                \/ \E value \in SUBSET Values : EditValue(s, i, value)
    BY <2>4, MarksStay DEF Decide, EditValue
  <2>5. CASE Record \/ Stops
    BY <2>5, MarksStay DEF Record, Stops
  <2>6. CASE \E s \in Reviews : BeginApply(s)
    <3>1. /\ UNCHANGED <<files, marks, edits, late>>
          /\ proc'.pc = "load" /\ proc'.seen = Idle.seen
      <4>1. PICK s \in Reviews : BeginApply(s)
        BY <2>6
      <4>2. PICK safe, chosen :
                proc' = [Idle EXCEPT !.pc = "load", !.of = s, !.safe = safe, !.chosen = chosen]
        BY <4>1 DEF BeginApply
      <4> QED BY <4>1, <4>2, EmptyTyped DEF BeginApply, Apply
    <3> QED BY <3>1, IdleMarks DEF MarksInv, UserEditsKept
  <2>7. CASE LoadFiles
    <3>1. UNCHANGED <<files, marks, edits, late>> /\ proc'.pc = "merge" /\ proc'.seen = RoleBytes
      BY <2>7 DEF LoadFiles, TypeInv, Apply
    <3>2. \A r \in Roles : RoleBytes[r].marks = marks[r]
      BY DEF RoleBytes
    <3> QED BY <3>1, <3>2 DEF MarksInv, UserEditsKept
  <2>8. CASE Merge
    <3>1. CASE proc' = Idle
      BY <2>8, <3>1, MarksStay DEF Merge
    <3>2. CASE proc' # Idle
      <4>1. UNCHANGED <<files, marks, edits, late>> /\ Locked
        BY <2>8 DEF Merge, Locked
      <4>2. PICK staged : proc' = [proc EXCEPT !.pc = "check", !.todo = PlannedRoles, !.staged = staged]
        BY <2>8, <3>2 DEF Merge
      <4>3. proc'.pc = "check" /\ proc'.todo # {} /\ proc'.seen = proc.seen
        BY <4>1, <4>2, RolesPlanned DEF TypeInv, Apply
      <4> QED BY <4>1, <4>3 DEF MarksInv, UserEditsKept
    <3> QED BY <3>1, <3>2
  <2>9. CASE CheckStaged
    <3>1. CASE proc' = Idle
      BY <2>9, <3>1, MarksStay DEF CheckStaged
    <3>2. CASE proc' # Idle
      <4>1. /\ UNCHANGED <<files, marks, edits, late>> /\ proc.pc = "check"
            /\ proc' = [proc EXCEPT !.pc = "rename"]
            /\ \A r \in proc.todo : proc.seen[r] = RoleBytes[r]
        BY <2>9, <3>2 DEF CheckStaged
      <4>2. proc'.pc = "rename" /\ proc'.todo = proc.todo /\ proc'.seen = proc.seen
        BY <4>1 DEF TypeInv, Apply
      <4>3. \A r \in proc.todo :
                r \in Roles /\ proc.seen[r].marks = marks[r] /\ proc.seen[r].content = files[r]
        <5>1. proc.todo \subseteq Roles
          BY DEF TypeInv, Apply
        <5>2. \A r \in Roles : RoleBytes[r] = [content |-> files[r], marks |-> marks[r]]
          BY DEF RoleBytes
        <5>3. ASSUME NEW r \in proc.todo
              PROVE  r \in Roles /\ proc.seen[r].marks = marks[r] /\ proc.seen[r].content = files[r]
          <6>1. r \in Roles /\ proc.seen[r] = RoleBytes[r]
            BY <4>1, <5>1
          <6>2. RoleBytes[r] = [content |-> files[r], marks |-> marks[r]]
            BY <5>2, <6>1
          <6> QED BY <6>1, <6>2
        <5> QED BY <5>3
      <4> QED BY <4>1, <4>2, <4>3 DEF MarksInv, UserEditsKept
    <3> QED BY <3>1, <3>2
  <2>10. CASE Rename
    BY <2>10, RenameMarks
  <2>11. CASE \E r \in Roles, f \in Fields, v \in Values : EditRole(r, f, v)
    BY <2>11, UserEditMarks
  <2> QED BY <2>1, <2>2, <2>3, <2>4, <2>5, <2>6, <2>7, <2>8, <2>9, <2>10, <2>11 DEF Next
<1> QED BY <1>1, <1>2, TypeInvHolds, PTL DEF Spec

\* An edit of the user survives every apply, unless it was made between the last check
\* and the replacement of the files (merge.go:134).
THEOREM EditsSurvive == Spec => []UserEditsKept
<1>1. MarksInv => UserEditsKept
  BY DEF MarksInv
<1> QED BY <1>1, MarksInvHolds, PTL

-----------------------------------------------------------------------------
(* Rejected reviews.                                                         *)

\* What was written for a review is an item of it that is applied, or its apply is
\* about to say so.
WrittenInv ==
    /\ Locked => review[proc.of].status # "rejected"
    /\ faults = 0 =>
          \A s \in Reviews \ erased : \A w \in written :
             w[1] = s => \/ proc.of = s /\ proc.pc \in {"rename", "record"}
                         \/ \E i \in review[s].items : i.applied

\* A command keeps what is applied, or what was applied is erased.
LEMMA CommandWritten ==
    ASSUME TypeInv, WrittenInv, NEW s \in Reviews, ~Locked, UNCHANGED <<proc, faults, written>>,
           erased' \in {erased, erased \cup {s}},
           \A t \in Reviews : t # s => review'[t] = review[t],
           s \in erased' \/ (\E i \in review[s].items : i.applied)
                            => s \in erased' \/ (\E i \in review'[s].items : i.applied)
    PROVE  WrittenInv'
BY DEF WrittenInv, Locked

\* A step that touches no review and no file.
LEMMA WrittenStays ==
    ASSUME TypeInv, WrittenInv, UNCHANGED <<written, erased, review, faults>>,
           \/ UNCHANGED <<proc>>
           \/ /\ proc.pc \notin {"rename", "record"}
              /\ Locked' => review[proc'.of].status # "rejected"
    PROVE  WrittenInv'
BY DEF WrittenInv, Locked

LEMMA ReviewsWritten ==
    ASSUME TypeInv, WrittenInv, NEW s \in Reviews, MarkStale(s) \/ RefineAgain(s) \/ Reject(s)
    PROVE  WrittenInv'
<1>0. review[s] \in Review /\ review \in [Reviews -> Review]
  BY DEF TypeInv
<1>1. CASE MarkStale(s)
  <2>1. /\ ~Locked /\ UNCHANGED <<proc, faults, written, erased>>
        /\ review' = [review EXCEPT ![s] = [review[s] EXCEPT !.status = "stale"]]
    BY <1>1 DEF MarkStale, Open, Update
  <2>2. review'[s].items = review[s].items
    BY <1>0, <2>1 DEF Review
  <2>3. \A t \in Reviews : t # s => review'[t] = review[t]
    BY <1>0, <2>1
  <2> QED BY <2>1, <2>2, <2>3, CommandWritten
<1>2. CASE RefineAgain(s)
  <2>1. PICK next : review' = [review EXCEPT ![s] = next]
    BY <1>2 DEF RefineAgain, Update
  <2>2. /\ ~Locked /\ UNCHANGED <<proc, faults, written>>
        /\ erased' = IF \E i \in review[s].items : i.applied THEN erased \cup {s} ELSE erased
    BY <1>2 DEF RefineAgain, Change, Open
  <2>3. \A t \in Reviews : t # s => review'[t] = review[t]
    BY <1>0, <2>1
  <2> QED BY <2>2, <2>3, CommandWritten
<1>3. CASE Reject(s)
  <2>1. PICK next : review' = [review EXCEPT ![s] = next]
    BY <1>3 DEF Reject, Update
  <2>2. /\ ~Locked /\ UNCHANGED <<proc, faults, written, erased>>
        /\ \A i \in review[s].items : ~i.applied
    BY <1>3 DEF Reject, Open
  <2>3. \A t \in Reviews : t # s => review'[t] = review[t]
    BY <1>0, <2>1
  <2> QED BY <2>2, <2>3, CommandWritten
<1> QED BY <1>1, <1>2, <1>3

LEMMA ItemsWritten ==
    ASSUME TypeInv, WrittenInv, NEW s \in Reviews, NEW i \in review[s].items,
           \/ \E decision \in {"approved", "rejected"} : Decide(s, i, decision)
           \/ \E value \in SUBSET Values : EditValue(s, i, value)
    PROVE  WrittenInv'
<1>0. review[s] \in Review /\ review \in [Reviews -> Review] /\ i \in StoredItem
  BY DEF TypeInv, Review
<1>1. ~Locked /\ UNCHANGED <<proc, faults, written, erased>>
  BY DEF Decide, EditValue, Change, Open
<1>2. \E item, next : /\ item.applied = i.applied
                      /\ next.items = (review[s].items \ {i}) \cup {item}
                      /\ review' = [review EXCEPT ![s] = next]
  <2>1. CASE \E decision \in {"approved", "rejected"} : Decide(s, i, decision)
    <3>1. PICK decision : Decide(s, i, decision)
      BY <2>1
    <3>2. PICK item : item = [i EXCEPT !.decision = decision]
      OBVIOUS
    <3>3. PICK items : items = (review[s].items \ {i}) \cup {item}
      OBVIOUS
    <3>4. PICK next : next = [review[s] EXCEPT !.items = items, !.status = StatusAfterDecide(items)]
      OBVIOUS
    <3>5. review' = [review EXCEPT ![s] = next]
      BY <3>1, <3>2, <3>3, <3>4 DEF Decide, Update
    <3>6. item.applied = i.applied /\ next.items = items
      BY <1>0, <3>2, <3>4 DEF StoredItem, Review
    <3> QED BY <3>3, <3>5, <3>6
  <2>2. CASE \E value \in SUBSET Values : EditValue(s, i, value)
    <3>1. PICK value : EditValue(s, i, value)
      BY <2>2
    <3>2. PICK item : item = [i EXCEPT !.new = value, !.decision = "pending",
                                       !.safety = IF i.id.op = "remove" THEN "removal"
                                                  ELSE Replacing(i.id.old)]
      OBVIOUS
    <3>3. PICK items : items = (review[s].items \ {i}) \cup {item}
      OBVIOUS
    <3>4. PICK edited : edited = {e \in review[s].edited : e.id # i.id}
                                    \cup {[id |-> i.id, new |-> value]}
      OBVIOUS
    <3>5. PICK next : next = [review[s] EXCEPT
                                 !.items = items, !.edited = edited,
                                 !.status = IF Decided(items) = {} THEN "refined"
                                            ELSE "partially_decided"]
      OBVIOUS
    <3>6. review' = [review EXCEPT ![s] = next]
      BY <3>1, <3>2, <3>3, <3>4, <3>5 DEF EditValue, Update
    <3>7. item.applied = i.applied /\ next.items = items
      BY <1>0, <3>2, <3>5 DEF StoredItem, Review
    <3> QED BY <3>3, <3>6, <3>7
  <2> QED BY <2>1, <2>2
<1>3. PICK item, next : /\ item.applied = i.applied
                        /\ next.items = (review[s].items \ {i}) \cup {item}
                        /\ review' = [review EXCEPT ![s] = next]
  BY <1>2
<1>4. review'[s].items = (review[s].items \ {i}) \cup {item}
      /\ \A t \in Reviews : t # s => review'[t] = review[t]
  BY <1>0, <1>3
<1>5. (\E x \in review[s].items : x.applied) => \E x \in review'[s].items : x.applied
  BY <1>3, <1>4
<1> QED BY <1>1, <1>4, <1>5, CommandWritten

LEMMA WrittenInvHolds == Spec => []WrittenInv
<1>1. Init => WrittenInv
  BY EmptyTyped DEF Init, WrittenInv, Locked
<1>2. TypeInv /\ WrittenInv /\ [Next]_vars => WrittenInv'
  <2> SUFFICES ASSUME TypeInv, WrittenInv, [Next]_vars PROVE WrittenInv'
    OBVIOUS
  <2>1. CASE UNCHANGED vars
    BY <2>1, WrittenStays DEF vars
  <2>2. CASE BeginEnhance \/ AdvisorFails \/ EditNotes
    BY <2>2, WrittenStays DEF BeginEnhance, AdvisorFails, EditNotes
  <2>3. CASE Create
    <3>1. PICK s \in Reviews : /\ review[s].status = "absent"
                               /\ \A t \in Reviews : t # s => review'[t] = review[t]
      BY <2>3, CreateTyped
    <3>2. /\ UNCHANGED <<proc, faults, written, erased>> /\ (Locked => proc.of # s)
          /\ proc.of \in Reviews
      BY <2>3, <3>1 DEF Create, TypeInv, Apply
    <3>3. \A i \in review[s].items : ~i.applied
      BY <3>1 DEF TypeInv, SoundReview
    <3> QED BY <3>1, <3>2, <3>3 DEF WrittenInv, Locked
  <2>4. CASE \E s \in Reviews : MarkStale(s) \/ RefineAgain(s) \/ Reject(s)
    BY <2>4, ReviewsWritten
  <2>5. CASE \E s \in Reviews : \E i \in review[s].items :
                \/ \E decision \in {"approved", "rejected"} : Decide(s, i, decision)
                \/ \E value \in SUBSET Values : EditValue(s, i, value)
    BY <2>5, ItemsWritten
  <2>6. CASE (\E s \in Reviews : BeginApply(s)) \/ LoadFiles \/ Merge \/ CheckStaged
    <3>1. UNCHANGED <<written, erased, review, faults>> /\ proc.pc \notin {"rename", "record"}
      BY <2>6 DEF BeginApply, Open, Locked, LoadFiles, Merge, CheckStaged
    <3>2. Locked' => review[proc'.of].status # "rejected"
      <4>1. CASE \E s \in Reviews : BeginApply(s)
        <5>1. PICK s \in Reviews : BeginApply(s)
          BY <4>1
        <5>2. PICK safe, chosen :
                  proc' = [Idle EXCEPT !.pc = "load", !.of = s, !.safe = safe, !.chosen = chosen]
          BY <5>1 DEF BeginApply
        <5>3. proc'.of = s
          BY <5>2, EmptyTyped DEF Apply
        <5> QED BY <5>1, <5>3 DEF BeginApply
      <4>2. CASE LoadFiles \/ Merge \/ CheckStaged
        <5>1. Locked /\ (proc' = Idle \/ proc'.of = proc.of)
          BY <4>2 DEF LoadFiles, Merge, CheckStaged, Locked, TypeInv, Apply
        <5> QED BY <5>1, EmptyTyped DEF Locked, WrittenInv
      <4> QED BY <2>6, <4>1, <4>2
    <3> QED BY <3>1, <3>2, WrittenStays
  <2>7. CASE Rename
    <3>1. /\ proc.pc = "rename" /\ UNCHANGED <<review, faults, erased>>
          /\ proc'.of = proc.of /\ proc'.pc \in {"rename", "record"}
      BY <2>7 DEF Rename, TypeInv, Apply
    <3>2. \A w \in written' \ written : w[1] = proc.of
      BY <2>7 DEF Rename
    <3> QED BY <3>1, <3>2 DEF WrittenInv, Locked
  <2>8. CASE Record
    <3>1. /\ UNCHANGED <<written, faults, erased>> /\ proc.of \in Reviews
          /\ proc' = Idle /\ proc.pc = "record"
      BY <2>8 DEF Record, TypeInv, Apply
    <3> QED BY <2>8, <3>1, RecordTyped, EmptyTyped DEF WrittenInv, Locked
  <2>9. CASE Stops
    <3>1. faults' # 0 /\ proc' = Idle
      BY <2>9 DEF Stops, TypeInv
    <3> QED BY <3>1, EmptyTyped DEF WrittenInv, Locked
  <2>10. CASE \E r \in Roles, f \in Fields, v \in Values : EditRole(r, f, v)
    BY <2>10, WrittenStays DEF EditRole
  <2> QED BY <2>1, <2>2, <2>3, <2>4, <2>5, <2>6, <2>7, <2>8, <2>9, <2>10 DEF Next
<1> QED BY <1>1, <1>2, TypeInvHolds, PTL DEF Spec

\* A review that was rejected has changed no file, unless a fault kept an apply from
\* recording what it did, or a refine dropped the items that were applied.
THEOREM RejectedChangedNothing == Spec => []RejectedUntouched
<1>1. TypeInv /\ WrittenInv => RejectedUntouched
  <2> SUFFICES ASSUME TypeInv, WrittenInv, NEW s \in Reviews \ erased,
                      review[s].status = "rejected", faults = 0, NEW w \in written, w[1] = s
               PROVE  FALSE
    BY DEF RejectedUntouched
  <2>1. Valid(review[s]) /\ review[s].items \subseteq StoredItem
    BY OpenReview
  <2>2. \A i \in review[s].items : ~i.applied
    BY <2>1 DEF Valid, With
  <2>3. proc.of = s /\ proc.pc \in {"rename", "record"}
    BY <2>2 DEF WrittenInv
  <2> QED BY <2>3 DEF WrittenInv, Locked
<1> QED BY <1>1, TypeInvHolds, WrittenInvHolds, PTL

-----------------------------------------------------------------------------
(* What an apply writes.                                                     *)

\* What is staged differs from what was loaded only where a chosen item says so.
StagedInv ==
    /\ Locked /\ proc.safe => \A i \in proc.chosen : i.safety = "addition"
    /\ proc.pc \in {"check", "rename"} =>
          \A r \in proc.todo, f \in Fields :
             /\ proc.staged[r][f] # proc.seen[r].content[f] =>
                   \E i \in proc.chosen : /\ i.id.role = r /\ i.id.field = f
                                         /\ i.id.old = proc.seen[r].content[f]
             /\ proc.safe => proc.seen[r].content[f] \subseteq proc.staged[r][f]

LEMMA MergeStages == ASSUME TypeInv, StagedInv, Merge PROVE StagedInv'
<1>0. Locked
  BY DEF Merge, Locked
<1>1. CASE proc' = Idle
  BY <1>1, EmptyTyped DEF StagedInv, Locked
<1>2. CASE proc' # Idle
  <2>1. PICK staged : staged = [r \in Roles |-> Merged(files[r], Planned(r))]
    OBVIOUS
  <2>2. /\ proc' = [proc EXCEPT !.pc = "check", !.todo = PlannedRoles, !.staged = staged]
        /\ \A r \in PlannedRoles : Mergeable(r)
    BY <1>2, <2>1 DEF Merge
  <2>3. /\ proc'.todo = PlannedRoles /\ proc'.staged = staged /\ proc'.seen = proc.seen
        /\ proc'.safe = proc.safe /\ proc'.chosen = proc.chosen
    BY <2>2 DEF TypeInv, Apply
  <2>4. ASSUME NEW r \in PlannedRoles, NEW f \in Fields
        PROVE  /\ staged[r][f] # proc.seen[r].content[f] =>
                     \E i \in proc.chosen : /\ i.id.role = r /\ i.id.field = f
                                           /\ i.id.old = proc.seen[r].content[f]
               /\ proc.safe => proc.seen[r].content[f] \subseteq staged[r][f]
    <3>1. r \in Roles /\ Mergeable(r)
      BY <2>2 DEF PlannedRoles
    <3>2. proc.seen[r].content = files[r]
      <4>1. RoleBytes[r] = [content |-> files[r], marks |-> marks[r]]
        BY <3>1 DEF RoleBytes
      <4>2. proc.seen[r] = RoleBytes[r]
        BY <3>1 DEF Mergeable
      <4> QED BY <4>1, <4>2
    <3>3. \A p \in Planned(r) : p.old = files[r][p.field]
      BY <3>1, <3>2 DEF Mergeable
    <3>4. staged[r] = Merged(files[r], Planned(r))
      BY <2>1, <3>1
    <3>5. staged[r][f] # files[r][f] => \E p \in Planned(r) : p.field = f
      BY <1>0, <3>1, <3>4, PlannedMerges
    <3>6. ASSUME NEW p \in Planned(r), p.field = f
          PROVE  \E i \in proc.chosen : i.id.role = r /\ i.id.field = f /\ i.id.old = files[r][f]
      BY <1>0, <3>1, <3>3, <3>6, PlannedTyped
    <3>7. ASSUME proc.safe PROVE files[r][f] \subseteq staged[r][f]
      <4>1. \A p \in Planned(r) : p.op \in {"set", "append"} /\ (p.op = "set" => p.old = {})
        <5>1. ASSUME NEW p \in Planned(r)
              PROVE  p.op \in {"set", "append"} /\ (p.op = "set" => p.old = {})
          <6>1. PICK i \in proc.chosen :
                    i.safety = "addition" => /\ p.op \in {"set", "append"}
                                             /\ p.op = "set" => p.old = {}
            BY <1>0, <3>1, PlannedTyped
          <6>2. i.safety = "addition"
            BY <1>0, <3>7 DEF StagedInv
          <6> QED BY <6>1, <6>2
        <5> QED BY <5>1
      <4>2. OnlyAdds(files[r], Planned(r), f)
        BY <3>3, <4>1 DEF OnlyAdds
      <4> QED BY <1>0, <3>1, <3>4, <4>2, PlannedMerges
    <3> QED BY <3>2, <3>5, <3>6, <3>7
  <2>5. proc'.safe => \A i \in proc'.chosen : i.safety = "addition"
    BY <1>0, <2>3 DEF StagedInv
  <2> QED BY <2>3, <2>4, <2>5 DEF StagedInv
<1> QED BY <1>1, <1>2

LEMMA StagedInvHolds == Spec => []StagedInv
<1>1. Init => StagedInv
  BY EmptyTyped DEF Init, StagedInv, Locked
<1>2. TypeInv /\ StagedInv /\ [Next]_vars => StagedInv'
  <2> SUFFICES ASSUME TypeInv, StagedInv, [Next]_vars PROVE StagedInv'
    OBVIOUS
  <2>1. CASE UNCHANGED proc
    BY <2>1 DEF StagedInv, Locked
  <2>2. CASE \E s \in Reviews : BeginApply(s)
    <3>1. PICK s \in Reviews : BeginApply(s)
      BY <2>2
    <3>2. PICK safe \in BOOLEAN :
            \E chosen \in IF safe THEN {SafeItems(s)} ELSE SUBSET review[s].items :
               proc' = [Idle EXCEPT !.pc = "load", !.of = s, !.safe = safe, !.chosen = chosen]
      BY <3>1 DEF BeginApply
    <3>3. PICK chosen \in IF safe THEN {SafeItems(s)} ELSE SUBSET review[s].items :
            proc' = [Idle EXCEPT !.pc = "load", !.of = s, !.safe = safe, !.chosen = chosen]
      BY <3>2
    <3>4. proc'.pc = "load" /\ proc'.safe = safe /\ proc'.chosen = chosen
      BY <3>3, EmptyTyped DEF Apply
    <3> QED BY <3>3, <3>4 DEF StagedInv, SafeItems
  <2>3. CASE LoadFiles
    <3>1. /\ Locked /\ proc'.pc = "merge" /\ proc'.safe = proc.safe /\ proc'.chosen = proc.chosen
      BY <2>3 DEF LoadFiles, Locked, TypeInv, Apply
    <3> QED BY <3>1 DEF StagedInv
  <2>4. CASE Merge
    BY <2>4, MergeStages
  <2>5. CASE CheckStaged
    <3>1. CASE proc' = Idle
      BY <3>1, EmptyTyped DEF StagedInv, Locked
    <3>2. CASE proc' = [proc EXCEPT !.pc = "rename"]
      <4>1. /\ Locked /\ proc.pc = "check" /\ proc'.pc = "rename"
            /\ proc'.safe = proc.safe /\ proc'.chosen = proc.chosen /\ proc'.todo = proc.todo
            /\ proc'.seen = proc.seen /\ proc'.staged = proc.staged
        BY <2>5, <3>2 DEF CheckStaged, Locked, TypeInv, Apply
      <4> QED BY <4>1 DEF StagedInv
    <3> QED BY <2>5, <3>1, <3>2 DEF CheckStaged
  <2>6. CASE Rename
    <3>1. /\ Locked /\ proc.pc = "rename" /\ proc'.todo \subseteq proc.todo
          /\ proc'.safe = proc.safe /\ proc'.chosen = proc.chosen
          /\ proc'.seen = proc.seen /\ proc'.staged = proc.staged
      BY <2>6 DEF Rename, Locked, TypeInv, Apply
    <3> QED BY <3>1 DEF StagedInv
  <2>7. CASE Record \/ Stops
    BY <2>7, EmptyTyped DEF Record, Stops, StagedInv, Locked
  <2> QED BY <2>1, <2>2, <2>3, <2>4, <2>5, <2>6, <2>7
          DEF Next, vars, BeginEnhance, AdvisorFails, Create, MarkStale, RefineAgain, Reject, Decide,
              EditValue, EditRole, EditNotes
<1> QED BY <1>1, <1>2, TypeInvHolds, PTL DEF Spec

\* Where the user does not edit a file while it is being replaced, what an apply changes
\* in it is what an item of the review is about, from the value the review shows; with
\* --safe it only adds.
THEOREM OnlyReviewedIsWritten == Spec => WritesReviewed
<1>1. ASSUME TypeInv, MarksInv, StagedInv, [Next]_vars, NEW r \in proc.todo \ proc'.todo,
             proc.pc = "rename", marks[r] = proc.seen[r].marks,
             NEW f \in Fields, files'[r][f] # files[r][f]
      PROVE  /\ \E i \in review[proc.of].items :
                    i.id.role = r /\ i.id.field = f /\ i.id.old = files[r][f]
             /\ proc.safe => files[r][f] \subseteq files'[r][f]
  <2>1. CASE Rename
    <3>1. PICK x : x = CHOOSE y \in proc.todo : TRUE
      OBVIOUS
    <3>2. /\ files' = [files EXCEPT ![x] = proc.staged[x]]
          /\ proc'.todo = proc.todo \ {x}
      BY <2>1, <3>1 DEF Rename, TypeInv, Apply
    <3>3. r = x /\ r \in Roles
      BY <1>1, <3>2 DEF TypeInv, Apply
    <3>4. files'[r] = proc.staged[r] /\ files[r] = proc.seen[r].content
      BY <1>1, <3>2, <3>3 DEF TypeInv, MarksInv
    <3>5. proc.chosen \subseteq review[proc.of].items
      BY <1>1 DEF TypeInv, Locked
    <3> QED BY <1>1, <3>4, <3>5 DEF StagedInv
  <2>2. CASE ~Rename
    <3>1. UNCHANGED files \/ UNCHANGED proc
      BY <1>1, <2>2 DEF Next, vars, BeginEnhance, AdvisorFails, Create, MarkStale, RefineAgain,
         Reject, BeginApply, Decide, EditValue, LoadFiles, Merge, CheckStaged, Record, Stops,
         EditRole, EditNotes
    <3> QED BY <1>1, <3>1
  <2> QED BY <2>1, <2>2
<1>2. TypeInv /\ MarksInv /\ StagedInv /\ [Next]_vars =>
          [\A r \in proc.todo \ proc'.todo :
              proc.pc = "rename" /\ marks[r] = proc.seen[r].marks =>
                 \A f \in Fields : files'[r][f] # files[r][f] =>
                    /\ \E i \in review[proc.of].items :
                          i.id.role = r /\ i.id.field = f /\ i.id.old = files[r][f]
                    /\ proc.safe => files[r][f] \subseteq files'[r][f]]_vars
  BY <1>1
<1> QED BY <1>2, TypeInvHolds, MarksInvHolds, StagedInvHolds, PTL DEF Spec, WritesReviewed
=============================================================================
