---------------------------- MODULE Adoption_proofs ----------------------------
(***************************************************************************)
(* Theorems about SequenceAdoption, for every number of slices, runs,      *)
(* edits and crashes, and whatever prompts, roles, policies of models and  *)
(* records of version 1 may hold.                                          *)
(***************************************************************************)
EXTENDS SequenceAdoption, FiniteSetTheorems, SequenceTheorems, WellFoundedInduction, TLAPS

-----------------------------------------------------------------------------
(* Numbers, and the sequence of records.                                     *)

LEMMA LeastIn ==
    ASSUME NEW S \in SUBSET Nat, S # {}
    PROVE  Min(S) \in S /\ \A x \in S : Min(S) <= x
<1> DEFINE Less == {pair \in Nat \X Nat : pair[1] < pair[2]}
<1>1. PICK m \in S : \A x \in S : <<x, m>> \notin Less
  <2>1. IsWellFoundedOn(Less, Nat)
    BY NatLessThanWellFounded DEF OpToRel
  <2> HIDE DEF Less
  <2> QED BY <2>1, WFMin
<1>2. ASSUME NEW x \in S PROVE m <= x
  <2>1. CASE x < m
    <3>1. <<x, m>> \in Less
      BY <2>1
    <3> QED BY <1>1, <3>1
  <2> QED BY <2>1
<1> QED BY <1>2 DEF Min

\* What is done is finite, and a prefix is what its size says.
LEMMA DoneCounted ==
    ASSUME NEW r
    PROVE  /\ Done(r) \subseteq Slices
           /\ Cardinality(Done(r)) \in Nat
           /\ Prefix(r) => Slices \ Done(r) = {i \in Slices : i > Cardinality(Done(r))}
<1>1. IsFiniteSet(Slices) /\ Done(r) \subseteq Slices
  <2>1. NumSlices \in Int
    BY SizeAssumption
  <2> QED BY <2>1, FS_Interval DEF Slices, Done
<1>2. Cardinality(Done(r)) \in Nat
  BY <1>1, FS_Subset, FS_CardinalityType
<1> QED BY <1>1, <1>2, SizeAssumption DEF Prefix, Slices

OneEach(s) == \A j, k \in DOMAIN s : s[j].id = s[k].id => j = k

StoreShape == store \in Seq(Range(store)) /\ OneEach(store)

LEMMA RemoveAtElements ==
    ASSUME NEW S, NEW q \in Seq(S), NEW i \in 1 .. Len(q)
    PROVE  /\ RemoveAt(q, i) \in Seq(S)
           /\ Len(RemoveAt(q, i)) = Len(q) - 1
           /\ \A k \in 1 .. Len(q) - 1 :
                RemoveAt(q, i)[k] = IF k < i THEN q[k] ELSE q[k + 1]
<1> DEFINE a == SubSeq(q, 1, i - 1)
           b == SubSeq(q, i + 1, Len(q))
<1>1. a \in Seq(S) /\ Len(a) = i - 1 /\ \A k \in 1 .. i - 1 : a[k] = q[k]
  BY SubSeqProperties
<1>2. b \in Seq(S) /\ Len(b) = Len(q) - i /\ \A k \in 1 .. Len(q) - i : b[k] = q[i + k]
  BY SubSeqProperties
<1>3. RemoveAt(q, i) = a \o b
  BY DEF RemoveAt
<1> HIDE DEF a, b
<1>4. /\ a \o b \in Seq(S)
      /\ Len(a \o b) = Len(a) + Len(b)
      /\ \A k \in 1 .. Len(a) + Len(b) :
            (a \o b)[k] = IF k <= Len(a) THEN a[k] ELSE b[k - Len(a)]
  BY <1>1, <1>2, ConcatProperties
<1>5. Len(a) + Len(b) = Len(q) - 1
  BY <1>1, <1>2
<1>6. ASSUME NEW k \in 1 .. Len(q) - 1
      PROVE  (a \o b)[k] = IF k < i THEN q[k] ELSE q[k + 1]
  BY <1>1, <1>2, <1>4, <1>5
<1> QED BY <1>3, <1>4, <1>5, <1>6

LEMMA OthersAre ==
    ASSUME StoreShape, NEW id
    PROVE  /\ Others(id) \in Seq(Range(store))
           /\ OneEach(Others(id))
           /\ Range(Others(id)) = {x \in Range(store) : x.id # id}
<1>1. CASE id \notin Ids
  <2>1. \A x \in Range(store) : x.id # id
    BY <1>1 DEF Ids
  <2> QED BY <1>1, <2>1 DEF Others, StoreShape
<1>2. CASE id \in Ids
  <2> DEFINE n == CHOOSE k \in DOMAIN store : store[k].id = id
             t == RemoveAt(store, n)
  <2>1. PICK k \in DOMAIN store : store[k].id = id
    BY <1>2 DEF Ids, Range
  <2>2. n \in DOMAIN store /\ store[n].id = id
    BY <2>1
  <2>3. Others(id) = t
    BY <1>2 DEF Others
  <2>4. \A j \in DOMAIN store : store[j].id = id <=> j = n
    BY <2>2 DEF StoreShape, OneEach
  <2> HIDE DEF n
  <2>5. DOMAIN store = 1 .. Len(store) /\ Len(store) \in Nat
    BY LenProperties DEF StoreShape
  <2>6. /\ t \in Seq(Range(store)) /\ Len(t) = Len(store) - 1
        /\ \A j \in 1 .. Len(store) - 1 : t[j] = IF j < n THEN store[j] ELSE store[j + 1]
    BY <2>2, <2>5, RemoveAtElements DEF StoreShape
  <2> HIDE DEF t
  <2>7. DOMAIN t = 1 .. Len(store) - 1
    BY <2>6, LenProperties
  <2>8. OneEach(t)
    <3> SUFFICES ASSUME NEW j \in DOMAIN t, NEW l \in DOMAIN t, t[j].id = t[l].id
                 PROVE  j = l
      BY DEF OneEach
    <3> DEFINE Old(i) == IF i < n THEN i ELSE i + 1
    <3>1. Old(j) \in DOMAIN store /\ Old(l) \in DOMAIN store
      BY <2>2, <2>5, <2>7
    <3>2. t[j] = store[Old(j)] /\ t[l] = store[Old(l)]
      BY <2>6, <2>7
    <3>3. Old(j) = Old(l)
      BY <3>1, <3>2 DEF StoreShape, OneEach
    <3> QED BY <2>2, <2>5, <2>7, <3>3
  <2>9. ASSUME NEW j \in DOMAIN t
        PROVE  t[j] \in Range(store) /\ t[j].id # id
    <3> DEFINE o == IF j < n THEN j ELSE j + 1
    <3>1. o \in DOMAIN store /\ o # n
      BY <2>2, <2>5, <2>7
    <3>2. t[j] = store[o]
      BY <2>6, <2>7
    <3> QED BY <2>4, <3>1, <3>2 DEF Range
  <2>10. ASSUME NEW j \in DOMAIN store, store[j].id # id
         PROVE  store[j] \in Range(t)
    <3> DEFINE o == IF j < n THEN j ELSE j - 1
    <3>1. j # n
      BY <2>2, <2>10
    <3>2. o \in DOMAIN t /\ t[o] = store[j]
      BY <2>2, <2>5, <2>6, <2>7, <3>1
    <3> QED BY <3>2 DEF Range
  <2>11. Range(t) = {x \in Range(store) : x.id # id}
    BY <2>9, <2>10 DEF Range
  <2> QED BY <2>3, <2>6, <2>8, <2>11
<1> QED BY <1>1, <1>2

\* What saving a record does to the records.
LEMMA Touched ==
    ASSUME StoreShape, NEW r, Touch(r)
    PROVE  /\ StoreShape'
           /\ Range(store') = {r} \cup {x \in Range(store) : x.id # r.id}
<1> DEFINE o == Others(r.id)
           S == {r} \cup {x \in Range(store) : x.id # r.id}
<1>1. /\ o \in Seq(Range(store)) /\ OneEach(o)
      /\ Range(o) = {x \in Range(store) : x.id # r.id}
  BY OthersAre
<1>2. store' = <<r>> \o o
  BY DEF Touch
<1> HIDE DEF o
<1>3. DOMAIN o = 1 .. Len(o) /\ Len(o) \in Nat /\ \A k \in DOMAIN o : o[k] \in Range(o)
  BY <1>1, LenProperties DEF Range
<1>4. o \in Seq(S)
  BY <1>1, <1>3
<1>5. <<r>> \in Seq(S) /\ Len(<<r>>) = 1 /\ <<r>>[1] = r
  OBVIOUS
<1> HIDE DEF S
<1>6. /\ store' \in Seq(S)
      /\ Len(store') = 1 + Len(o)
      /\ \A k \in 1 .. 1 + Len(o) : store'[k] = IF k <= 1 THEN <<r>>[k] ELSE o[k - 1]
  BY <1>2, <1>4, <1>5, ConcatProperties
<1>7. DOMAIN store' = 1 .. 1 + Len(o)
  BY <1>6, LenProperties
<1>8. store'[1] = r /\ \A k \in 2 .. 1 + Len(o) : store'[k] = o[k - 1] /\ k - 1 \in DOMAIN o
  BY <1>3, <1>5, <1>6
<1>9. \A k \in DOMAIN o : k + 1 \in 2 .. 1 + Len(o) /\ store'[k + 1] = o[k]
  BY <1>3, <1>6
<1>10. Range(store') = {r} \cup Range(o)
  <2>1. ASSUME NEW k \in DOMAIN store' PROVE store'[k] \in {r} \cup Range(o)
    BY <1>3, <1>7, <1>8
  <2>2. ASSUME NEW x \in {r} \cup Range(o) PROVE \E k \in DOMAIN store' : store'[k] = x
    <3>1. CASE x = r
      BY <1>3, <1>7, <1>8, <3>1
    <3>2. CASE x \in Range(o)
      <4>1. PICK k \in DOMAIN o : o[k] = x
        BY <3>2 DEF Range
      <4>2. k + 1 \in DOMAIN store' /\ store'[k + 1] = x
        BY <1>3, <1>7, <1>9, <4>1
      <4> QED BY <4>2
    <3> QED BY <3>1, <3>2
  <2> QED BY <2>1, <2>2 DEF Range
<1>11. store' \in Seq(Range(store'))
  BY <1>1, <1>6, <1>10 DEF S
<1>12. OneEach(store')
  <2> SUFFICES ASSUME NEW j \in DOMAIN store', NEW k \in DOMAIN store', store'[j].id = store'[k].id
               PROVE  j = k
    BY DEF OneEach
  <2>1. \A l \in 2 .. 1 + Len(o) : store'[l].id # r.id
    BY <1>1, <1>3, <1>8
  <2>2. \A l \in DOMAIN store' : l = 1 \/ l \in 2 .. 1 + Len(o)
    BY <1>3, <1>7
  <2>3. CASE j \in 2 .. 1 + Len(o) /\ k \in 2 .. 1 + Len(o)
    <3>1. j - 1 = k - 1
      BY <1>1, <1>8, <2>3 DEF OneEach
    <3> QED BY <2>3, <3>1
  <2> QED BY <1>8, <2>1, <2>2, <2>3
<1> QED BY <1>1, <1>10, <1>11, <1>12 DEF StoreShape

-----------------------------------------------------------------------------
(* Types, stronger than TypeOK: a record is a record of its fields, and what *)
(* a pristine one says of a slice that is done is what its worker got.       *)

Running == {"refresh", "run", "launch", "wait"}

IsRecord(r) ==
    /\ r \in [id : {r.id}, version : 1..2, status : Statuses \cup {"completed"},
              folder : BOOLEAN, repo : BOOLEAN, pristine : BOOLEAN, items : [Slices -> Item]]
    /\ r.version = 2 => \A i \in Slices : r.items[i].hash # <<>> /\ r.items[i].graph # <<>>

StoreInv == StoreShape /\ \A r \in Range(store) : IsRecord(r)

WorkspaceInv ==
    /\ files \in [Slices -> Versions]
    /\ policy \in Policies \cup {"unusable"} /\ role \in Policies \cup {"unusable"}
    /\ config \in Configs /\ environment \in BOOLEAN
    /\ models \in ModelPolicies /\ catalog \in Catalogs

\* What is not checked before a launch is done, and stays done until then.
RunInv ==
    /\ pc \in Running \cup {"off", "load"}
    /\ IF pc = "wait" THEN \E id : model = {id} ELSE model = {}
    /\ target = {} \/ \E id \in Ids : target = {id}
    /\ checked \subseteq Slices /\ retained \subseteq Slices /\ slice \in Slices
    /\ pc = "load" => checked = {i \in Slices : \A id \in target : i > Cardinality(Done(Stored(id)))}
    /\ pc \notin Running => cur = NoRecord
    /\ pc \in Running => IsRecord(cur) /\ Slices \ Done(cur) \subseteq checked
    /\ pc \in {"launch", "wait"} => slice \notin Done(cur)

TypeInv == StoreInv /\ WorkspaceInv /\ RunInv

LEMMA RecordsOK ==
    ASSUME NEW r, IsRecord(r)
    PROVE  RecordOK(r)
BY DEF IsRecord, RecordOK

LEMMA TypesFollow == TypeInv => TypeOK
<1> SUFFICES ASSUME TypeInv PROVE TypeOK
  OBVIOUS
<1>1. Cardinality(model) = IF pc = "wait" THEN 1 ELSE 0
  BY FS_EmptySet, FS_Singleton DEF TypeInv, RunInv
<1>2. target \subseteq Ids /\ Cardinality(target) <= 1
  BY FS_EmptySet, FS_Singleton DEF TypeInv, RunInv
<1>3. \A k \in DOMAIN store : RecordOK(store[k])
  BY RecordsOK DEF TypeInv, StoreInv, Range
<1>4. IF pc \in {"refresh", "run", "launch", "wait"} THEN RecordOK(cur) ELSE cur = NoRecord
  BY RecordsOK DEF TypeInv, RunInv, Running
<1>5. /\ pc \in {"off", "load", "refresh", "run", "launch", "wait"}
      /\ checked \subseteq Slices /\ retained \subseteq Slices /\ slice \in Slices
  BY DEF TypeInv, RunInv, Running
<1> QED BY <1>1, <1>2, <1>3, <1>4, <1>5
        DEF TypeInv, WorkspaceInv, StoreInv, StoreShape, OneEach, TypeOK

LEMMA StoredIs ==
    ASSUME StoreShape
    PROVE  /\ \A id \in Ids : Stored(id) \in Range(store) /\ Stored(id).id = id
           /\ \A x, y \in Range(store) : x.id = y.id => x = y
           /\ \A r \in Range(store) : r.id \in Ids /\ Stored(r.id) = r
<1>1. \A x, y \in Range(store) : x.id = y.id => x = y
  BY DEF StoreShape, OneEach, Range
<1>2. \A id \in Ids : Stored(id) \in Range(store) /\ Stored(id).id = id
  BY DEF Ids, Stored
<1> QED BY <1>1, <1>2 DEF Ids

\* Saving a record keeps the others.
LEMMA TouchTyped ==
    ASSUME StoreInv, NEW r, IsRecord(r), Touch(r)
    PROVE  /\ StoreInv'
           /\ Ids' = Ids \cup {r.id}
           /\ Stored(r.id)' = r
           /\ \A id \in Ids \ {r.id} : Stored(id)' = Stored(id)
           /\ \A x \in Range(store') : x = r \/ x \in Range(store)
<1>1. /\ StoreShape'
      /\ Range(store') = {r} \cup {x \in Range(store) : x.id # r.id}
  BY Touched DEF StoreInv
<1>2. StoreInv'
  BY <1>1 DEF StoreInv, IsRecord
<1>3. Ids' = Ids \cup {r.id}
  BY <1>1 DEF Ids
<1>4. \A x, y \in Range(store') : x.id = y.id => x = y
  BY <1>1 DEF StoreShape, OneEach, Range
<1>5. \A x \in Range(store') : Stored(x.id)' = x
  BY <1>4 DEF Stored
<1>6. \A id \in Ids : Stored(id) \in Range(store) /\ Stored(id).id = id
  BY StoredIs DEF StoreInv
<1>7. ASSUME NEW id \in Ids \ {r.id} PROVE Stored(id)' = Stored(id)
  <2>1. Stored(id) \in Range(store')
    BY <1>1, <1>6
  <2> QED BY <1>5, <1>6, <2>1
<1> QED BY <1>1, <1>2, <1>3, <1>5, <1>7

LEMMA MarkTyped ==
    ASSUME NEW r, IsRecord(r), NEW i \in Slices, NEW status \in Statuses
    PROVE  /\ IsRecord(Mark(r, i, status))
           /\ Mark(r, i, status).id = r.id
           /\ Mark(r, i, status).version = r.version
           /\ Mark(r, i, status).pristine = r.pristine
           /\ Mark(r, i, status).items = [r.items EXCEPT ![i].status = status]
<1> DEFINE items == [r.items EXCEPT ![i].status = status]
<1>1. items \in [Slices -> Item]
  BY DEF IsRecord, Item
<1>2. \A j \in Slices : items[j].hash = r.items[j].hash /\ items[j].graph = r.items[j].graph
  BY DEF IsRecord, Item
<1>3. Mark(r, i, status) = [r EXCEPT !.items = items, !.status = SequenceStatus(items)]
  BY DEF Mark
<1> HIDE DEF items
<1>4. SequenceStatus(items) \in Statuses \cup {"completed"}
  BY DEF SequenceStatus, Statuses
<1> DEFINE s == SequenceStatus(items)
<1> HIDE DEF s
<1>5. Mark(r, i, status) = [r EXCEPT !.items = items, !.status = s] /\ s \in Statuses \cup {"completed"}
  BY <1>3, <1>4 DEF s
<1> DEFINE m == Mark(r, i, status)
<1>6. /\ m.id = r.id /\ m.version = r.version /\ m.pristine = r.pristine /\ m.items = items
      /\ m \in [id : {r.id}, version : 1..2, status : Statuses \cup {"completed"},
                folder : BOOLEAN, repo : BOOLEAN, pristine : BOOLEAN, items : [Slices -> Item]]
  BY <1>1, <1>5 DEF IsRecord
<1> HIDE DEF m
<1>7. IsRecord(m)
  BY <1>2, <1>6 DEF IsRecord
<1> QED BY <1>6, <1>7 DEF items, m

\* What is done after a slice is marked.
LEMMA MarkDone ==
    ASSUME NEW r, IsRecord(r), NEW i \in Slices, NEW status \in Statuses
    PROVE  /\ status = "succeeded" => Done(Mark(r, i, status)) = Done(r) \cup {i}
           /\ status # "succeeded" => Done(Mark(r, i, status)) = Done(r) \ {i}
<1> DEFINE m == Mark(r, i, status)
<1>1. m.items = [r.items EXCEPT ![i].status = status] /\ r.items \in [Slices -> Item]
  BY MarkTyped DEF IsRecord
<1> HIDE DEF m
<1>2. /\ m.items[i].status = status
      /\ \A j \in Slices \ {i} : m.items[j].status = r.items[j].status
  BY <1>1 DEF Item
<1>3. /\ status = "succeeded" => Done(m) = Done(r) \cup {i}
      /\ status # "succeeded" => Done(m) = Done(r) \ {i}
  BY <1>2 DEF Done
<1> QED BY <1>3 DEF m

-----------------------------------------------------------------------------
(* The steps.                                                                *)

LEMMA StoreStays ==
    ASSUME StoreInv, UNCHANGED store
    PROVE  StoreInv' /\ Ids' = Ids /\ \A id : Stored(id)' = Stored(id)
BY DEF StoreInv, StoreShape, OneEach, Ids, Stored

LEMMA OneIsSlice == 1 \in Slices
BY SizeAssumption DEF Slices

\* A run that ends forgets everything.
LEMMA StopTyped ==
    ASSUME TypeInv, StoreInv', UNCHANGED workspace, Stop
    PROVE  TypeInv'
BY OneIsSlice DEF TypeInv, WorkspaceInv, RunInv, Stop, Running, workspace, repaired

\* A step of another command that saves a record.
LEMMA OtherTyped ==
    ASSUME TypeInv, NEW r, IsRecord(r), Touch(r), r.id \in Ids, Done(r) = Done(Stored(r.id)),
           UNCHANGED <<workspace, runVars>>
    PROVE  TypeInv'
<1>1. /\ StoreInv' /\ Ids' = Ids \cup {r.id}
      /\ Stored(r.id)' = r /\ \A id \in Ids \ {r.id} : Stored(id)' = Stored(id)
  BY TouchTyped DEF TypeInv
<1>2. \A id \in Ids : Done(Stored(id)') = Done(Stored(id))
  BY <1>1
<1>3. target = {} \/ \E id \in Ids : target = {id}
  BY DEF TypeInv, RunInv
<1>4. {i \in Slices : \A id \in target : i > Cardinality(Done(Stored(id)'))}
        = {i \in Slices : \A id \in target : i > Cardinality(Done(Stored(id)))}
  BY <1>2, <1>3
<1>5. RunInv'
  BY <1>1, <1>3, <1>4 DEF TypeInv, RunInv, runVars
<1>6. WorkspaceInv'
  BY DEF TypeInv, WorkspaceInv, workspace, repaired, runVars
<1> QED BY <1>1, <1>5, <1>6 DEF TypeInv

LEMMA InitTyped == Init => TypeInv
<1> SUFFICES ASSUME Init PROVE TypeInv
  OBVIOUS
<1>1. WorkspaceInv
  BY FirstAssumption DEF Init, WorkspaceInv
<1>2. RunInv
  BY OneIsSlice DEF Init, RunInv, Running
<1>3. CASE store = <<>>
  <2>1. Range(store) = {} /\ DOMAIN store = {}
    BY <1>3 DEF Range
  <2>2. store \in Seq(Range(store))
    BY <1>3
  <2> QED BY <1>1, <1>2, <2>1, <2>2 DEF TypeInv, StoreInv, StoreShape, OneEach
<1>4. ASSUME NEW r \in LegacyRecords, store = <<r>>
      PROVE  TypeInv
  <2>1. DOMAIN store = {1} /\ store[1] = r
    BY <1>4
  <2>2. Range(store) = {r}
    BY <2>1 DEF Range
  <2>3. store \in Seq(Range(store))
    BY <1>4, <2>2
  <2>4. r \in [id : {<<>>}, version : {1}, status : Statuses \cup {"completed"},
               folder : BOOLEAN, repo : BOOLEAN, pristine : {TRUE}, items : [Slices -> Item]]
    BY LegacyAssumption
  <2>5. IsRecord(r)
    <3>1. r.id = <<>> /\ r.version = 1
      BY <2>4
    <3>2. {<<>>} = {r.id} /\ {1} \subseteq 1..2 /\ {TRUE} \subseteq BOOLEAN
      BY <3>1
    <3>3. r.version \in 1..2
      BY <3>1
    <3>4. r \in [id : {r.id}, version : 1..2, status : Statuses \cup {"completed"},
                 folder : BOOLEAN, repo : BOOLEAN, pristine : BOOLEAN, items : [Slices -> Item]]
      BY <2>4, <3>2, <3>3
    <3> QED BY <3>1, <3>4 DEF IsRecord
  <2>6. OneEach(store)
    BY <2>1 DEF OneEach
  <2> QED BY <1>1, <1>2, <2>2, <2>3, <2>5, <2>6 DEF TypeInv, StoreInv, StoreShape
<1> QED BY <1>3, <1>4 DEF Init

LEMMA PreflightTyped ==
    ASSUME TypeInv, Preflight
    PROVE  TypeInv'
<1>1. StoreInv' /\ Ids' = Ids /\ \A id : Stored(id)' = Stored(id)
  BY StoreStays DEF TypeInv, Preflight
<1>2. target' = {} \/ \E id \in Ids : target' = {id}
  BY DEF Preflight
<1>3. /\ checked' = {i \in Slices : \A id \in target' : i > Cardinality(Done(Stored(id)))}
      /\ pc = "off" /\ pc' = "load" /\ role' = policy
      /\ UNCHANGED <<workspace, cur, retained, slice, model>>
  BY DEF Preflight, Remaining
<1>4. RunInv'
  BY <1>1, <1>2, <1>3 DEF TypeInv, RunInv, Running
<1>5. WorkspaceInv'
  BY <1>3 DEF TypeInv, WorkspaceInv, workspace, repaired
<1> QED BY <1>1, <1>4, <1>5 DEF TypeInv

LEMMA BuildTyped ==
    ASSUME WorkspaceInv
    PROVE  IsRecord(BuildSequence) /\ Done(BuildSequence) = {}
<1> DEFINE it(i) == [status |-> "pending", hash |-> Raw(i), content |-> Effective(i, role),
                     graph |-> <<files[i].graph>>, snapshot |-> <<>>, ran |-> <<>>]
           items == [i \in Slices |-> it(i)]
<1>1. ASSUME NEW i \in Slices
      PROVE  it(i) \in Item /\ it(i).hash # <<>> /\ it(i).graph # <<>>
  <2>1. files[i] \in Versions /\ role \in Policies \cup {"unusable"}
    BY DEF WorkspaceInv
  <2>2. Raw(i) \in Texts /\ Raw(i) # <<>> /\ <<>> \in Texts
    BY <2>1 DEF Raw, Texts
  <2>3. Effective(i, role) \in Contents
    BY <2>1 DEF Effective, Contents
  <2>4. <<files[i].graph>> \in Graph /\ <<files[i].graph>> # <<>>
    BY <2>1 DEF Graph
  <2> QED BY <2>2, <2>3, <2>4 DEF Item, Statuses
<1>2. items \in [Slices -> Item]
  BY <1>1
<1>3. \A i \in Slices : items[i] = it(i)
  OBVIOUS
<1>4. \A i \in Slices : it(i).status = "pending"
  OBVIOUS
<1>5. BuildSequence = [id |-> Identity, version |-> 2, status |-> "running", folder |-> TRUE,
                       repo |-> TRUE, pristine |-> TRUE, items |-> items]
  BY DEF BuildSequence
<1> HIDE DEF it
<1> HIDE DEF items
<1> QED BY <1>1, <1>2, <1>3, <1>4, <1>5 DEF IsRecord, Done, Statuses

\* The resumed record loses its pristineness unless the identity is its own.
LEMMA ResumedTyped ==
    ASSUME NEW r, IsRecord(r), NEW p \in BOOLEAN
    PROVE  LET c == [r EXCEPT !.pristine = @ /\ p]
           IN  /\ IsRecord(c) /\ Done(c) = Done(r) /\ c.id = r.id /\ c.version = r.version
               /\ c.items = r.items /\ c.pristine = (r.pristine /\ p)
<1> DEFINE c == [r EXCEPT !.pristine = @ /\ p]
<1>1. /\ c.id = r.id /\ c.version = r.version /\ c.items = r.items /\ c.pristine = (r.pristine /\ p)
      /\ c \in [id : {r.id}, version : 1..2, status : Statuses \cup {"completed"},
                folder : BOOLEAN, repo : BOOLEAN, pristine : BOOLEAN, items : [Slices -> Item]]
  BY DEF IsRecord
<1> HIDE DEF c
<1>2. IsRecord(c) /\ Done(c) = Done(r)
  BY <1>1 DEF IsRecord, Done
<1> QED BY <1>1, <1>2 DEF c

LEMMA ResumedStored ==
    ASSUME StoreInv, NEW r \in Resumed
    PROVE  r \in Range(store) /\ IsRecord(r) /\ (Exact # {} => r.id = Identity)
           /\ (Exact = {} => Compatible(r))
<1>1. DOMAIN store = 1 .. Len(store) /\ Len(store) \in Nat
  BY LenProperties DEF StoreInv, StoreShape
<1>2. CASE Exact # {}
  BY <1>2 DEF Resumed, Exact, StoreInv
<1>3. CASE Exact = {}
  <2> DEFINE found == {k \in DOMAIN store : Compatible(store[k])}
  <2>1. found # {} /\ r = store[Min(found)]
    BY <1>3 DEF Resumed, Latest
  <2>2. Min(found) \in found
    BY <1>1, <2>1, LeastIn
  <2>3. r \in Range(store) /\ Compatible(r)
    BY <2>1, <2>2 DEF Range
  <2> QED BY <1>3, <2>3 DEF StoreInv
<1> QED BY <1>2, <1>3

\* Saving a record where it is.
LEMMA ReplacedTyped ==
    ASSUME StoreInv, NEW r, IsRecord(r), r.id \in Ids,
           store' = [k \in DOMAIN store |-> IF store[k].id = r.id THEN r ELSE store[k]]
    PROVE  StoreInv' /\ Ids' = Ids /\ \A x \in Range(store') : x = r \/ x \in Range(store)
<1>1. store \in Seq(Range(store)) /\ DOMAIN store = 1 .. Len(store) /\ Len(store) \in Nat
  BY LenProperties DEF StoreInv, StoreShape
<1>2. DOMAIN store' = DOMAIN store
  OBVIOUS
<1>3. \A k \in DOMAIN store : store'[k] = IF store[k].id = r.id THEN r ELSE store[k]
  OBVIOUS
<1>4. \A k \in DOMAIN store : store'[k].id = store[k].id
  BY <1>3
<1>5. store' \in Seq(Range(store'))
  <2>1. store' \in [1 .. Len(store) -> Range(store')]
    BY <1>1 DEF Range
  <2> QED BY <1>1, <2>1
<1>6. OneEach(store')
  BY <1>2, <1>4 DEF StoreInv, StoreShape, OneEach
<1>7. \A x \in Range(store') : x = r \/ x \in Range(store)
  BY <1>2, <1>3 DEF Range
<1>8. Ids' = Ids
  BY <1>2, <1>4 DEF Ids, Range
<1>9. \A x \in Range(store) : IsRecord(x)
  BY DEF StoreInv
<1> QED BY <1>5, <1>6, <1>7, <1>8, <1>9 DEF StoreInv, StoreShape

\* What LoadOrCreate goes on with, and what it may save.
LEMMA LoadIs ==
    ASSUME TypeInv, LoadOrCreate
    PROVE  /\ IsRecord(cur') /\ retained' = Done(cur')
           /\ StoreInv' /\ Ids \subseteq Ids'
           /\ \A x \in Range(store') : x = cur' \/ x \in Range(store)
           /\ \/ Resumed = {} /\ cur' = BuildSequence
              \/ \E r \in Resumed : cur' = [r EXCEPT !.pristine = @ /\ Exact # {}]
<1>1. /\ \/ Resumed = {} /\ cur' = BuildSequence
         \/ \E r \in Resumed : cur' = [r EXCEPT !.pristine = @ /\ Exact # {}]
      /\ retained' = Done(cur')
      /\ \/ store' = IF cur'.id \in Ids
                     THEN [k \in DOMAIN store |-> IF store[k].id = cur'.id THEN cur' ELSE store[k]]
                     ELSE <<cur'>> \o store
         \/ UNCHANGED store
  BY DEF LoadOrCreate
<1>2. IsRecord(cur')
  BY <1>1, BuildTyped, ResumedTyped, ResumedStored DEF TypeInv
<1>3. CASE UNCHANGED store
  BY <1>1, <1>2, <1>3, StoreStays DEF TypeInv
<1>4. CASE cur'.id \in Ids /\ store' = [k \in DOMAIN store |-> IF store[k].id = cur'.id THEN cur' ELSE store[k]]
  BY <1>1, <1>2, <1>4, ReplacedTyped DEF TypeInv
<1>5. CASE cur'.id \notin Ids /\ store' = <<cur'>> \o store
  <2>1. Touch(cur')
    BY <1>5 DEF Touch, Others
  <2> QED BY <1>1, <1>2, <2>1, TouchTyped DEF TypeInv
<1> QED BY <1>1, <1>3, <1>4, <1>5

LEMMA LoadTyped ==
    ASSUME TypeInv, LoadOrCreate
    PROVE  TypeInv'
<1>1. /\ pc = "load" /\ pc' = "run" /\ target = {}
      /\ UNCHANGED <<workspace, target, checked, role, slice, model>>
  BY DEF LoadOrCreate
<1>2. checked = Slices
  BY <1>1 DEF TypeInv, RunInv
<1>3. retained' \subseteq Slices
  BY LoadIs, DoneCounted
<1>4. RunInv'
  BY <1>1, <1>2, <1>3, LoadIs DEF TypeInv, RunInv, Running
<1>5. WorkspaceInv'
  BY <1>1 DEF TypeInv, WorkspaceInv, workspace, repaired
<1> QED BY <1>4, <1>5, LoadIs DEF TypeInv

LEMMA AdoptTyped ==
    ASSUME TypeInv, Adopt
    PROVE  TypeInv'
<1>1. StoreInv' /\ Ids' = Ids /\ UNCHANGED <<workspace, store>> /\ pc = "load"
  BY StoreStays DEF TypeInv, Adopt
<1>2. PICK r \in Range(store) :
          /\ r.id \in target
          /\ \/ /\ Adoptable(r) /\ cur' = r /\ retained' = Done(r) /\ pc' = "refresh"
                /\ UNCHANGED <<target, checked, role, slice, model>>
             \/ ~Adoptable(r) /\ Stop
  BY DEF Adopt
<1>3. CASE Stop
  BY <1>1, <1>3, StopTyped
<1>4. CASE /\ Adoptable(r) /\ cur' = r /\ retained' = Done(r) /\ pc' = "refresh"
           /\ UNCHANGED <<target, checked, role, slice, model>>
  <2>1. target = {r.id} /\ Stored(r.id) = r
    BY <1>2, StoredIs DEF TypeInv, StoreInv, RunInv
  <2>2. checked = {i \in Slices : i > Cardinality(Done(r))}
    BY <1>1, <2>1 DEF TypeInv, RunInv
  <2>3. Slices \ Done(r) \subseteq checked /\ Done(r) \subseteq Slices
    BY <1>4, <2>2, DoneCounted DEF Adoptable
  <2>4. IsRecord(r)
    BY DEF TypeInv, StoreInv
  <2>5. RunInv'
    BY <1>1, <1>4, <2>3, <2>4 DEF TypeInv, RunInv, Running
  <2>6. WorkspaceInv'
    BY <1>1, <1>4 DEF TypeInv, WorkspaceInv, workspace, repaired
  <2> QED BY <1>1, <2>5, <2>6 DEF TypeInv
<1> QED BY <1>2, <1>3, <1>4

\* The record of the run after its fingerprints are refreshed.
LEMMA RefreshIs ==
    ASSUME TypeInv, Refresh
    PROVE  /\ IsRecord(cur') /\ cur'.id = cur.id /\ cur'.pristine = FALSE /\ Done(cur') = Done(cur)
           /\ cur'.version = 2
<1> DEFINE items == [i \in Slices |-> Refreshed(i)]
<1>1. pc = "refresh" /\ IsRecord(cur)
  BY DEF Refresh, TypeInv, RunInv, Running
<1>2. ASSUME NEW i \in Slices
      PROVE  /\ Refreshed(i) \in Item /\ Refreshed(i).status = cur.items[i].status
             /\ Refreshed(i).hash # <<>> /\ Refreshed(i).graph # <<>>
  <2>1. files[i] \in Versions /\ role \in Policies \cup {"unusable"} /\ cur.items[i] \in Item
    BY <1>1 DEF TypeInv, WorkspaceInv, IsRecord
  <2>2. Raw(i) \in Texts /\ Raw(i) # <<>>
    BY <2>1 DEF Raw, Texts
  <2>3. Effective(i, role) \in Contents
    BY <2>1 DEF Effective, Contents
  <2>4. <<files[i].graph>> \in Graph /\ <<files[i].graph>> # <<>>
    BY <2>1 DEF Graph
  <2> DEFINE g == <<files[i].graph>>
             c == IF i \in checked \/ ~files[i].role THEN Effective(i, role)
                                                     ELSE cur.items[i].content
  <2>5. c \in Contents
    BY <2>1, <2>3 DEF Item
  <2>6. Refreshed(i) = [cur.items[i] EXCEPT !.hash = Raw(i), !.graph = g, !.content = c]
    BY <2>1 DEF Refreshed, Item
  <2> HIDE DEF c, g
  <2> QED BY <2>1, <2>2, <2>4, <2>5, <2>6 DEF Item, g
<1>3. items \in [Slices -> Item] /\ \A i \in Slices : items[i] = Refreshed(i)
  BY <1>2
<1>4. cur' = [cur EXCEPT !.items = items, !.version = 2, !.pristine = FALSE]
  BY DEF Refresh
<1> HIDE DEF items
<1>5. /\ cur'.id = cur.id /\ cur'.version = 2 /\ cur'.pristine = FALSE /\ cur'.items = items
      /\ cur' \in [id : {cur.id}, version : 1..2, status : Statuses \cup {"completed"},
                   folder : BOOLEAN, repo : BOOLEAN, pristine : BOOLEAN, items : [Slices -> Item]]
  <2>1. cur \in [id : {cur.id}, version : 1..2, status : Statuses \cup {"completed"},
                 folder : BOOLEAN, repo : BOOLEAN, pristine : BOOLEAN, items : [Slices -> Item]]
    BY <1>1 DEF IsRecord
  <2>2. 2 \in 1..2 /\ items \in [Slices -> Item]
    BY <1>3
  <2> QED BY <1>4, <2>1, <2>2
<1>6. Done(cur') = Done(cur)
  BY <1>2, <1>3, <1>5 DEF Done
<1> QED BY <1>2, <1>3, <1>5, <1>6 DEF IsRecord

\* A step of the run that saves its record and keeps what it has checked.
LEMMA RunTyped ==
    ASSUME TypeInv, pc \in Running, IsRecord(cur'), Touch(cur'), pc' \in {"run", "launch"},
           Done(cur) \subseteq Done(cur'), slice' \in Slices, model' = {},
           pc' = "launch" => slice' \notin Done(cur'),
           UNCHANGED <<workspace, target, checked, role, retained>>
    PROVE  TypeInv'
<1>1. StoreInv' /\ Ids' = Ids \cup {cur'.id}
  BY TouchTyped DEF TypeInv
<1>2. RunInv'
  BY <1>1 DEF TypeInv, RunInv, Running
<1>3. WorkspaceInv'
  BY DEF TypeInv, WorkspaceInv, workspace, repaired
<1> QED BY <1>1, <1>2, <1>3 DEF TypeInv

LEMMA RefreshTyped ==
    ASSUME TypeInv, Refresh
    PROVE  TypeInv'
<1>1. /\ pc = "refresh" /\ pc' = "run" /\ Touch(cur')
      /\ UNCHANGED <<workspace, target, checked, role, retained, slice, model>>
  BY DEF Refresh
<1>2. model = {} /\ slice \in Slices
  BY <1>1 DEF TypeInv, RunInv
<1> QED BY <1>1, <1>2, RefreshIs, RunTyped DEF Running

LEMMA MarkRunningIs ==
    ASSUME TypeInv, MarkRunning
    PROVE  /\ IsRecord(cur) /\ slice' \in Slices \ Done(cur)
           /\ IsRecord(cur') /\ Done(cur') = Done(cur)
           /\ cur'.id = cur.id /\ cur'.version = cur.version /\ cur'.pristine = cur.pristine
           /\ cur'.items = [cur.items EXCEPT ![slice'].status = "running"]
<1>1. /\ pc = "run" /\ slice' = Min(Slices \ Done(cur)) /\ Done(cur) # Slices
      /\ cur' = Mark(cur, slice', "running")
  BY DEF MarkRunning
<1>2. IsRecord(cur)
  BY <1>1 DEF TypeInv, RunInv, Running
<1>3. Slices \ Done(cur) # {} /\ Slices \ Done(cur) \in SUBSET Nat
  <2>1. Done(cur) \subseteq Slices /\ Slices \subseteq Nat
    BY DoneCounted DEF Slices
  <2> QED BY <1>1, <2>1
<1>4. slice' \in Slices \ Done(cur)
  BY <1>1, <1>3, LeastIn
<1>5. "running" \in Statuses /\ slice' \in Slices
  BY <1>4 DEF Statuses
<1> DEFINE m == Mark(cur, slice', "running")
<1>6. /\ IsRecord(m) /\ m.id = cur.id /\ m.version = cur.version /\ m.pristine = cur.pristine
      /\ m.items = [cur.items EXCEPT ![slice'].status = "running"]
  BY <1>2, <1>5, MarkTyped
<1>7. Done(m) = Done(cur) \ {slice'}
  BY <1>2, <1>5, MarkDone
<1> HIDE DEF m
<1> QED BY <1>1, <1>2, <1>4, <1>6, <1>7 DEF m

LEMMA MarkRunningTyped ==
    ASSUME TypeInv, MarkRunning
    PROVE  TypeInv'
<1>1. /\ pc = "run" /\ pc' = "launch" /\ Touch(cur')
      /\ UNCHANGED <<workspace, target, checked, role, retained, model>>
  BY DEF MarkRunning
<1>2. model = {}
  BY <1>1 DEF TypeInv, RunInv
<1> QED BY <1>1, <1>2, MarkRunningIs, RunTyped DEF Running

LEMMA LaunchIs ==
    ASSUME TypeInv, Launch
    PROVE  /\ IsRecord(cur) /\ slice \in Slices \ Done(cur) /\ Raw(slice) \in Texts
           /\ IsRecord(cur') /\ Done(cur') = Done(cur)
           /\ cur'.id = cur.id /\ cur'.version = cur.version /\ cur'.pristine = cur.pristine
           /\ cur'.items = [cur.items EXCEPT ![slice].ran = Raw(slice)]
<1>1. pc = "launch" /\ cur' = [cur EXCEPT !.items[slice].ran = Raw(slice)]
  BY DEF Launch
<1>2. IsRecord(cur) /\ slice \in Slices \ Done(cur)
  BY <1>1 DEF TypeInv, RunInv, Running
<1>3. Raw(slice) \in Texts
  BY <1>2 DEF TypeInv, WorkspaceInv, Raw, Texts
<1> DEFINE items == [cur.items EXCEPT ![slice].ran = Raw(slice)]
<1>4. /\ items \in [Slices -> Item]
      /\ \A i \in Slices : /\ items[i].status = cur.items[i].status
                           /\ items[i].hash = cur.items[i].hash
                           /\ items[i].graph = cur.items[i].graph
  BY <1>2, <1>3 DEF IsRecord, Item
<1>5. cur' = [cur EXCEPT !.items = items]
  BY <1>1, <1>2 DEF IsRecord
<1> HIDE DEF items
<1>6. /\ cur'.id = cur.id /\ cur'.version = cur.version /\ cur'.pristine = cur.pristine
      /\ cur'.items = items
      /\ cur' \in [id : {cur.id}, version : 1..2, status : Statuses \cup {"completed"},
                   folder : BOOLEAN, repo : BOOLEAN, pristine : BOOLEAN, items : [Slices -> Item]]
  BY <1>2, <1>4, <1>5 DEF IsRecord
<1>7. IsRecord(cur') /\ Done(cur') = Done(cur)
  BY <1>2, <1>4, <1>6 DEF IsRecord, Done
<1> QED BY <1>2, <1>3, <1>6, <1>7 DEF items

-----------------------------------------------------------------------------
(* The model of a worker.                                                    *)

IsPolicy(p) == p.models \in Seq(Range(p.models))

LEMMA RequiredIs ==
    ASSUME NEW asked, NEW byRole
    PROVE  /\ Required(asked, byRole).cost = IF asked.cost # "" THEN asked.cost ELSE byRole.cost
           /\ Required(asked, byRole).model = IF asked.model # "" THEN asked.model ELSE byRole.model
BY DEF Required

\* The cheapest, if there is one, satisfies the requirement and nothing cheaper does.
LEMMA CheapestIs ==
    ASSUME NEW ms, ms \in Seq(Range(ms)), NEW req, NEW id \in Cheapest(ms, req)
    PROVE  /\ Cheapest(ms, req) = {id}
           /\ \E k \in DOMAIN ms :
                 /\ ms[k].id = id /\ Satisfies(ms[k], req)
                 /\ \A l \in DOMAIN ms : Satisfies(ms[l], req) => Rank(ms[k].cost) <= Rank(ms[l].cost)
<1> DEFINE fit == {k \in DOMAIN ms : Satisfies(ms[k], req)}
           best == {k \in fit : \A l \in fit : Rank(ms[k].cost) <= Rank(ms[l].cost)}
<1>1. Cheapest(ms, req) = IF best = {} THEN {} ELSE {ms[Min(best)].id}
  BY DEF Cheapest
<1>2. best \in SUBSET Nat
  BY LenProperties
<1> HIDE DEF best
<1>3. best # {} /\ Cheapest(ms, req) = {id} /\ ms[Min(best)].id = id
  BY <1>1
<1>4. Min(best) \in best
  BY <1>2, <1>3, LeastIn
<1> DEFINE k == Min(best)
<1> HIDE DEF k
<1>5. k \in best /\ ms[k].id = id
  BY <1>3, <1>4 DEF k
<1>6. k \in DOMAIN ms /\ Satisfies(ms[k], req)
      /\ \A l \in DOMAIN ms : Satisfies(ms[l], req) => Rank(ms[k].cost) <= Rank(ms[l].cost)
  BY <1>5 DEF best
<1> QED BY <1>3, <1>5, <1>6

\* The k-th model of a policy is id; it costs what is required or less, and it is the
\* cheapest that satisfies the requirement unless a model is named.
Serves(p, req, id, k) ==
    /\ p.models[k].id = id
    /\ req.cost # "" => Rank(p.models[k].cost) <= Rank(req.cost)
    /\ req.model = "" /\ (req.cost # "" \/ p.default = "") =>
          \A l \in DOMAIN p.models : Satisfies(p.models[l], req) =>
              Rank(p.models[k].cost) <= Rank(p.models[l].cost)

LEMMA ResolvedIs ==
    ASSUME NEW p, IsPolicy(p), ModelsOK(p), NEW req, NEW id \in Resolve(p, req)
    PROVE  /\ Resolve(p, req) = {id}
           /\ p.present => \E k \in DOMAIN p.models : Serves(p, req, id, k)
<1>1. CASE ~p.present
  BY <1>1 DEF Resolve
<1>2. CASE p.present /\ req.model # ""
  <2>1. Resolve(p, req) =
          {p.models[k].id : k \in {l \in DOMAIN p.models :
              p.models[l].id = req.model /\ Satisfies(p.models[l], req)}}
    <3>1. NoRequirement.model = ""
      BY DEF NoRequirement
    <3>2. req # NoRequirement
      BY <1>2, <3>1
    <3> QED BY <1>2, <3>2 DEF Resolve
  <2>2. PICK k \in DOMAIN p.models : /\ p.models[k].id = req.model /\ Satisfies(p.models[k], req)
                                     /\ p.models[k].id = id
    BY <2>1
  <2> QED BY <1>2, <2>1, <2>2 DEF Satisfies, Serves
<1>3. CASE p.present /\ req = NoRequirement /\ p.default # ""
  <2>1. req.model = "" /\ req.cost = ""
    BY <1>3 DEF NoRequirement
  <2>2. Resolve(p, req) = {p.default}
    BY <1>3, <2>1 DEF Resolve
  <2>3. \E k \in DOMAIN p.models : p.models[k].id = p.default
    BY <1>3 DEF ModelsOK
  <2> QED BY <1>3, <2>1, <2>2, <2>3 DEF Serves
<1>4. CASE p.present /\ req.model = "" /\ ~(req = NoRequirement /\ p.default # "")
  <2>1. Resolve(p, req) = Cheapest(p.models, req)
    BY <1>4 DEF Resolve
  <2>2. p.models \in Seq(Range(p.models))
    BY DEF IsPolicy
  <2>3. /\ Cheapest(p.models, req) = {id}
        /\ \E k \in DOMAIN p.models :
              /\ p.models[k].id = id /\ Satisfies(p.models[k], req)
              /\ \A l \in DOMAIN p.models : Satisfies(p.models[l], req) =>
                    Rank(p.models[k].cost) <= Rank(p.models[l].cost)
    BY <2>1, <2>2, CheapestIs
  <2>4. \A k \in DOMAIN p.models : Satisfies(p.models[k], req) =>
            (req.cost # "" => Rank(p.models[k].cost) <= Rank(req.cost))
    BY DEF Satisfies
  <2> QED BY <2>1, <2>3, <2>4 DEF Serves
<1> QED BY <1>1, <1>2, <1>3, <1>4

LEMMA SelectedIs ==
    ASSUME NEW p, NEW asked, NEW byRole, NEW cat, NEW id \in ModelFor(asked, byRole, p, cat)
    PROVE  /\ ModelsOK(p) /\ id \in Resolve(p, Required(asked, byRole))
           /\ id # "" => id \in cat
BY DEF ModelFor, Selectable

LEMMA OneSelected ==
    ASSUME NEW p, IsPolicy(p), NEW asked, NEW byRole, NEW cat,
           NEW id \in ModelFor(asked, byRole, p, cat)
    PROVE  ModelFor(asked, byRole, p, cat) = {id}
<1>1. ModelsOK(p) /\ id \in Resolve(p, Required(asked, byRole))
  BY SelectedIs
<1>2. Resolve(p, Required(asked, byRole)) = {id}
  BY <1>1, ResolvedIs
<1> QED BY <1>1, <1>2 DEF ModelFor, Selectable

LEMMA PolicyTyped == WorkspaceInv => IsPolicy(models)
BY ModelsAssumption DEF WorkspaceInv, IsPolicy

LEMMA OneModel ==
    ASSUME WorkspaceInv, NEW i \in Slices, ModelNow(i) # {}
    PROVE  \E id : ModelNow(i) = {id}
<1>1. PICK id \in ModelNow(i) : TRUE
  OBVIOUS
<1>2. ModelNow(i) = ModelFor(files[i].requires, RoleDefaults(i), models, catalog)
  BY DEF ModelNow
<1>3. IsPolicy(models)
  BY PolicyTyped
<1> DEFINE asked == files[i].requires
           byRole == RoleDefaults(i)
<1>4. id \in ModelFor(asked, byRole, models, catalog)
  BY <1>1, <1>2
<1> HIDE DEF asked, byRole
<1>5. ModelFor(asked, byRole, models, catalog) = {id}
  BY <1>3, <1>4, OneSelected
<1> QED BY <1>2, <1>5 DEF asked, byRole

LEMMA LaunchTyped ==
    ASSUME TypeInv, Launch
    PROVE  TypeInv'
<1>1. /\ pc = "launch" /\ pc' = "wait" /\ model' = ModelNow(slice)
      /\ UNCHANGED <<workspace, store, target, checked, role, retained, slice>>
  BY DEF Launch
<1>2. \E id : model' = {id}
  BY OneModel DEF TypeInv, Launch, RunInv
<1>3. StoreInv' /\ Ids' = Ids
  BY <1>1, StoreStays DEF TypeInv
<1>4. RunInv'
  BY <1>1, <1>2, <1>3, LaunchIs DEF TypeInv, RunInv, Running
<1>5. WorkspaceInv'
  BY <1>1 DEF TypeInv, WorkspaceInv, workspace, repaired
<1> QED BY <1>3, <1>4, <1>5 DEF TypeInv

LEMMA SucceedIs ==
    ASSUME TypeInv, Succeed
    PROVE  /\ IsRecord(cur) /\ slice \in Slices \ Done(cur)
           /\ IsRecord(cur') /\ Done(cur') = Done(cur) \cup {slice}
           /\ cur'.id = cur.id /\ cur'.version = cur.version /\ cur'.pristine = cur.pristine
           /\ cur'.items = [cur.items EXCEPT ![slice].status = "succeeded"]
<1>1. pc = "wait" /\ cur' = Mark(cur, slice, "succeeded")
  BY DEF Succeed
<1>2. IsRecord(cur) /\ slice \in Slices \ Done(cur)
  BY <1>1 DEF TypeInv, RunInv, Running
<1>3. "succeeded" \in Statuses
  BY DEF Statuses
<1> QED BY <1>1, <1>2, <1>3, MarkTyped, MarkDone

LEMMA SucceedTyped ==
    ASSUME TypeInv, Succeed
    PROVE  TypeInv'
<1>1. /\ pc = "wait" /\ pc' = "run" /\ Touch(cur') /\ model' = {}
      /\ UNCHANGED <<workspace, target, checked, role, retained, slice>>
  BY DEF Succeed
<1> QED BY <1>1, SucceedIs, RunTyped DEF Running

\* What a run saves when it fails: a record of the same sequence, with less done.
LEMMA FailIs ==
    ASSUME TypeInv, Fail
    PROVE  LET r == Mark(cur, slice, "failed")
           IN  /\ IsRecord(cur) /\ slice \in Slices /\ IsRecord(r) /\ Touch(r)
               /\ r.id = cur.id /\ r.version = cur.version /\ r.pristine = cur.pristine
               /\ r.items = [cur.items EXCEPT ![slice].status = "failed"]
<1>1. pc \in {"launch", "wait"} /\ Touch(Mark(cur, slice, "failed"))
  BY DEF Fail
<1>2. IsRecord(cur) /\ slice \in Slices
  BY <1>1 DEF TypeInv, RunInv, Running
<1>3. "failed" \in Statuses
  BY DEF Statuses
<1> QED BY <1>1, <1>2, <1>3, MarkTyped

LEMMA FailTyped ==
    ASSUME TypeInv, Fail
    PROVE  TypeInv'
<1>1. StoreInv'
  BY FailIs, TouchTyped DEF TypeInv
<1>2. Stop /\ UNCHANGED workspace
  BY DEF Fail
<1> QED BY <1>1, <1>2, StopTyped

\* A record that is given another status.
LEMMA RestatusTyped ==
    ASSUME NEW r, IsRecord(r), NEW s \in Statuses \cup {"completed"}
    PROVE  LET c == [r EXCEPT !.status = s]
           IN  /\ IsRecord(c) /\ c.id = r.id /\ c.version = r.version /\ c.pristine = r.pristine
               /\ c.items = r.items /\ c.status = s
<1> DEFINE c == [r EXCEPT !.status = s]
<1>1. /\ c.id = r.id /\ c.version = r.version /\ c.items = r.items /\ c.pristine = r.pristine
      /\ c.status = s
      /\ c \in [id : {r.id}, version : 1..2, status : Statuses \cup {"completed"},
                folder : BOOLEAN, repo : BOOLEAN, pristine : BOOLEAN, items : [Slices -> Item]]
  BY DEF IsRecord
<1> HIDE DEF c
<1>2. IsRecord(c)
  BY <1>1 DEF IsRecord
<1> QED BY <1>1, <1>2 DEF c

LEMMA CompleteTyped ==
    ASSUME TypeInv, Complete
    PROVE  TypeInv'
<1>1. pc = "run" /\ Touch([cur EXCEPT !.status = "completed"]) /\ Stop /\ UNCHANGED workspace
  BY DEF Complete
<1>2. IsRecord(cur)
  BY <1>1 DEF TypeInv, RunInv, Running
<1>3. StoreInv'
  BY <1>1, <1>2, RestatusTyped, TouchTyped DEF TypeInv
<1> QED BY <1>1, <1>3, StopTyped

\* Items of which some that are not done get another status, and so does the record.
Struck(r, S, s) ==
    [r EXCEPT !.status = s,
              !.items = [i \in Slices |-> IF i \in S THEN [r.items[i] EXCEPT !.status = s]
                                                     ELSE r.items[i]]]

LEMMA StruckTyped ==
    ASSUME NEW r, IsRecord(r), NEW S \in SUBSET Slices, S \cap Done(r) = {},
           NEW s \in Statuses \ {"succeeded"}
    PROVE  LET c == Struck(r, S, s)
           IN  /\ IsRecord(c) /\ c.id = r.id /\ c.version = r.version /\ c.pristine = r.pristine
               /\ Done(c) = Done(r)
               /\ \A i \in Slices : /\ c.items[i].hash = r.items[i].hash
                                    /\ c.items[i].content = r.items[i].content
                                    /\ c.items[i].snapshot = r.items[i].snapshot
                                    /\ c.items[i].ran = r.items[i].ran
<1> DEFINE items == [i \in Slices |-> IF i \in S THEN [r.items[i] EXCEPT !.status = s]
                                                 ELSE r.items[i]]
           c == [r EXCEPT !.status = s, !.items = items]
<1>1. ASSUME NEW i \in Slices
      PROVE  /\ items[i] \in Item
             /\ items[i].hash = r.items[i].hash /\ items[i].graph = r.items[i].graph
             /\ items[i].content = r.items[i].content /\ items[i].snapshot = r.items[i].snapshot
             /\ items[i].ran = r.items[i].ran
             /\ items[i].status = "succeeded" <=> r.items[i].status = "succeeded"
  <2>1. r.items[i] \in Item /\ (i \in S => r.items[i].status # "succeeded")
    BY DEF IsRecord, Done
  <2> QED BY <2>1 DEF Item
<1>2. items \in [Slices -> Item]
  BY <1>1
<1> HIDE DEF items
<1>3. /\ c.id = r.id /\ c.version = r.version /\ c.items = items /\ c.pristine = r.pristine
      /\ c \in [id : {r.id}, version : 1..2, status : Statuses \cup {"completed"},
                folder : BOOLEAN, repo : BOOLEAN, pristine : BOOLEAN, items : [Slices -> Item]]
  BY <1>2 DEF IsRecord
<1>4. c = Struck(r, S, s)
  BY DEF Struck, items
<1> HIDE DEF c
<1>5. IsRecord(c) /\ Done(c) = Done(r)
  BY <1>1, <1>3 DEF IsRecord, Done
<1> QED BY <1>1, <1>3, <1>4, <1>5

\* What cancel saves, and what reconcile saves.
LEMMA CancelIs ==
    ASSUME TypeInv, NEW r \in Range(store), CancelSequence(r)
    PROVE  \E c : /\ Touch(c) /\ IsRecord(c) /\ Done(c) = Done(r)
                  /\ c.id = r.id /\ c.version = r.version /\ c.pristine = r.pristine
                  /\ \A i \in Slices : /\ c.items[i].hash = r.items[i].hash
                                       /\ c.items[i].content = r.items[i].content
                                       /\ c.items[i].snapshot = r.items[i].snapshot
                                       /\ c.items[i].ran = r.items[i].ran
<1> DEFINE S == {i \in Slices : r.items[i].status \notin {"succeeded", "failed"}}
           c == Struck(r, S, "cancelled")
<1>1. IsRecord(r)
  BY DEF TypeInv, StoreInv
<1>2. S \subseteq Slices /\ S \cap Done(r) = {} /\ "cancelled" \in Statuses \ {"succeeded"}
  BY DEF Done, Statuses
<1>3. c = [r EXCEPT !.status = "cancelled",
                    !.items = [i \in Slices |->
                        IF r.items[i].status \in {"succeeded", "failed"} THEN r.items[i]
                        ELSE [r.items[i] EXCEPT !.status = "cancelled"]]]
  <2>1. [i \in Slices |-> IF i \in S THEN [r.items[i] EXCEPT !.status = "cancelled"] ELSE r.items[i]]
        = [i \in Slices |-> IF r.items[i].status \in {"succeeded", "failed"} THEN r.items[i]
                            ELSE [r.items[i] EXCEPT !.status = "cancelled"]]
    OBVIOUS
  <2> QED BY <2>1 DEF Struck
<1>4. Touch(c)
  BY <1>3 DEF CancelSequence
<1> HIDE DEF S
<1>5. /\ IsRecord(c) /\ Done(c) = Done(r)
      /\ c.id = r.id /\ c.version = r.version /\ c.pristine = r.pristine
      /\ \A i \in Slices : /\ c.items[i].hash = r.items[i].hash
                           /\ c.items[i].content = r.items[i].content
                           /\ c.items[i].snapshot = r.items[i].snapshot
                           /\ c.items[i].ran = r.items[i].ran
  BY <1>1, <1>2, StruckTyped
<1> HIDE DEF c
<1> QED BY <1>4, <1>5

LEMMA ReconcileIs ==
    ASSUME TypeInv, NEW r \in Range(store), ReconcileSequence(r)
    PROVE  \E c : /\ Touch(c) /\ IsRecord(c) /\ Done(c) = Done(r)
                  /\ c.id = r.id /\ c.version = r.version /\ c.pristine = r.pristine
                  /\ \A i \in Slices : /\ c.items[i].hash = r.items[i].hash
                                       /\ c.items[i].content = r.items[i].content
                                       /\ c.items[i].snapshot = r.items[i].snapshot
                                       /\ c.items[i].ran = r.items[i].ran
<1> DEFINE With(status) == {i \in Slices : r.items[i].status = status}
           S == IF With("running") # {} THEN With("running")
                ELSE {i \in With("pending") : \A j \in With("pending") : i <= j}
           c == Struck(r, S, "interrupted")
<1>1. IsRecord(r)
  BY DEF TypeInv, StoreInv
<1>2. S \subseteq Slices /\ S \cap Done(r) = {} /\ "interrupted" \in Statuses \ {"succeeded"}
  BY DEF Done, Statuses
<1>3. Touch(c)
  BY DEF ReconcileSequence, Struck
<1> HIDE DEF S
<1>4. /\ IsRecord(c) /\ Done(c) = Done(r)
      /\ c.id = r.id /\ c.version = r.version /\ c.pristine = r.pristine
      /\ \A i \in Slices : /\ c.items[i].hash = r.items[i].hash
                           /\ c.items[i].content = r.items[i].content
                           /\ c.items[i].snapshot = r.items[i].snapshot
                           /\ c.items[i].ran = r.items[i].ran
  BY <1>1, <1>2, StruckTyped
<1> HIDE DEF c
<1> QED BY <1>3, <1>4

\* Steps that leave the records and the run alone.
LEMMA OutsideTyped ==
    ASSUME TypeInv, UNCHANGED <<store, runVars>>,
           Edit \/ Offer
    PROVE  TypeInv'
<1>1. StoreInv' /\ Ids' = Ids /\ \A id : Stored(id)' = Stored(id)
  BY StoreStays DEF TypeInv
<1>2. RunInv'
  BY <1>1 DEF TypeInv, RunInv, runVars
<1>3. WorkspaceInv'
  <2>1. CASE Edit
    <3>1. UNCHANGED <<models, catalog, role>>
      BY <2>1 DEF Edit, runVars
    <3>2. CASE \E i \in Slices : \E v \in Versions \ {files[i]} :
                   files' = [files EXCEPT ![i] = v] /\ UNCHANGED <<policy, config, environment>>
      BY <3>1, <3>2 DEF TypeInv, WorkspaceInv
    <3>3. CASE UNCHANGED files
      BY <2>1, <3>1, <3>3 DEF TypeInv, WorkspaceInv, Edit
    <3> QED BY <2>1, <3>2, <3>3 DEF Edit
  <2>2. CASE Offer
    BY <2>2 DEF TypeInv, WorkspaceInv, Offer, repaired, runVars
  <2> QED BY <2>1, <2>2
<1> QED BY <1>1, <1>2, <1>3 DEF TypeInv

LEMMA NextTyped ==
    ASSUME TypeInv, [Next]_vars
    PROVE  TypeInv'
<1>1. CASE Preflight \/ LoadOrCreate \/ Adopt \/ Refresh \/ MarkRunning
  BY <1>1, PreflightTyped, LoadTyped, AdoptTyped, RefreshTyped, MarkRunningTyped
<1>2. CASE Launch \/ Succeed \/ Fail \/ Complete
  BY <1>2, LaunchTyped, SucceedTyped, FailTyped, CompleteTyped
<1>3. ASSUME NEW r \in Range(store), CancelSequence(r) \/ ReconcileSequence(r)
      PROVE  TypeInv'
  <2>1. UNCHANGED <<workspace, runVars>>
    BY <1>3 DEF CancelSequence, ReconcileSequence
  <2>2. r.id \in Ids /\ Stored(r.id) = r
    BY StoredIs DEF TypeInv, StoreInv
  <2>3. PICK c : Touch(c) /\ IsRecord(c) /\ Done(c) = Done(r) /\ c.id = r.id
    BY <1>3, CancelIs, ReconcileIs
  <2> QED BY <2>1, <2>2, <2>3, OtherTyped
<1>4. CASE Crash
  <2>1. StoreInv'
    BY <1>4, StoreStays DEF TypeInv, Crash
  <2> QED BY <1>4, <2>1, StopTyped DEF Crash
<1>5. CASE Edit \/ Offer
  BY <1>5, OutsideTyped DEF Edit, Offer
<1>6. CASE UNCHANGED vars
  <2>1. StoreInv' /\ Ids' = Ids /\ \A id : Stored(id)' = Stored(id)
    BY <1>6, StoreStays DEF TypeInv, vars
  <2> QED BY <1>6, <2>1 DEF TypeInv, WorkspaceInv, RunInv, vars, runVars, workspace, repaired
<1> QED BY <1>1, <1>2, <1>3, <1>4, <1>5, <1>6 DEF Next

LEMMA AlwaysTyped == Spec => []TypeInv
BY InitTyped, NextTyped, PTL DEF Spec

\* Every record and every copy has the shape of its version, whatever a version 1
\* left behind (adoption.go:103-321); there is one record of each sequence, and a
\* worker that is at work has one model.
THEOREM AdoptionTypeCorrect == Spec => []TypeOK
BY AlwaysTyped, TypesFollow, PTL

\* runtime.go:814-883 and preflight.go:83: an explicit adoption checks only the
\* slices that it leaves, and loads the sequence again afterwards. What it launches
\* then it has checked, whichever cancels, reconciliations and edits come in between.
THEOREM LaunchesChecked == Spec => CheckedBeforeLaunch
<1>1. ASSUME TypeInv, [Next]_vars, pc = "launch", pc' = "wait"
      PROVE  slice \in checked
  BY <1>1 DEF TypeInv, RunInv, Running
<1>2. TypeInv /\ [Next]_vars => [pc = "launch" /\ pc' = "wait" => slice \in checked]_vars
  BY <1>1
<1> QED BY <1>2, AlwaysTyped, PTL DEF Spec, CheckedBeforeLaunch

\* What WithinLimits says of one model and one slice.
Limited(i, id) ==
    LET asked == files[i].requires
        byRole == RoleDefaults(i)
        limit == IF asked.cost # "" THEN asked.cost ELSE byRole.cost
        named == {asked.model, byRole.model} # {""}
        Cost(m) == Rank((CHOOSE x \in Range(models.models) : x.id = m).cost)
    IN  /\ id # "" => id \in catalog
        /\ models.present => id \in {m.id : m \in Range(models.models)}
        /\ models.present /\ limit # "" => Cost(id) <= Rank(limit)
        /\ models.present /\ ~named /\ (limit # "" \/ models.default = "") =>
             \A m \in Range(models.models) :
                 Satisfies(m, Required(asked, byRole)) => Cost(id) <= Rank(m.cost)

LEMMA LaunchLimited ==
    ASSUME WorkspaceInv, NEW i \in Slices, NEW id \in ModelNow(i)
    PROVE  Limited(i, id)
<1> DEFINE asked == files[i].requires
           byRole == RoleDefaults(i)
           req == Required(asked, byRole)
           limit == IF asked.cost # "" THEN asked.cost ELSE byRole.cost
           named == {asked.model, byRole.model} # {""}
           chosen == CHOOSE x \in Range(models.models) : x.id = id
<1>1. id \in ModelFor(asked, byRole, models, catalog)
  BY DEF ModelNow
<1> HIDE DEF asked, byRole
<1>2. IsPolicy(models)
  BY PolicyTyped
<1>3. /\ ModelsOK(models) /\ id \in Resolve(models, req)
      /\ id # "" => id \in catalog
  BY <1>1, SelectedIs
<1>4. req.cost = limit /\ (~named => req.model = "")
  <2>1. ~named => asked.model = "" /\ byRole.model = ""
    OBVIOUS
  <2>2. /\ req.cost = limit
        /\ req.model = IF asked.model # "" THEN asked.model ELSE byRole.model
    BY RequiredIs
  <2> QED BY <2>1, <2>2
<1> HIDE DEF req
<1>5. ASSUME models.present
      PROVE  /\ id \in {m.id : m \in Range(models.models)}
             /\ limit # "" => Rank(chosen.cost) <= Rank(limit)
             /\ ~named /\ (limit # "" \/ models.default = "") =>
                    \A m \in Range(models.models) :
                        Satisfies(m, req) => Rank(chosen.cost) <= Rank(m.cost)
  <2>1. PICK k \in DOMAIN models.models : Serves(models, req, id, k)
    BY <1>2, <1>3, <1>5, ResolvedIs
  <2>2. /\ models.models[k].id = id
        /\ req.cost # "" => Rank(models.models[k].cost) <= Rank(req.cost)
        /\ req.model = "" /\ (req.cost # "" \/ models.default = "") =>
              \A l \in DOMAIN models.models : Satisfies(models.models[l], req) =>
                  Rank(models.models[k].cost) <= Rank(models.models[l].cost)
    BY <2>1 DEF Serves
  <2>3. models.models[k] \in Range(models.models)
    BY DEF Range
  <2>4. chosen \in Range(models.models) /\ chosen.id = id
    BY <2>2, <2>3
  <2>5. PICK n \in DOMAIN models.models : chosen = models.models[n]
    BY <2>4 DEF Range
  <2>6. chosen = models.models[k]
    BY <1>3, <1>5, <2>2, <2>4, <2>5 DEF ModelsOK
  <2> HIDE DEF chosen
  <2>7. \A m \in Range(models.models) : \E l \in DOMAIN models.models : m = models.models[l]
    BY DEF Range
  <2> QED BY <1>4, <2>2, <2>3, <2>6, <2>7
<1> QED BY <1>3, <1>5 DEF asked, byRole, req, Limited

\* manager.go:304-402: every worker is launched with a model that the repository's
\* policy permits and the runtime selects as they are then, that costs what the
\* slice or else its role allows, also where the slice names it, and than which none
\* that would do is cheaper if none is named; for all policies, catalogs and roles.
THEOREM ModelsWithinLimits == Spec => WithinLimits
<1>1. ASSUME TypeInv, [Next]_vars, pc = "launch", pc' = "wait"
      PROVE  slice \in Slices /\ model' = ModelNow(slice) /\ WorkspaceInv
  BY <1>1 DEF TypeInv, RunInv, vars, Next, Preflight, LoadOrCreate, Adopt, Refresh, MarkRunning,
              Launch, Succeed, Fail, Complete, Stop, CancelSequence, ReconcileSequence, Crash, Edit,
              Offer, runVars
<1>2. TypeInv /\ [Next]_vars =>
        [pc = "launch" /\ pc' = "wait" => \A id \in model' : Limited(slice, id)]_vars
  BY <1>1, LaunchLimited
<1>3. (\A id \in model' : Limited(slice, id)) =>
        LET asked == files[slice].requires
            byRole == RoleDefaults(slice)
            limit == IF asked.cost # "" THEN asked.cost ELSE byRole.cost
            named == {asked.model, byRole.model} # {""}
            Cost(id) == Rank((CHOOSE m \in Range(models.models) : m.id = id).cost)
        IN  \A id \in model' :
                /\ id # "" => id \in catalog
                /\ models.present => id \in {m.id : m \in Range(models.models)}
                /\ models.present /\ limit # "" => Cost(id) <= Rank(limit)
                /\ models.present /\ ~named /\ (limit # "" \/ models.default = "") =>
                     \A m \in Range(models.models) :
                         Satisfies(m, Required(asked, byRole)) => Cost(id) <= Rank(m.cost)
  BY DEF Limited
<1> QED BY <1>2, <1>3, AlwaysTyped, PTL DEF Spec, WithinLimits

-----------------------------------------------------------------------------
(* What is retained.                                                         *)

\* A record that was resumed under its own identity only says of what is done that its
\* worker got the file of that identity; of a version 1, that it got what is noted.
Original(r) ==
    r.pristine =>
      /\ r.version = 2 => \A i \in Slices :
            /\ r.items[i].hash = <<r.id[i][1][1]>>
            /\ i \in Done(r) => r.items[i].ran = r.items[i].hash
      /\ r.version = 1 => /\ r.id = <<>>
                          /\ \A i \in Slices : r.items[i].hash = <<>>
                          /\ \A i \in Done(r) : /\ r.items[i].ran = <<r.items[i].content[1]>>
                                                /\ r.items[i].snapshot \in {<<>>, r.items[i].ran}

\* While it runs it says so of the files as they are.
OriginInv ==
    /\ \A r \in Range(store) : Original(r)
    /\ pc \in Running => Original(cur)
    /\ pc \in {"run", "launch", "wait"} /\ cur.pristine =>
          /\ cur.version = 2
          /\ \A i \in Slices : cur.items[i].hash = Raw(i)
    /\ pc = "wait" /\ cur.pristine => cur.items[slice].ran = Raw(slice)

LEMMA IdentityIs ==
    /\ Identity # <<>>
    /\ \A i \in Slices : Raw(i) = <<Identity[i][1][1]>> /\ Effective(i, role)[1] = files[i]
<1>1. \A i \in Slices : \A p : Effective(i, p)[1] = files[i]
  BY DEF Effective
<1>2. \A i \in Slices : Identity[i][1] = Effective(i, role)
  BY DEF Identity
<1>3. DOMAIN Identity = Slices /\ DOMAIN <<>> = {}
  BY DEF Identity
<1> QED BY <1>1, <1>2, <1>3, OneIsSlice DEF Raw

\* A record that says the same of the same slices.
LEMMA OriginalSame ==
    ASSUME NEW r, NEW c, Original(r), Done(c) = Done(r),
           c.id = r.id, c.version = r.version, c.pristine = r.pristine,
           \A i \in Slices : /\ c.items[i].hash = r.items[i].hash
                             /\ c.items[i].content = r.items[i].content
                             /\ c.items[i].snapshot = r.items[i].snapshot
                             /\ c.items[i].ran = r.items[i].ran
    PROVE  Original(c)
<1>1. Done(r) \subseteq Slices
  BY DoneCounted
<1> QED BY <1>1 DEF Original

\* Of the record of a run that is pristine and at work: it is of version 2.
LEMMA OriginalAtWork ==
    ASSUME NEW c, c.pristine => /\ c.version = 2
                                /\ \A i \in Slices : /\ c.items[i].hash = <<c.id[i][1][1]>>
                                                     /\ i \in Done(c) => c.items[i].ran = c.items[i].hash
    PROVE  Original(c)
BY DEF Original

\* A step that saves a record that is original.
LEMMA OriginSaved ==
    ASSUME TypeInv, OriginInv, NEW r, IsRecord(r), Original(r), Touch(r)
    PROVE  \A x \in Range(store') : Original(x)
BY TouchTyped DEF TypeInv, OriginInv

LEMMA InitOrigin == Init => OriginInv
<1> SUFFICES ASSUME Init PROVE OriginInv
  OBVIOUS
<1>1. pc = "off"
  BY DEF Init
<1>2. CASE store = <<>>
  <2>1. Range(store) = {}
    BY <1>2 DEF Range
  <2> QED BY <1>1, <2>1 DEF OriginInv, Running
<1>3. ASSUME NEW r \in LegacyRecords, store = <<r>>
      PROVE  OriginInv
  <2>1. DOMAIN store = {1} /\ store[1] = r
    BY <1>3
  <2>2. Range(store) = {r}
    BY <2>1 DEF Range
  <2>3. r.id = <<>> /\ r.version = 1
    BY LegacyAssumption
  <2>4. \A i \in Slices :
            /\ r.items[i].hash = <<>>
            /\ r.items[i].status = "succeeded" =>
                  /\ r.items[i].ran = <<r.items[i].content[1]>>
                  /\ r.items[i].snapshot \in {<<>>, r.items[i].ran}
    BY LegacyAssumption
  <2>5. Original(r)
    BY <2>3, <2>4 DEF Original, Done
  <2> QED BY <1>1, <2>2, <2>5 DEF OriginInv, Running
<1> QED BY <1>2, <1>3 DEF Init

\* A run that goes on with a record that is still pristine has its identity.
LEMMA LoadOrigin ==
    ASSUME TypeInv, OriginInv, LoadOrCreate
    PROVE  OriginInv'
<1>1. /\ pc' = "run" /\ UNCHANGED <<files, role>>
      /\ \A x \in Range(store') : x = cur' \/ x \in Range(store)
      /\ \/ Resumed = {} /\ cur' = BuildSequence
         \/ \E r \in Resumed : cur' = [r EXCEPT !.pristine = @ /\ Exact # {}]
  BY LoadIs DEF LoadOrCreate, workspace, repaired
<1>2. ASSUME cur'.pristine
      PROVE  /\ cur'.version = 2
             /\ \A i \in Slices : /\ cur'.items[i].hash = Raw(i)
                                  /\ cur'.items[i].hash = <<cur'.id[i][1][1]>>
                                  /\ i \in Done(cur') => cur'.items[i].ran = cur'.items[i].hash
  <2>1. CASE cur' = BuildSequence
    <3>1. /\ BuildSequence.id = Identity /\ BuildSequence.version = 2
          /\ \A i \in Slices : BuildSequence.items[i].hash = Raw(i)
      BY DEF BuildSequence
    <3>2. Done(BuildSequence) = {}
      BY BuildTyped DEF TypeInv
    <3> QED BY <2>1, <3>1, <3>2, IdentityIs
  <2>2. ASSUME NEW r \in Resumed, cur' = [r EXCEPT !.pristine = @ /\ Exact # {}]
        PROVE  /\ cur'.version = 2
               /\ \A i \in Slices : /\ cur'.items[i].hash = Raw(i)
                                    /\ cur'.items[i].hash = <<cur'.id[i][1][1]>>
                                    /\ i \in Done(cur') => cur'.items[i].ran = cur'.items[i].hash
    <3>1. r \in Range(store) /\ IsRecord(r) /\ (Exact # {} => r.id = Identity)
      BY ResumedStored DEF TypeInv
    <3>2. /\ Done(cur') = Done(r) /\ cur'.id = r.id /\ cur'.version = r.version
          /\ cur'.items = r.items /\ cur'.pristine = (r.pristine /\ Exact # {})
      <4> DEFINE p == Exact # {}
      <4>1. p \in BOOLEAN /\ cur' = [r EXCEPT !.pristine = @ /\ p]
        BY <2>2
      <4> HIDE DEF p
      <4>2. /\ Done(cur') = Done(r) /\ cur'.id = r.id /\ cur'.version = r.version
            /\ cur'.items = r.items /\ cur'.pristine = (r.pristine /\ p)
        BY <3>1, <4>1, ResumedTyped
      <4> QED BY <4>2 DEF p
    <3>3. r.pristine /\ r.id = Identity /\ r.version \in 1..2 /\ Original(r)
      BY <1>2, <3>1, <3>2 DEF OriginInv, IsRecord
    <3>4. r.version = 2
      BY <3>3, IdentityIs DEF Original
    <3> QED BY <3>2, <3>3, <3>4, IdentityIs DEF Original
  <2> QED BY <1>1, <2>1, <2>2
<1>3. Original(cur')
  BY <1>2, OriginalAtWork
<1>4. \A i \in Slices : Raw(i)' = Raw(i)
  BY <1>1 DEF Raw
<1> QED BY <1>1, <1>2, <1>3, <1>4 DEF OriginInv, Running

LEMMA AdoptOrigin ==
    ASSUME TypeInv, OriginInv, Adopt
    PROVE  OriginInv'
<1>1. UNCHANGED store
  BY DEF Adopt
<1>2. \/ pc' = "refresh" /\ cur' \in Range(store)
      \/ pc' = "off"
  BY DEF Adopt, Stop
<1> QED BY <1>1, <1>2 DEF OriginInv, Running

LEMMA RefreshOrigin ==
    ASSUME TypeInv, OriginInv, Refresh
    PROVE  OriginInv'
<1>1. pc' = "run" /\ Touch(cur')
  BY DEF Refresh
<1>2. IsRecord(cur') /\ cur'.pristine = FALSE
  BY RefreshIs
<1>3. Original(cur')
  BY <1>2 DEF Original
<1>4. \A x \in Range(store') : Original(x)
  BY <1>1, <1>2, <1>3, OriginSaved
<1> QED BY <1>1, <1>2, <1>3, <1>4 DEF OriginInv, Running

LEMMA MarkRunningOrigin ==
    ASSUME TypeInv, OriginInv, MarkRunning
    PROVE  OriginInv'
<1>1. pc = "run" /\ pc' = "launch" /\ Touch(cur') /\ UNCHANGED files
  BY DEF MarkRunning, workspace, repaired
<1>2. /\ IsRecord(cur') /\ Done(cur') = Done(cur)
      /\ cur'.id = cur.id /\ cur'.version = cur.version /\ cur'.pristine = cur.pristine
  BY MarkRunningIs
<1>3. \A i \in Slices : /\ cur'.items[i].hash = cur.items[i].hash
                        /\ cur'.items[i].content = cur.items[i].content
                        /\ cur'.items[i].snapshot = cur.items[i].snapshot
                        /\ cur'.items[i].ran = cur.items[i].ran
  BY MarkRunningIs DEF IsRecord, Item
<1>4. Original(cur')
  BY <1>1, <1>2, <1>3, OriginalSame DEF OriginInv, Running
<1>5. \A x \in Range(store') : Original(x)
  BY <1>1, <1>2, <1>4, OriginSaved
<1>6. \A i \in Slices : Raw(i)' = Raw(i)
  BY <1>1 DEF Raw
<1> QED BY <1>1, <1>2, <1>3, <1>4, <1>5, <1>6 DEF OriginInv, Running

LEMMA LaunchOrigin ==
    ASSUME TypeInv, OriginInv, Launch
    PROVE  OriginInv'
<1>1. pc = "launch" /\ pc' = "wait" /\ UNCHANGED <<files, store, slice>>
  BY DEF Launch, workspace, repaired
<1>2. /\ IsRecord(cur) /\ slice \in Slices \ Done(cur) /\ Done(cur') = Done(cur)
      /\ cur'.id = cur.id /\ cur'.version = cur.version /\ cur'.pristine = cur.pristine
  BY LaunchIs
<1>3. /\ cur'.items[slice].ran = Raw(slice)
      /\ \A i \in Slices : cur'.items[i].hash = cur.items[i].hash
      /\ \A i \in Slices \ {slice} : cur'.items[i].ran = cur.items[i].ran
  BY LaunchIs DEF IsRecord, Item
<1>4. Original(cur) /\ (cur.pristine => /\ cur.version = 2
                                        /\ \A i \in Slices : cur.items[i].hash = Raw(i))
  BY <1>1 DEF OriginInv, Running
<1>5. Original(cur')
  BY <1>2, <1>3, <1>4, OriginalAtWork DEF Original
<1>6. \A i \in Slices : Raw(i)' = Raw(i)
  BY <1>1 DEF Raw
<1> QED BY <1>1, <1>2, <1>3, <1>4, <1>5, <1>6 DEF OriginInv, Running

LEMMA SucceedOrigin ==
    ASSUME TypeInv, OriginInv, Succeed
    PROVE  OriginInv'
<1>1. pc = "wait" /\ pc' = "run" /\ Touch(cur') /\ UNCHANGED <<files, slice>>
  BY DEF Succeed, workspace, repaired
<1>2. /\ IsRecord(cur) /\ slice \in Slices \ Done(cur)
      /\ IsRecord(cur') /\ Done(cur') = Done(cur) \cup {slice}
      /\ cur'.id = cur.id /\ cur'.version = cur.version /\ cur'.pristine = cur.pristine
  BY SucceedIs
<1>3. \A i \in Slices : /\ cur'.items[i].hash = cur.items[i].hash
                        /\ cur'.items[i].ran = cur.items[i].ran
  BY SucceedIs DEF IsRecord, Item
<1>4. /\ Original(cur)
      /\ cur.pristine => /\ cur.version = 2
                         /\ \A i \in Slices : cur.items[i].hash = Raw(i)
                         /\ cur.items[slice].ran = Raw(slice)
  BY <1>1 DEF OriginInv, Running
<1>5. Original(cur')
  BY <1>2, <1>3, <1>4, OriginalAtWork DEF Original
<1>6. \A x \in Range(store') : Original(x)
  BY <1>1, <1>2, <1>5, OriginSaved
<1>7. \A i \in Slices : Raw(i)' = Raw(i)
  BY <1>1 DEF Raw
<1> QED BY <1>1, <1>2, <1>3, <1>4, <1>5, <1>6, <1>7 DEF OriginInv, Running

\* A run that ends keeps nothing but what it has saved.
LEMMA StopOrigin ==
    ASSUME \A x \in Range(store') : Original(x), Stop
    PROVE  OriginInv'
BY DEF Stop, OriginInv, Running

LEMMA FailOrigin ==
    ASSUME TypeInv, OriginInv, Fail
    PROVE  OriginInv'
<1> DEFINE r == Mark(cur, slice, "failed")
<1>1. pc \in {"launch", "wait"} /\ Stop
  BY DEF Fail
<1>2. /\ IsRecord(cur) /\ slice \in Slices /\ IsRecord(r) /\ Touch(r)
      /\ r.id = cur.id /\ r.version = cur.version /\ r.pristine = cur.pristine
      /\ r.items = [cur.items EXCEPT ![slice].status = "failed"]
  BY FailIs
<1>3. slice \notin Done(cur)
  BY <1>1 DEF TypeInv, RunInv
<1> HIDE DEF r
<1>4. \A i \in Slices : /\ r.items[i].hash = cur.items[i].hash
                        /\ r.items[i].content = cur.items[i].content
                        /\ r.items[i].snapshot = cur.items[i].snapshot
                        /\ r.items[i].ran = cur.items[i].ran
                        /\ r.items[i].status = "succeeded" <=> cur.items[i].status = "succeeded"
  BY <1>2, <1>3 DEF IsRecord, Item, Done
<1>5. Done(r) = Done(cur)
  BY <1>4 DEF Done
<1>6. Original(r)
  BY <1>1, <1>2, <1>4, <1>5, OriginalSame DEF OriginInv, Running
<1> QED BY <1>1, <1>2, <1>6, OriginSaved, StopOrigin

LEMMA CompleteOrigin ==
    ASSUME TypeInv, OriginInv, Complete
    PROVE  OriginInv'
<1> DEFINE r == [cur EXCEPT !.status = "completed"]
<1>1. pc = "run" /\ Touch(r) /\ Stop
  BY DEF Complete
<1>2. IsRecord(cur) /\ Original(cur)
  BY <1>1 DEF TypeInv, RunInv, OriginInv, Running
<1>3. /\ IsRecord(r) /\ r.id = cur.id /\ r.version = cur.version /\ r.pristine = cur.pristine
      /\ r.items = cur.items
  BY <1>2, RestatusTyped
<1> HIDE DEF r
<1>4. Done(r) = Done(cur)
  BY <1>3 DEF Done
<1>5. Original(r)
  BY <1>2, <1>3, <1>4, OriginalSame
<1> QED BY <1>1, <1>3, <1>5, OriginSaved, StopOrigin

\* Cancel and reconcile leave what a record says of its files.
LEMMA OtherOrigin ==
    ASSUME TypeInv, OriginInv, NEW r \in Range(store), CancelSequence(r) \/ ReconcileSequence(r)
    PROVE  OriginInv'
<1>1. PICK c : /\ Touch(c) /\ IsRecord(c) /\ Done(c) = Done(r)
               /\ c.id = r.id /\ c.version = r.version /\ c.pristine = r.pristine
               /\ \A i \in Slices : /\ c.items[i].hash = r.items[i].hash
                                    /\ c.items[i].content = r.items[i].content
                                    /\ c.items[i].snapshot = r.items[i].snapshot
                                    /\ c.items[i].ran = r.items[i].ran
  BY CancelIs, ReconcileIs
<1>2. Original(r)
  BY DEF OriginInv
<1>3. Original(c)
  BY <1>1, <1>2, OriginalSame
<1>4. \A x \in Range(store') : Original(x)
  BY <1>1, <1>3, OriginSaved
<1>5. UNCHANGED <<files, pc, cur, slice>>
  BY DEF CancelSequence, ReconcileSequence, workspace, repaired, runVars
<1>6. \A i : Raw(i)' = Raw(i)
  BY <1>5 DEF Raw
<1> QED BY <1>4, <1>5, <1>6 DEF OriginInv

\* The user repairs files between the runs, or while one has not begun with them.
EditsApart == EditAt \cap {"run", "launch", "wait"} = {}

LEMMA NextOrigin ==
    ASSUME EditsApart, TypeInv, OriginInv, [Next]_vars
    PROVE  OriginInv'
<1>1. CASE Preflight
  BY <1>1 DEF Preflight, OriginInv, Running
<1>2. CASE LoadOrCreate \/ Adopt \/ Refresh \/ MarkRunning
  BY <1>2, LoadOrigin, AdoptOrigin, RefreshOrigin, MarkRunningOrigin
<1>3. CASE Launch \/ Succeed \/ Fail \/ Complete
  BY <1>3, LaunchOrigin, SucceedOrigin, FailOrigin, CompleteOrigin
<1>4. ASSUME NEW r \in Range(store), CancelSequence(r) \/ ReconcileSequence(r)
      PROVE  OriginInv'
  BY <1>4, OtherOrigin
<1>5. CASE Crash
  <2>1. Stop /\ UNCHANGED store
    BY <1>5 DEF Crash
  <2>2. \A x \in Range(store') : Original(x)
    BY <2>1 DEF OriginInv
  <2> QED BY <2>1, <2>2, StopOrigin
<1>6. CASE Edit
  <2>1. pc \notin {"run", "launch", "wait"} /\ UNCHANGED <<store, pc, cur, slice>>
    BY <1>6 DEF EditsApart, Edit, runVars
  <2> QED BY <2>1 DEF OriginInv
<1>7. CASE Offer \/ UNCHANGED vars
  <2>1. UNCHANGED <<files, store, pc, cur, slice>>
    BY <1>7 DEF Offer, repaired, runVars, workspace, vars
  <2>2. \A i : Raw(i)' = Raw(i)
    BY <2>1 DEF Raw
  <2> QED BY <2>1, <2>2 DEF OriginInv
<1> QED BY <1>1, <1>2, <1>3, <1>4, <1>5, <1>6, <1>7 DEF Next

\* What a compatible resume and an explicit adoption establish for what they retain.
LEMMA CompatibleRetains ==
    ASSUME WorkspaceInv, NEW r, IsRecord(r), Original(r), Compatible(r), r.pristine,
           NEW i \in Done(r)
    PROVE  r.items[i].ran = Raw(i)
<1>1. CompatibleItem(r, i) /\ i \in Slices /\ r.version \in 1..2
  BY DoneCounted DEF Compatible, IsRecord
<1>2. Raw(i) # <<>> /\ Raw(i)[1] = files[i] /\ Effective(i, role)[1] = files[i]
  BY DEF Raw, Effective
<1>3. r.version = 2 => r.items[i].hash # <<>> /\ r.items[i].ran = r.items[i].hash
  BY <1>1 DEF IsRecord, Original
<1>4. r.version = 1 => r.items[i].hash = <<>> /\ r.items[i].ran = <<r.items[i].content[1]>>
  BY <1>1 DEF Original
<1>5. r.items[i].hash = Raw(i) \/ (r.items[i].hash = <<>> /\ r.items[i].content[1] = files[i])
  BY <1>1, <1>2 DEF CompatibleItem
<1> QED BY <1>1, <1>2, <1>3, <1>4, <1>5 DEF Raw

LEMMA AdoptionRetains ==
    ASSUME WorkspaceInv, NEW r, IsRecord(r), Original(r), Adoptable(r), r.pristine,
           NEW i \in Done(r)
    PROVE  r.items[i].ran = Raw(i)
<1>1. SameContent(r, i) /\ i \in Slices /\ r.version \in 1..2
  BY DoneCounted DEF Adoptable, IsRecord
<1>2. CASE r.version = 2
  BY <1>1, <1>2 DEF SameContent, Original
<1>3. CASE r.version = 1
  <2>1. /\ r.items[i].ran = <<r.items[i].content[1]>>
        /\ r.items[i].snapshot \in {<<>>, r.items[i].ran}
    BY <1>3 DEF Original
  <2>2. LegacyMatches(r, i) \/ files[i] \in LegacySnapshots(r, i)
    BY <1>1, <1>3 DEF SameContent
  <2>3. CASE LegacyMatches(r, i)
    <3>1. Raw(i)[1] = files[i] /\ Effective(i, policy)[1] = files[i]
      BY DEF Raw, Effective
    <3>2. r.items[i].content[1] = files[i]
      BY <2>3, <3>1 DEF LegacyMatches
    <3> QED BY <2>1, <3>2 DEF Raw
  <2>4. CASE files[i] \in LegacySnapshots(r, i)
    <3>1. files[i] \in Range(r.items[i].snapshot)
      BY <2>4 DEF LegacySnapshots
    <3>2. r.items[i].snapshot = <<r.items[i].content[1]>>
      <4>1. Range(<<>>) = {}
        BY DEF Range
      <4> QED BY <2>1, <3>1, <4>1
    <3>3. Range(<<r.items[i].content[1]>>) = {r.items[i].content[1]}
      BY DEF Range
    <3> QED BY <2>1, <3>1, <3>2, <3>3 DEF Raw
  <2> QED BY <2>2, <2>3, <2>4
<1> QED BY <1>1, <1>2, <1>3

\* adoption.go:21-101 and runfolder.go:2255-2327: the first time that a sequence is
\* resumed by a run that has not its identity, be it found compatible, named
\* explicitly or left by a version 1, every slice that it retains was completed by a
\* worker that got the file as it is now; whatever is edited between the runs,
\* whichever runs die, and whatever is cancelled and reconciled.
THEOREM RetainedIsAsRun ==
    ASSUME EditsApart
    PROVE  Spec => RetainedAsRun
<1>1. ASSUME TypeInv, OriginInv, [Next]_vars, Resumes, NEW i \in retained'
      PROVE  cur'.items[i].ran = Raw(i) \/ \A r \in Range(store) : r.id = cur'.id => ~r.pristine
  <2>1. LoadOrCreate \/ Adopt
    BY <1>1 DEF Resumes, Next, vars, runVars, Preflight, Refresh, MarkRunning, Launch, Succeed, Fail,
                Complete, Stop, CancelSequence, ReconcileSequence, Crash, Edit, Offer
  <2>2. \A x, y \in Range(store) : x.id = y.id => x = y
    BY <1>1, StoredIs DEF TypeInv, StoreInv
  <2>3. \A r \in Range(store) : IsRecord(r) /\ Original(r)
    BY <1>1 DEF TypeInv, StoreInv, OriginInv
  <2>4. CASE LoadOrCreate
    <3>1. /\ i \in Done(cur')
          /\ \/ cur' = BuildSequence
             \/ \E r \in Resumed : cur' = [r EXCEPT !.pristine = @ /\ Exact # {}]
      BY <1>1, <2>4, LoadIs
    <3>2. cur' # BuildSequence
      BY <1>1, <3>1, BuildTyped DEF TypeInv
    <3>3. PICK r \in Resumed : cur' = [r EXCEPT !.pristine = @ /\ Exact # {}]
      BY <3>1, <3>2
    <3>4. /\ r \in Range(store) /\ IsRecord(r) /\ (Exact # {} => r.id = Identity)
          /\ (Exact = {} => Compatible(r))
      BY <1>1, ResumedStored DEF TypeInv
    <3>5. Done(cur') = Done(r) /\ cur'.id = r.id /\ cur'.items = r.items
      <4> DEFINE p == Exact # {}
      <4>1. p \in BOOLEAN /\ cur' = [r EXCEPT !.pristine = @ /\ p]
        BY <3>3
      <4> HIDE DEF p
      <4> QED BY <3>4, <4>1, ResumedTyped
    <3>6. CASE r.pristine /\ Exact # {}
      <4>1. r.id = Identity /\ r.version \in 1..2 /\ Original(r)
        BY <2>3, <3>4, <3>6 DEF IsRecord
      <4>2. r.version = 2
        BY <3>6, <4>1, IdentityIs DEF Original
      <4>3. i \in Slices /\ i \in Done(r)
        BY <3>1, <3>5, DoneCounted
      <4> QED BY <3>5, <3>6, <4>1, <4>2, <4>3, IdentityIs DEF Original
    <3>7. CASE r.pristine /\ Exact = {}
      BY <1>1, <2>3, <3>1, <3>4, <3>5, <3>7, CompatibleRetains DEF TypeInv
    <3>8. CASE ~r.pristine
      BY <2>2, <3>4, <3>5, <3>8
    <3> QED BY <3>6, <3>7, <3>8
  <2>5. CASE Adopt
    <3>1. pc' # "off"
      BY <1>1 DEF Resumes
    <3>2. PICK r \in Range(store) : Adoptable(r) /\ cur' = r /\ retained' = Done(r)
      BY <2>5, <3>1 DEF Adopt, Stop
    <3>3. CASE r.pristine
      BY <1>1, <2>3, <3>2, <3>3, AdoptionRetains DEF TypeInv
    <3>4. CASE ~r.pristine
      BY <2>2, <3>2, <3>4
    <3> QED BY <3>3, <3>4
  <2> QED BY <2>1, <2>4, <2>5
<1>2. TypeInv /\ OriginInv /\ [Next]_vars =>
        [Resumes => \A i \in retained' :
            cur'.items[i].ran = Raw(i)
            \/ \A r \in Range(store) : r.id = cur'.id => ~r.pristine]_vars
  BY <1>1
<1>3. TypeInv /\ OriginInv /\ [Next]_vars => OriginInv'
  BY NextOrigin
<1> QED BY <1>2, <1>3, InitOrigin, AlwaysTyped, PTL DEF Spec, RetainedAsRun
================================================================================
