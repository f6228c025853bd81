-------------------------- MODULE SequenceAdoption --------------------------
(***************************************************************************)
(* Which sequence a run of a folder goes on with: the one of its identity, *)
(* the latest unfinished one that is compatible, the one that is named and *)
(* adopted explicitly, migrated if a version 1 wrote it, or a new one; and *)
(* which of its slices are retained; and with which model it launches the  *)
(* worker of a slice.                                                      *)
(*                                                                         *)
(* Between runs the user repairs slices, the role, the configuration and   *)
(* the environment; at any time the models change that the repository      *)
(* permits and the runtime selects; a run may die; sequences are cancelled *)
(* and reconciled.                                                         *)
(* A hash is the value it is taken of, in a tuple; <<>> if there is none.  *)
(* Specifications, gates and --fresh are in FolderSequence.                *)
(***************************************************************************)
EXTENDS Configuration, LaunchInputs, SequencesExt

CONSTANTS
    NumSlices,      \* the slices of the folder
    Versions,       \* what a prompt file may hold
    Policies,       \* what the file of the role may hold
    RoleRequires,   \* per policy, what it requires of the model
    Configs,        \* what the sources of the configuration may hold
    ModelPolicies,  \* what the policy of models may be
    Catalogs,       \* what the runtime may select
    NoRecord,       \* no run goes on
    LegacyRecords,  \* records a version 1 may have left
    FirstFiles,     \* the prompt files when it left them
    FirstConfig, FirstModels, FirstCatalog,  \* and the rest of the workspace
    EditAt,         \* the steps of the run before which the user may edit
    NumRuns,        \* bound on invocations
    MaxEdits,       \* bound on edits
    MaxFaults       \* bound on crashes and cancels

Slices == 1..NumSlices
Statuses == {"pending", "running", "succeeded", "failed", "interrupted", "cancelled"}

(* What an item holds: of texts of prompt files, of these with the policy of *)
(* a role, and of dependencies, one each or none.                            *)
Texts == {<<>>} \cup {<<v>> : v \in Versions}
Contents == {<<v>> : v \in Versions} \cup (Versions \X (Policies \cup {"unusable"}))
Graph == {<<>>} \cup {<<v.graph>> : v \in Versions}

Item == [status : Statuses, hash : Texts, content : Contents, graph : Graph, snapshot : Texts,
         ran : Texts]

\* A version: its dependencies, whether it declares the role, the engine it
\* names or "", what it requires of the model, whether it declares an
\* environment, and the policies of the role that permit its expected paths.
ASSUME VersionAssumption ==
    \A v \in Versions :
        /\ DOMAIN v = {"text", "graph", "role", "engine", "requires", "needs", "fits"}
        /\ v.fits \subseteq Policies
ASSUME ModelsAssumption == \A p \in ModelPolicies : p.models \in Seq(Range(p.models))
ASSUME FirstAssumption ==
    /\ FirstFiles \in [Slices -> Versions]
    /\ FirstConfig \in Configs /\ FirstModels \in ModelPolicies /\ FirstCatalog \in Catalogs
ASSUME SizeAssumption == NumSlices \in Nat \ {0} /\ {NumRuns, MaxEdits, MaxFaults} \subseteq Nat

\* A version 1 noted the text and the revision of a slice as it launched its
\* worker, and no sequence of today has its identity.
ASSUME LegacyAssumption ==
    \A r \in LegacyRecords :
        /\ r \in [id : {<<>>}, version : {1}, status : Statuses \cup {"completed"}, folder : BOOLEAN,
                  repo : BOOLEAN, pristine : {TRUE}, items : [Slices -> Item]]
        /\ \A i \in Slices :
              /\ r.items[i].hash = <<>>
              /\ r.items[i].status = "succeeded" =>
                    /\ r.items[i].ran = <<r.items[i].content[1]>>
                    /\ r.items[i].snapshot \in {<<>>, r.items[i].ran}

VARIABLES
    files,         \* per slice, what its prompt file holds
    policy,        \* what the file of the role holds, "unusable" if it fails validation
    config,        \* what the sources of the configuration hold
    models,        \* the policy of models of the repository
    catalog,       \* the models that the runtime selects
    environment,   \* whether the declared variables name directories
    store,         \* the records of the sequences, the one touched last first
    pc,            \* the next step of the run
    target,        \* the sequence to adopt, in a set, or {}
    checked,       \* the slices that preflight has checked
    role,          \* the policy of the role as preflight has loaded it
    cur,           \* the sequence of the run
    retained,      \* the slices it has completed already
    slice,         \* the slice that a worker is at
    model,         \* the model it was launched with, in a set
    runs, edits, faults

repaired == <<files, policy, config, environment>>
workspace == <<repaired, models, catalog>>
runVars == <<pc, target, checked, role, cur, retained, slice, model>>
bounds == <<runs, edits, faults>>
vars == <<workspace, store, runVars, bounds>>

(* Records. Items have two fields more than the code: a snapshot is what    *)
(* the revision that version 1 noted for a slice has of its prompt file,    *)
(* and ran is what the worker got that completed the slice, for the         *)
(* properties. So is pristine: all that a record was resumed for so far was *)
(* its own identity.                                                        *)
Done(r) == {i \in Slices : r.items[i].status = "succeeded"}

\* What is completed is a prefix.
Prefix(r) == Done(r) = 1..Cardinality(Done(r))

Unfinished(r) == r.status \notin {"completed", "cancelled"}

Ids == {r.id : r \in Range(store)}
Stored(id) == CHOOSE r \in Range(store) : r.id = id

\* A file has one record of the sequence that it is named after.
Others(id) ==
    IF id \in Ids THEN RemoveAt(store, CHOOSE k \in DOMAIN store : store[k].id = id) ELSE store

\* A record is saved, by sequence identifier; touched, it is the latest.
Touch(r) == store' = <<r>> \o Others(r.id)

SequenceStatus(items) ==
    LET among == {items[i].status : i \in DOMAIN items}
    IN  CASE "failed" \in among -> "failed"
          [] "failed" \notin among /\ "interrupted" \in among -> "interrupted"
          [] {"failed", "interrupted"} \cap among = {} /\ "cancelled" \in among -> "cancelled"
          [] among = {"succeeded"} -> "completed"
          [] OTHER -> "running"

Mark(r, i, status) ==
    LET items == [r.items EXCEPT ![i].status = status]
    IN  [r EXCEPT !.items = items, !.status = SequenceStatus(items)]

-----------------------------------------------------------------------------
(* Fingerprints and identities.                                             *)

Raw(i) == <<files[i]>>

\* The prompt file with the policy of its role.
Effective(i, p) == IF files[i].role THEN <<files[i], p>> ELSE <<files[i]>>

EngineOf(i) == IF files[i].engine # "" THEN files[i].engine ELSE Loaded(config).engine

EngineSource(i) == IF files[i].engine # "" THEN "prompt" ELSE "default"

\* Of the engines only the settings of Codex count.
EngineConfig(i) ==
    <<IF EngineOf(i) = "codex" THEN <<Loaded(config).sandbox, Loaded(config).approval>> ELSE <<>>,
      Loaded(config).timeout>>

Identity ==
    [i \in Slices |-> <<Effective(i, role), EngineOf(i), EngineSource(i), EngineConfig(i)>>]

BuildSequence ==
    [id |-> Identity, version |-> 2, status |-> "running", folder |-> TRUE, repo |-> TRUE,
     pristine |-> TRUE,
     items |-> [i \in Slices |->
         [status |-> "pending", hash |-> Raw(i), content |-> Effective(i, role),
          graph |-> <<files[i].graph>>, snapshot |-> <<>>, ran |-> <<>>]]]

-----------------------------------------------------------------------------
(* Compatible resume.                                                       *)

CompatibleItem(r, i) ==
    \/ r.items[i].hash = Raw(i)
    \/ r.items[i].hash = <<>> /\ r.items[i].content \in {Raw(i), Effective(i, role)}

Compatible(r) ==
    /\ r.folder
    /\ Unfinished(r)
    /\ Prefix(r)
    /\ \A i \in Done(r) : CompatibleItem(r, i)

(* Explicit adoption. A version 1 has one hash for the prompt file and the  *)
(* policy of its role, and may lack the folder and the repository; the      *)
(* former is seen from its items, the latter from a revision.               *)
LegacySnapshots(r, i) == Range(r.items[i].snapshot)

RepositoryEvidence(r) == \E i \in Slices : LegacySnapshots(r, i) # {}

Located(r) == r.repo \/ RepositoryEvidence(r)

LegacyMatches(r, i) ==
    \/ r.items[i].content = Raw(i)
    \/ r.items[i].content = Effective(i, policy) /\ (files[i].role => policy # "unusable")

Dependencies(v) == v.graph

SameIdentity(r, i) ==
    IF r.version = 2 THEN r.items[i].graph = <<Dependencies(files[i])>>
    ELSE \/ LegacyMatches(r, i)
         \/ \E v \in LegacySnapshots(r, i) : Dependencies(v) = Dependencies(files[i])

\* Mutant: any snapshot proves that the prompt file is unchanged.
AnySnapshot(r, i) ==
    IF r.version = 2 THEN r.items[i].hash = Raw(i)
    ELSE LegacyMatches(r, i) \/ LegacySnapshots(r, i) # {}

SameContent(r, i) ==
    IF r.version = 2 THEN r.items[i].hash = Raw(i)
    ELSE LegacyMatches(r, i) \/ files[i] \in LegacySnapshots(r, i)

Adoptable(r) ==
    /\ Unfinished(r)
    /\ Located(r)
    /\ Prefix(r)
    /\ Done(r) # Slices
    /\ \A i \in Slices : SameIdentity(r, i)
    /\ \A i \in Done(r) : SameContent(r, i)

-----------------------------------------------------------------------------
(* The run.                                                                 *)

\* Mutant: off by one, the slice to restart at is left out.
RemainingTail == {i \in Slices : \A id \in target' : i > Cardinality(Done(Stored(id))) + 1}

\* The slices that preflight checks: of an explicit adoption those it leaves.
Remaining == {i \in Slices : \A id \in target' : i > Cardinality(Done(Stored(id)))}

RoleUsable(i) == files[i].role => policy # "unusable"

ExpectedPathsAllowed(i) == files[i].role => policy \in files[i].fits

EnvironmentPresent(i) == files[i].needs => environment

Valid(i) == RoleUsable(i) /\ ExpectedPathsAllowed(i) /\ EnvironmentPresent(i)

RoleDefaults(i) ==
    IF files[i].role /\ policy \in Policies THEN RoleRequires[policy] ELSE NoRequirement

\* The model that a worker would be launched with now, in a set, or {}.
ModelNow(i) ==
    IF Loads(config) THEN ModelFor(files[i].requires, RoleDefaults(i), models, catalog) ELSE {}

\* Nothing is stored before all that is checked is valid.
Preflight ==
    /\ pc = "off"
    /\ runs < NumRuns
    /\ target' \in {{}} \cup {{id} : id \in Ids}
    /\ \A id \in target' : Adoptable(Stored(id))
    /\ checked' = Remaining
    /\ \A i \in checked' : Valid(i)
    /\ \A i \in checked' : ModelNow(i) # {}
    /\ Loads(config)
    /\ role' = policy
    /\ pc' = "load"
    /\ runs' = runs + 1
    /\ UNCHANGED <<workspace, store, cur, retained, slice, model, edits, faults>>

\* The process ends.
Stop ==
    /\ pc' = "off"
    /\ target' = {}
    /\ checked' = {} /\ role' = "unusable"
    /\ cur' = NoRecord
    /\ retained' = {} /\ slice' = 1 /\ model' = {}

Exact == {r \in Range(store) : r.id = Identity}

\* The latest that is compatible.
Latest ==
    LET found == {k \in DOMAIN store : Compatible(store[k])}
    IN  IF found = {} THEN {} ELSE {store[Min(found)]}

\* The record that is resumed, in a set, or {}.
Resumed == IF Exact # {} THEN Exact ELSE Latest

\* A detached run saves its sequence at once.
LoadOrCreate ==
    /\ pc = "load"
    /\ target = {}
    /\ \/ /\ Resumed = {}
          /\ cur' = BuildSequence
       \/ \E r \in Resumed : cur' = [r EXCEPT !.pristine = @ /\ Exact # {}]
    /\ retained' = Done(cur')
    /\ \/ store' = IF cur'.id \in Ids
                   THEN [k \in DOMAIN store |-> IF store[k].id = cur'.id THEN cur' ELSE store[k]]
                   ELSE <<cur'>> \o store
       \/ UNCHANGED store
    /\ pc' = "run"
    /\ UNCHANGED <<workspace, target, checked, role, slice, model, bounds>>

\* The adoption is validated again: other commands may have come in between.
Adopt ==
    /\ pc = "load"
    /\ target # {}
    /\ \E r \in Range(store) :
          /\ r.id \in target
          /\ \/ /\ Adoptable(r)
                /\ cur' = r
                /\ retained' = Done(r)
                /\ pc' = "refresh"
                /\ UNCHANGED <<target, checked, role, slice, model>>
             \/ ~Adoptable(r) /\ Stop
    /\ UNCHANGED <<workspace, store, bounds>>

\* Mutant: the fingerprints of the slices that were checked are refreshed only.
RefreshedIfChecked(i) ==
    IF i \in checked THEN [cur.items[i] EXCEPT !.hash = Raw(i), !.graph = <<files[i].graph>>,
                                               !.content = Effective(i, role)]
                     ELSE cur.items[i]

\* The policy of the role is only at hand for a slice that was checked.
Refreshed(i) ==
    [cur.items[i] EXCEPT
        !.hash = Raw(i), !.graph = <<files[i].graph>>,
        !.content = IF i \in checked \/ ~files[i].role THEN Effective(i, role) ELSE @]

\* refreshAdoptedFingerprints; the record is migrated with it.
Refresh ==
    /\ pc = "refresh"
    /\ cur' = [cur EXCEPT !.items = [i \in Slices |-> Refreshed(i)], !.version = 2,
                          !.pristine = FALSE]
    /\ Touch(cur')
    /\ pc' = "run"
    /\ UNCHANGED <<workspace, target, checked, role, retained, slice, model, bounds>>

MarkRunning ==
    /\ pc = "run"
    /\ Done(cur) # Slices
    /\ slice' = Min(Slices \ Done(cur))
    /\ cur' = Mark(cur, slice', "running")
    /\ Touch(cur')
    /\ pc' = "launch"
    /\ UNCHANGED <<workspace, target, checked, role, retained, model, bounds>>

\* The worker gets what the file of the slice holds now.
Launch ==
    /\ pc = "launch"
    /\ ModelNow(slice) # {}
    /\ model' = ModelNow(slice)
    /\ cur' = [cur EXCEPT !.items[slice].ran = Raw(slice)]
    /\ pc' = "wait"
    /\ UNCHANGED <<workspace, store, target, checked, role, retained, slice, bounds>>

Succeed ==
    /\ pc = "wait"
    /\ cur' = Mark(cur, slice, "succeeded")
    /\ Touch(cur')
    /\ pc' = "run"
    /\ model' = {}
    /\ UNCHANGED <<workspace, target, checked, role, retained, slice, bounds>>

\* The worker fails, or is not launched.
Fail ==
    /\ pc = "wait" \/ (pc = "launch" /\ ModelNow(slice) = {})
    /\ Touch(Mark(cur, slice, "failed"))
    /\ Stop
    /\ UNCHANGED <<workspace, bounds>>

Complete ==
    /\ pc = "run"
    /\ Done(cur) = Slices
    /\ Touch([cur EXCEPT !.status = "completed"])
    /\ Stop
    /\ UNCHANGED <<workspace, bounds>>

-----------------------------------------------------------------------------
(* Other commands, and the user.                                            *)

Live(r) == pc \in {"refresh", "run", "launch", "wait"} /\ r.id = cur.id

CancelSequence(r) ==
    /\ faults < MaxFaults
    /\ r.status \notin {"completed", "failed"} /\ ~Live(r)
    /\ Touch([r EXCEPT !.status = "cancelled",
                       !.items = [i \in Slices |->
                           IF r.items[i].status \in {"succeeded", "failed"} THEN r.items[i]
                           ELSE [r.items[i] EXCEPT !.status = "cancelled"]]])
    /\ faults' = faults + 1
    /\ UNCHANGED <<workspace, runVars, runs, edits>>

\* The slice that was running is interrupted, else the first that is pending.
ReconcileSequence(r) ==
    LET With(status) == {i \in Slices : r.items[i].status = status}
        struck == IF With("running") # {} THEN With("running")
                  ELSE {i \in With("pending") : \A j \in With("pending") : i <= j}
    IN  /\ r.status = "running" /\ ~Live(r)
        /\ Touch([r EXCEPT !.status = "interrupted",
                           !.items = [i \in Slices |->
                               IF i \in struck THEN [r.items[i] EXCEPT !.status = "interrupted"]
                                               ELSE r.items[i]]])
        /\ UNCHANGED <<workspace, runVars, bounds>>

Crash ==
    /\ pc # "off"
    /\ faults < MaxFaults
    /\ Stop
    /\ faults' = faults + 1
    /\ UNCHANGED <<workspace, store, runs, edits>>

Edit ==
    /\ pc \in EditAt
    /\ edits < MaxEdits
    /\ edits' = edits + 1
    /\ \/ \E i \in Slices : \E v \in Versions \ {files[i]} :
             files' = [files EXCEPT ![i] = v] /\ UNCHANGED <<policy, config, environment>>
       \/ /\ policy' \in (Policies \cup {"unusable"}) \ {policy}
          /\ UNCHANGED <<files, config, environment>>
       \/ config' \in Configs \ {config} /\ UNCHANGED <<files, policy, environment>>
       \/ environment' = ~environment /\ UNCHANGED <<files, policy, config>>
    /\ UNCHANGED <<models, catalog, store, runVars, runs, faults>>

\* Another policy of models, or others that can be selected.
Offer ==
    /\ edits < MaxEdits
    /\ edits' = edits + 1
    /\ \/ models' \in ModelPolicies \ {models} /\ UNCHANGED catalog
       \/ catalog' \in Catalogs \ {catalog} /\ UNCHANGED models
    /\ UNCHANGED <<repaired, store, runVars, runs, faults>>

-----------------------------------------------------------------------------
Init ==
    /\ files = FirstFiles
    /\ policy \in Policies
    /\ config = FirstConfig
    /\ models = FirstModels
    /\ catalog = FirstCatalog
    /\ environment = TRUE
    /\ store \in {<<>>} \cup {<<r>> : r \in LegacyRecords}
    /\ pc = "off"
    /\ target = {}
    /\ checked = {}
    /\ role = "unusable"
    /\ cur = NoRecord
    /\ retained = {}
    /\ slice = 1
    /\ model = {}
    /\ runs = 0
    /\ edits = 0
    /\ faults = 0

Next ==
    \/ Preflight
    \/ LoadOrCreate
    \/ Adopt
    \/ Refresh
    \/ MarkRunning
    \/ Launch
    \/ Succeed
    \/ Fail
    \/ Complete
    \/ \E r \in Range(store) : CancelSequence(r) \/ ReconcileSequence(r)
    \/ Crash
    \/ Edit
    \/ Offer

Spec == Init /\ [][Next]_vars

-----------------------------------------------------------------------------
(* Every record has the shape of its version: a record of version 2 has all *)
(* fingerprints. There is one record for every sequence.                    *)
RecordOK(r) ==
    /\ r.version \in 1..2
    /\ r.status \in Statuses \cup {"completed"}
    /\ \A i \in Slices : /\ r.items[i] \in Item
                         /\ r.version = 2 => r.items[i].hash # <<>> /\ r.items[i].graph # <<>>

TypeOK ==
    /\ files \in [Slices -> Versions]
    /\ policy \in Policies \cup {"unusable"} /\ role \in Policies \cup {"unusable"}
    /\ config \in Configs /\ environment \in BOOLEAN
    /\ models \in ModelPolicies /\ catalog \in Catalogs
    /\ pc \in {"off", "load", "refresh", "run", "launch", "wait"}
    /\ Cardinality(model) = IF pc = "wait" THEN 1 ELSE 0
    /\ target \subseteq Ids /\ Cardinality(target) <= 1
    /\ checked \subseteq Slices /\ retained \subseteq Slices /\ slice \in Slices
    /\ IF pc \in {"refresh", "run", "launch", "wait"} THEN RecordOK(cur) ELSE cur = NoRecord
    /\ \A k \in DOMAIN store : RecordOK(store[k])
    /\ \A j, k \in DOMAIN store : store[j].id = store[k].id => j = k

Resumes == pc = "load" /\ pc' \in {"refresh", "run"}

(* A slice is only launched if this run has checked it against the role,    *)
(* the environment and its expected paths, although an explicit adoption    *)
(* checks only the slices that it will leave, before the sequence is loaded *)
(* a second time.                                                           *)
CheckedBeforeLaunch == [][pc = "launch" /\ pc' = "wait" => slice \in checked]_vars

(* The first time that a sequence is resumed by a run that has not its      *)
(* identity, compatibly, explicitly or out of a version 1, and as long as   *)
(* it was not, every slice that is retained was completed as its file is    *)
(* now.                                                                     *)
RetainedAsRun ==
    [][Resumes => \A i \in retained' :
           cur'.items[i].ran = Raw(i) \/ \A r \in Range(store) : r.id = cur'.id => ~r.pristine]_vars

(* Every worker is launched with a model that the policy permits and the    *)
(* runtime selects at that time, whatever it was when it was checked; the   *)
(* cost is at most what the slice allows or, if it does not say, its role,  *)
(* also if the slice names the model; and unless the slice, the role or the *)
(* policy names the model, none that satisfies the requirement is cheaper.  *)
WithinLimits ==
    [][pc = "launch" /\ pc' = "wait" =>
        LET asked == files[slice].requires
            byRole == RoleDefaults(slice)
            limit == IF asked.cost # "" THEN asked.cost ELSE byRole.cost
            named == {asked.model, byRole.model} # {""}
            Cost(id) == Rank((CHOOSE m \in Range(models.models) : m.id = id).cost)
        IN  \A id \in model' :
                /\ id # "" => id \in catalog
                /\ models.present => id \in {m.id : m \in Range(models.models)}
                /\ models.present /\ limit # "" => Cost(id) <= Rank(limit)
                /\ models.present /\ ~named /\ (limit # "" \/ models.default = "") =>
                     \A m \in Range(models.models) :
                         Satisfies(m, Required(asked, byRole)) => Cost(id) <= Rank(m.cost)]_vars

(* "A changed completed slice is never silently adopted" (README.md:635),   *)
(* however often the sequence was resumed before.                           *)
ChangedNotRetained == [][Resumes => \A i \in retained' : cur'.items[i].ran = Raw(i)]_vars
=============================================================================
