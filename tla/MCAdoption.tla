----------------------------- MODULE MCAdoption -----------------------------
(***************************************************************************)
(* Two slices. A prompt file may be edited in its text, in its             *)
(* dependencies, or to declare the role, an engine and an environment.     *)
(***************************************************************************)
EXTENDS SequenceAdoption, TLC

Nothing == NoRequirement
Low == [NoRequirement EXCEPT !.cost = "low"]
Small == [NoRequirement EXCEPT !.model = "small"]
Large == [NoRequirement EXCEPT !.model = "large"]

Plain == [text |-> "a", graph |-> "g", role |-> FALSE, engine |-> "", requires |-> Nothing,
          needs |-> FALSE, fits |-> {"wide", "narrow"}]
Edited == [Plain EXCEPT !.text = "b", !.requires = Low]
Regraphed == [Plain EXCEPT !.graph = "h"]
WithRole == [Plain EXCEPT !.role = TRUE, !.engine = "codex", !.needs = TRUE, !.fits = {"wide"}]
Naming == [WithRole EXCEPT !.requires = Large, !.fits = {"wide", "narrow"}]

MCVersions == {Plain, Edited, Regraphed, WithRole, Naming}

\* The wide role limits the cost, the narrow one names a model.
MCPolicies == {"wide", "narrow"}
MCRoleRequires == [p \in MCPolicies |-> IF p = "wide" THEN Low ELSE Small]

MCFirstFiles == [i \in 1..2 |-> IF i = 1 THEN WithRole ELSE Plain]

Unset == [template |-> <<>>, user |-> <<>>, repository |-> <<>>, environment |-> <<>>]
ReadOnly == [Unset EXCEPT !.user = [sandbox |-> "danger-full-access", resume |-> TRUE],
                          !.repository = [sandbox |-> "read-only"]]
Clash == [ReadOnly EXCEPT !.environment = [fresh |-> TRUE]]
MCConfigs == {Unset, ReadOnly, Clash}

NoPolicy == [present |-> FALSE, default |-> "", models |-> <<>>]
TwoModels ==
    [present |-> TRUE, default |-> "large",
     models |-> <<[id |-> "large", cost |-> "high", caps |-> {"text", "code"}],
                  [id |-> "small", cost |-> "low", caps |-> {"text"}]>>]
MCModelPolicies == {NoPolicy, TwoModels}
Both == {"small", "large"}
MCCatalogs == {Both, {"small"}}

\* What a version 1 left after the first slice had succeeded.
LegacyItem(status, content, snapshot, ran) ==
    [status |-> status, hash |-> <<>>, content |-> content, graph |-> <<>>, snapshot |-> snapshot,
     ran |-> ran]
MCLegacyRecords ==
    {[id |-> <<>>, version |-> 1, status |-> "failed", folder |-> l, repo |-> l, pristine |-> TRUE,
      items |-> <<LegacyItem("succeeded", c, IF Len(c) = 1 THEN <<>> ELSE <<WithRole>>, <<WithRole>>),
                  LegacyItem("failed", <<Plain>>, <<>>, <<Plain>>)>>] :
        l \in BOOLEAN, c \in {<<WithRole>>, <<WithRole, "wide">>}}

\* The user edits between the runs only.
BetweenRuns == {"off"}
=============================================================================
