---------------------------- MODULE Configuration ----------------------------
(***************************************************************************)
(* The configuration, from the template, the user, the repository and the  *)
(* environment. A source is a function from the keys that it sets; a file  *)
(* that does not exist sets none. Of the keys only those are here that     *)
(* decide on a sequence and its workers.                                   *)
(***************************************************************************)
EXTENDS Naturals, FiniteSets, FiniteSetsExt

\* The later one overrides.
Sources == <<"template", "user", "repository", "environment">>

Defaults ==
    [engine |-> "codex", sandbox |-> "workspace-write", approval |-> "never", timeout |-> 0,
     resume |-> FALSE, fresh |-> FALSE, restart |-> FALSE, no_resume |-> FALSE]

Keys == DOMAIN Defaults

Selectors == {"resume", "fresh", "restart", "no_resume"}

\* In hours.
MaxTimeout == 720

\* What a key may be set to.
Allowed(key) ==
    CASE key = "engine"    -> {"codex"}
      [] key = "sandbox"   -> {"read-only", "workspace-write", "danger-full-access"}
      [] key = "approval"  -> {"untrusted", "on-failure", "on-request", "never"}
      [] key = "timeout"   -> 0..MaxTimeout
      [] key \in Selectors -> BOOLEAN

ValuesAllowed(settings) == \A key \in DOMAIN settings : settings[key] \in Allowed(key)

AtMostOneSelected(settings) ==
    Cardinality({s \in Selectors \cap DOMAIN settings : settings[s]}) <= 1

KeysKnown(settings) == DOMAIN settings \subseteq Keys

\* A file that sets the timeout sets one.
TimeoutPositive(settings) == "timeout" \in DOMAIN settings => settings.timeout > 0

FileOK(settings) ==
    /\ KeysKnown(settings)
    /\ ValuesAllowed(settings)
    /\ TimeoutPositive(settings)
    /\ AtMostOneSelected(settings)

Setting(config, key) ==
    LET setters == {k \in DOMAIN Sources : key \in DOMAIN config[Sources[k]]}
    IN  IF setters = {} THEN Defaults[key] ELSE config[Sources[Max(setters)]][key]

Loaded(config) == [key \in Keys |-> Setting(config, key)]

\* Two files may each select one.
SettingsValid(settings) == ValuesAllowed(settings) /\ AtMostOneSelected(settings)

EnvironmentOK(settings) == KeysKnown(settings)

Loads(config) ==
    /\ \A file \in {"template", "user", "repository"} : FileOK(config[file])
    /\ EnvironmentOK(config.environment)
    /\ SettingsValid(Loaded(config))
=============================================================================
