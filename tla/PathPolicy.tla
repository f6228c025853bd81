----------------------------- MODULE PathPolicy -----------------------------
(***************************************************************************)
(* Which paths of a repository a slice may change: what its own policy     *)
(* permits and, outside of that, the role it declares. A prompt of a       *)
(* shared run is held to its own policy only.                              *)
(*                                                                         *)
(* A path is the sequence of its parts. A part of a pattern is a name, "*" *)
(* for any name or "**" for any number of them; finer globs are left out.  *)
(***************************************************************************)
EXTENDS Naturals, Sequences

CONSTANTS
    Paths,            \* the paths of the repository
    RoleAllowed,      \* allowed_paths of the role, as its file has them; {} if there are none
    SliceAllowed,     \* allowed_paths of the slice
    SliceForbidden    \* forbidden_paths of the slice

\* The path lies in a directory of the repository.
Directory(pattern) == \E p \in Paths :
    Len(pattern) < Len(p) /\ SubSeq(p, 1, Len(pattern)) = pattern

\* A legacy pattern of a role that names a directory means all that is in it.
NormalizedRoleAllowed ==
    {IF Directory(pattern) THEN Append(pattern, "**") ELSE pattern : pattern \in RoleAllowed}

\* walk[i, j]: the pattern without its first i parts matches the path without
\* its first j parts.
Matches(pattern, path) ==
    LET walk[i \in 0..Len(pattern), j \in 0..Len(path)] ==
            IF i = Len(pattern) THEN j = Len(path)
            ELSE IF pattern[i + 1] = "**" THEN walk[i + 1, j] \/ (j < Len(path) /\ walk[i, j + 1])
            ELSE /\ j < Len(path)
                 /\ pattern[i + 1] \in {"*", path[j + 1]}
                 /\ walk[i + 1, j + 1]
    IN  walk[0, 0]

MatchesAny(patterns, path) == \E pattern \in patterns : Matches(pattern, path)

\* A policy without allowed paths allows every path that it does not forbid.
Violates(allowed, forbidden, path) ==
    \/ MatchesAny(forbidden, path)
    \/ allowed # {} /\ ~MatchesAny(allowed, path)

\* What the policy of the slice, or of a prompt of a shared run, permits by itself.
OwnPermitted == {p \in Paths : ~Violates(SliceAllowed, SliceForbidden, p)}

Permitted == {p \in OwnPermitted : ~Violates(NormalizedRoleAllowed, {}, p)}
=============================================================================
