------------------------------ MODULE MCSlice ------------------------------
(***************************************************************************)
(* A slice that may change a file of the repository and create another,    *)
(* beside a file that its role allows and the slice itself forbids and one *)
(* that the slice allows and its role does not. The role names its         *)
(* directory the old way.                                                  *)
(***************************************************************************)
EXTENDS WorktreeRuns, TLC

CONSTANTS w1, w2

Source == <<"src", "a">>
Added == <<"src", "b">>
Kept == <<"src", "doc", "c">>

Outside == <<"lib", "d">>

MCPaths == {Source, Added, Kept, Outside}
MCFirstTree == [p \in MCPaths |-> IF p = Added THEN "absent" ELSE "base"]
MCRoleAllowed == {<<"src">>}
MCSliceAllowed == {<<"**">>}
MCSliceForbidden == {<<"**", "doc", "*">>}
MCWorkers == {w1, w2}
\* The user acts at any time.
Always == Steps

MCSymmetry == Permutations(MCWorkers)
=============================================================================
