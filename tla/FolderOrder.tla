----------------------------- MODULE FolderOrder -----------------------------
(***************************************************************************)
(* What run-folder promises about the slices of one folder: they pass in   *)
(* the order of the folder, each after all that precede it; a capability   *)
(* gate that blocks ends the sequence, and nothing passes after it; the    *)
(* sequence is completed only when every slice has passed. A specification *)
(* slice is context and not run. Only starting over gives up what passed.  *)
(***************************************************************************)
EXTENDS Naturals

CONSTANTS NumSlices,
          Folders     \* the folders, as the kinds of their slices in order:
                      \* "implementation", "specification" or "gate"

Slices == 1 .. NumSlices

VARIABLES folder, passed, phase

promise == <<folder, passed, phase>>

\* The slices that have to pass before k may.
Before(k) == {j \in 1 .. k - 1 : folder[j] # "specification"}

OrderInit ==
    /\ folder \in Folders
    /\ passed = {}
    /\ phase = "open"

AllIn(slices) == \A k \in Slices : folder[k] # "specification" => k \in slices

\* The last slice that passes completes the sequence, unless slices that are
\* context follow it and have still to be skipped.
Pass(k) ==
    /\ phase = "open"
    /\ folder[k] = "implementation"
    /\ Before(k) \subseteq passed
    /\ passed' = passed \cup {k}
    /\ phase' = "open" \/ (phase' = "completed" /\ AllIn(passed'))
    /\ UNCHANGED folder

Block(k) ==
    /\ phase = "open"
    /\ folder[k] = "gate"
    /\ Before(k) \subseteq passed
    /\ phase' = "blocked"
    /\ UNCHANGED <<folder, passed>>

Complete ==
    /\ phase = "open"
    /\ AllIn(passed)
    /\ phase' = "completed"
    /\ UNCHANGED <<folder, passed>>

StartOver ==
    /\ passed' = {}
    /\ phase' = "open"
    /\ UNCHANGED folder

OrderNext ==
    \/ \E k \in Slices : Pass(k) \/ Block(k)
    \/ Complete
    \/ StartOver

OrderSpec == OrderInit /\ [][OrderNext]_promise
=============================================================================
