-------------------------------- MODULE MCLanes --------------------------------
(***************************************************************************)
(* Instances of ParallelLanes for TLC.                                     *)
(***************************************************************************)
EXTENDS ParallelLanes

\* Two lanes side by side, and a third that needs the first or both.
Forks == {<<{}, {}, {1}>>, <<{}, {}, {1, 2}>>}
=============================================================================
