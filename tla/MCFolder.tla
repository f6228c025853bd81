------------------------------- MODULE MCFolder -------------------------------
(***************************************************************************)
(* Instances of FolderControl for TLC.                                     *)
(***************************************************************************)
EXTENDS FolderControl

TwoSlices == {<<"implementation", "implementation">>}
MixedFolders == {<<"implementation", "gate", "implementation">>,
                 <<"implementation", "specification", "implementation">>,
                 <<"implementation", "gate", "specification">>,
                 <<"specification", "implementation", "specification">>}

AnyRun == [Runs -> BOOLEAN]
EveryRun == {[r \in Runs |-> TRUE]}
Attached == {[r \in Runs |-> FALSE]}
AllOrNone == EveryRun \cup Attached

\* A run that has ended is only known by its claim and, as long as a record or
\* the copy of one names it, its supervisor record: nothing waits for its worker.
Gone(r) == runner[r].pc \in {"signoff", "release", "dead"}

Named ==
    {seq.sup, canceller.sup, canceller.copy.sup, reconciler.copy.sup} \cup
    {runner[r].my.sup : r \in {q \in Runs : ~Gone(q)}}

\* What is still read of a run: how it was invoked until it has loaded the
\* records, whether it repairs while it may recover, and at the end its copy of
\* the sequence.
Seen(r) ==
    LET x == runner[r]
    IN  IF Gone(r) THEN [Unborn EXCEPT !.pc = x.pc]
        ELSE IF x.pc \in {"leave", "sign", "lastsave"}
        THEN [Unborn EXCEPT !.pc = x.pc, !.my = x.my]
        ELSE IF x.pc = "load" THEN x
        ELSE [x EXCEPT !.mode = "default", !.own.status = "running",
                       !.repaired = @ /\ x.attempt < RecoveryAttempts]

View ==
    <<folder, detached, seq, run, claim, {w \in live : ~Gone(w[1])}, canceller,
      reconciler, passed, crashes,
      [r \in Runs |-> IF Gone(r) /\ r \notin Named THEN "none" ELSE supervisor[r]],
      [r \in Runs |-> Seen(r)]>>
=============================================================================
