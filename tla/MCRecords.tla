------------------------------ MODULE MCRecords ------------------------------
(***************************************************************************)
(* Instances of RecordControl for TLC.                                     *)
(***************************************************************************)
EXTENDS RecordControl

CONSTANTS o1, o2

\* Beside a headless script one operator gives any command and another one
\* prunes; beside the loop and the launcher of a script in a terminal one cancels.
AllCommands ==
    ({"headless"} \X {o1} \X DOMAIN First)
        \cup ({"headless"} \X {o2} \X {"prune"})
        \cup {<<"terminal", o1, "cancel">>}

\* A success, a success outside its paths, a rejection, no final message, nothing
\* at all, and a failure after an answer.
SixOutcomes ==
    {<<"zero", "pass", TRUE>>, <<"zero", "pass", FALSE>>, <<"zero", "blocked", TRUE>>,
     <<"zero", "empty", TRUE>>, <<"other", "none", TRUE>>, <<"other", "pass", TRUE>>}
=============================================================================
