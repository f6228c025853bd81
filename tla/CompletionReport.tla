-------------------------- MODULE CompletionReport --------------------------
(***************************************************************************)
(* The report that ends the final answer of an ordered slice, and what a   *)
(* run reads off it.                                                       *)
(*                                                                         *)
(* An answer is a sequence of lines. A line is a field of the report, with *)
(* its value in the case of the code once it is trimmed and unquoted, or   *)
(* prose.                                                                  *)
(***************************************************************************)
EXTENDS Naturals, Sequences, FiniteSets, SequencesExt

CONSTANT MaxLines    \* bound on the lines of an answer

ASSUME LinesAssumption == MaxLines \in Nat

Values == [STATUS |-> {"PASS", "PARTIAL", "BLOCKED"}, NEXT_PROMPT_SAFE |-> {"yes", "no"}]

Prose == <<"prose", "any">>
Lines == {Prose} \cup UNION {{key} \X (Values[key] \cup {"other"}) : key \in DOMAIN Values}
Answers == SeqOf(Lines, MaxLines)

\* The lines that are about key.
Fields(answer, key) == {i \in DOMAIN answer : answer[i][1] = key}

\* The last value that is none but well formed wins.
Reported(answer, key) ==
    LET good == {i \in Fields(answer, key) : answer[i][2] \in Values[key]}
    IN  IF good = {} THEN "none" ELSE answer[Max(good)][2]

Duplicate(answer) == \E key \in DOMAIN Values : Cardinality(Fields(answer, key)) > 1
Malformed(answer) ==
    \E key \in DOMAIN Values : \E i \in Fields(answer, key) : answer[i][2] \notin Values[key]

\* Mutant: a field that is reported twice is no error.
AcceptsDuplicates(answer) ==
    /\ ~Malformed(answer)
    /\ Reported(answer, "STATUS") = "PASS"
    /\ Reported(answer, "NEXT_PROMPT_SAFE") = "yes"

\* No completion error.
Accepts(answer) ==
    /\ ~Duplicate(answer)
    /\ ~Malformed(answer)
    /\ answer # <<>>
    /\ Reported(answer, "STATUS") = "PASS"
    /\ Reported(answer, "NEXT_PROMPT_SAFE") = "yes"

\* The worker says that its slice is not done. A field reported twice is read too.
Partial(answer) ==
    /\ Reported(answer, "STATUS") = "PARTIAL"
    /\ Reported(answer, "NEXT_PROMPT_SAFE") = "no"

Passed == {"pass", "pass-disconnect"}

(* How a worker ended, from the exit of its engine, its final answer, and   *)
(* what its log shows: that the runtime lost its client, which is looked    *)
(* for whatever the exit, or that a validation command the slice declares   *)
(* has failed.                                                              *)
Ending(engineFailed, answer, disconnected, checkFailed) ==
    CASE ~engineFailed /\ Accepts(answer) -> IF disconnected THEN "pass-disconnect" ELSE "pass"
      [] engineFailed /\ disconnected -> "disconnect"
      [] ~disconnected /\ Partial(answer) /\ checkFailed -> "partial"
      [] OTHER -> "fail"

Possible ==
    {Ending(e, a, d, c) : e \in BOOLEAN, a \in Answers, d \in BOOLEAN, c \in BOOLEAN}

(* What is to be accepted: a field and its value, exactly once.             *)
Once(answer, key, value) ==
    \E i \in DOMAIN answer :
        /\ answer[i] = <<key, value>>
        /\ \A j \in DOMAIN answer : answer[j][1] = key => j = i

Contract ==
    \A answer \in Answers :
        (\E d, c \in BOOLEAN : Ending(FALSE, answer, d, c) \in Passed) <=>
            Once(answer, "STATUS", "PASS") /\ Once(answer, "NEXT_PROMPT_SAFE", "yes")
=============================================================================
