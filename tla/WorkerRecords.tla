---------------------------- MODULE WorkerRecords ----------------------------
(***************************************************************************)
(* The record of one worker run, worker.json. No lock guards it and it has *)
(* no revision: its launcher, the script that runs the engine, the         *)
(* heartbeats of that script and the commands of operators load it, change *)
(* their copy and save the copy, each in a process of its own. Two steps   *)
(* of a store operation are two steps here, and between them the others go *)
(* on.                                                                     *)
(***************************************************************************)
EXTENDS Naturals

CONSTANTS
    Operators,  \* who may give commands, one at a time each
    Commands,   \* which command may be given by whom in which mode
    Modes,      \* how the script may be started: headless, terminal
    Outcomes,   \* how the engine may end: its exit, its answer, its changes
    Absent      \* no record, and no copy

Processes == {"launcher", "script", "beat"} \cup Operators

ASSUME RecordsAssumption ==
    /\ Operators \cap {"launcher", "script", "beat"} = {}
    /\ Modes \subseteq {"headless", "terminal"}
    /\ Outcomes \subseteq
         {"zero", "other"} \X {"pass", "blocked", "empty", "none"} \X BOOLEAN

VARIABLES
    mode,       \* how the script is started
    declared,   \* whether the prompt declares a gate that may end BLOCKED
    rec,        \* worker.json
    files,      \* whether the other files of its directory are there
    at,         \* the step each process is about to take
    copy,       \* the copy of the record it works on
    loop,       \* whether the heartbeat loop of the script runs
    engine,     \* the process of the engine and how it ended
    result      \* what FinishWorker made of that

vars == <<mode, declared, rec, files, at, copy, loop, engine, result>>

TerminalStatus == {"succeeded", "failed", "cancelled", "launch_failed"}
Answer == {"pass", "blocked", "empty", "none"}

ExitCode == {"none", "zero", "other"}

Record == [status : {"created", "running"} \cup TerminalStatus, exit : ExitCode,
           report : Answer, group : BOOLEAN]

Settled(r) == r # Absent => r.status \in TerminalStatus

\* The engine works in a process group of its own; its answer is "empty" where
\* its output has no final message, and it is legal where the changes it leaves
\* keep to the paths of the prompt.
Engine == [alive : BOOLEAN, exit : ExitCode, answer : Answer, legal : BOOLEAN]

NotStarted == [alive |-> FALSE, exit |-> "none", answer |-> "none", legal |-> TRUE]
Started == [NotStarted EXCEPT !.alive = TRUE]
Broken == [NotStarted EXCEPT !.exit = "other"]

NewRecord == [status |-> "created", exit |-> "none", report |-> "none", group |-> FALSE]

Goto(p, step) == at' = [at EXCEPT ![p] = step]
Drop(p) == copy' = [copy EXCEPT ![p] = Absent]
Take(p) == copy' = [copy EXCEPT ![p] = rec]

fixed == <<mode, declared>>

(* The store: load, decide, save.                                          *)

\* The operations of the store by the steps that perform them. Where the others
\* refuse the record they loaded they leave it alone; a heartbeat saves it as it is.
Beats == {"firstBeat", "lastBeat", "beat"}
Transitions == {"cancel", "complete", "fail", "markFailed"}
Verdict == [cancel |-> "cancelled", complete |-> "succeeded", fail |-> "failed",
            markFailed |-> "failed"]
StoreSteps == Beats \cup Transitions \cup {"setProcess", "clearProcess", "markFinished"}

Refuses(step, r) ==
    \/ step = "clearProcess" /\ ~r.group
    \/ step = "markFinished" /\ r.status \in TerminalStatus
    \/ step \in Transitions /\ r.status # "running"

Finished(r) ==
    [r EXCEPT !.status = IF result.ok THEN "succeeded" ELSE "failed",
              !.exit = IF result.ok THEN "zero" ELSE "other"]

Changed(step, r) ==
    CASE step \in Beats -> r
      [] step = "setProcess" -> [r EXCEPT !.group = TRUE]
      [] step = "clearProcess" -> [r EXCEPT !.group = FALSE]
      [] step = "markFinished" -> Finished(r)
      [] OTHER -> [r EXCEPT !.status = Verdict[step],
                            !.exit = IF step \in {"fail", "markFailed"} THEN "other" ELSE "none"]

\* The first half of an operation: the record is loaded and accepted.
Loads(p) ==
    /\ at[p] \in StoreSteps
    /\ copy[p] = Absent
    /\ rec # Absent
    /\ ~Refuses(at[p], rec)
    /\ Take(p)
    /\ UNCHANGED <<fixed, rec, files, at, loop, engine, result>>

\* The second half. Save makes the directory of the record where it is gone.
Saves(p, next) ==
    /\ at[p] \in StoreSteps
    /\ copy[p] # Absent
    /\ rec' = Changed(at[p], copy[p])
    /\ Drop(p)
    /\ Goto(p, next)

\* The operation ends without a write.
Misses(p) == at[p] \in StoreSteps /\ copy[p] = Absent /\ rec = Absent
Declines(p) ==
    at[p] \in StoreSteps /\ copy[p] = Absent /\ rec # Absent /\ Refuses(at[p], rec)

(* The launcher.                                                           *)

\* Until its status is running nobody else writes the record, so that creating
\* and starting it are single steps.
CreateWorker ==
    /\ at["launcher"] = "create"
    /\ rec' = NewRecord
    /\ files' = TRUE
    /\ Goto("launcher", "start")
    /\ UNCHANGED <<fixed, copy, loop, engine, result>>

\* What is still to be prepared fails, and the record stays as it was created.
BuildFails ==
    /\ at["launcher"] = "start"
    /\ Goto("launcher", "error")
    /\ UNCHANGED <<fixed, rec, files, copy, loop, engine, result>>

\* Mutant: the status starting, which no code gives.
MarkStarting ==
    /\ at["launcher"] = "start"
    /\ rec' = [rec EXCEPT !.status = "starting"]
    /\ Goto("launcher", "reload")
    /\ UNCHANGED <<fixed, files, copy, loop, engine, result>>

MarkStarted ==
    /\ at["launcher"] = "start"
    /\ rec' = [rec EXCEPT !.status = "running"]
    /\ Goto("launcher", "reload")
    /\ UNCHANGED <<fixed, files, copy, loop, engine, result>>

ReloadStarted ==
    /\ at["launcher"] = "reload"
    /\ Take("launcher")
    /\ Goto("launcher", IF rec = Absent THEN "error" ELSE "launch")
    /\ UNCHANGED <<fixed, rec, files, loop, engine, result>>

\* Without its file the script fails at once. A terminal reports that it was
\* started, or that it was not, and may have started it all the same.
Launch ==
    /\ at["launcher"] = "launch"
    /\ \E started \in BOOLEAN, next \in {"blocked", "latest", "undo"} :
        /\ mode = "headless" => started /\ next = "blocked"
        /\ mode = "terminal" => next # "blocked" /\ (started \/ next = "undo")
        /\ at' = [at EXCEPT !["launcher"] = next,
                            !["script"] = IF ~started THEN @
                                          ELSE IF files THEN "firstBeat" ELSE "exited"]
    /\ UNCHANGED <<fixed, rec, files, copy, loop, engine, result>>

\* The copy from before the launch is saved, whatever happened since.
UndoLaunch ==
    /\ at["launcher"] = "undo"
    /\ rec' = [copy["launcher"] EXCEPT !.status = "launch_failed"]
    /\ Goto("launcher", "error")
    /\ UNCHANGED <<fixed, files, copy, loop, engine, result>>

\* A headless launch returns when the script has; the exit code of the script is
\* the error of the launch.
LatestRecord ==
    LET failed == at["launcher"] = "blocked" /\ ~result.ok
        seen == IF rec = Absent THEN copy["launcher"] ELSE rec
    IN  /\ \/ at["launcher"] = "latest"
           \/ at["launcher"] = "blocked" /\ at["script"] = "exited"
        /\ copy' = [copy EXCEPT !["launcher"] = seen]
        /\ Goto("launcher", IF failed THEN "error"
                            ELSE IF Settled(seen) THEN "ended" ELSE "wait")
        /\ UNCHANGED <<fixed, rec, files, loop, engine, result>>

\* Mutant: the poll does not know cancelled.
ForgetfulPoll ==
    /\ at["launcher"] = "wait"
    /\ Settled(rec)
    /\ rec # Absent => rec.status # "cancelled"
    /\ copy' = [copy EXCEPT !["launcher"] = IF rec = Absent THEN @ ELSE rec]
    /\ Goto("launcher", IF rec = Absent THEN "error" ELSE "ended")
    /\ UNCHANGED <<fixed, rec, files, loop, engine, result>>

\* An ordered run polls the record.
WaitPrompt ==
    /\ at["launcher"] = "wait"
    /\ Settled(rec)
    /\ copy' = [copy EXCEPT !["launcher"] = IF rec = Absent THEN @ ELSE rec]
    /\ Goto("launcher", IF rec = Absent THEN "error" ELSE "ended")
    /\ UNCHANGED <<fixed, rec, files, loop, engine, result>>

Launcher ==
    \/ CreateWorker \/ BuildFails \/ MarkStarted \/ ReloadStarted \/ Launch \/ UndoLaunch
    \/ LatestRecord \/ WaitPrompt

(* The script and the engine.                                              *)

After == [firstBeat |-> "engine", setProcess |-> "working", clearProcess |-> "stopLoop",
          lastBeat |-> "finish", markFinished |-> "summarize"]

\* Mutant: the heartbeats go on in a headless script, too.
LoopsAlways(step) == step = "firstBeat"

\* The loop is started after the first heartbeat, by a script in a terminal.
StartsLoop(step) == step = "firstBeat" /\ mode = "terminal"

\* An operation of the store by the script. A heartbeat that misses the record is
\* only a warning.
ScriptStores ==
    /\ at["script"] \in {"firstBeat", "clearProcess", "lastBeat"}
    /\ \/ Loads("script")
       \/ /\ Saves("script", After[at["script"]])
          /\ loop' = (loop \/ StartsLoop(at["script"]))
          /\ UNCHANGED <<fixed, files, engine, result>>
       \/ /\ Misses("script") \/ Declines("script")
          /\ Goto("script", After[at["script"]])
          /\ loop' = (loop \/ StartsLoop(at["script"]))
          /\ UNCHANGED <<fixed, rec, files, copy, engine, result>>

\* ExecuteWorker reads the record, the prompt and the executable.
StartEngine ==
    /\ at["script"] = "engine"
    /\ \/ /\ rec # Absent /\ files
          /\ engine' = Started
          /\ Goto("script", "setProcess")
       \/ /\ engine' = Broken
          /\ Goto("script", "stopLoop")
    /\ UNCHANGED <<fixed, rec, files, copy, loop, result>>

\* Mutant: an engine that cannot be recorded is left running.
LeaveUnowned == engine

\* An engine that cannot be recorded is killed.
KillUnowned == Broken

SetProcess ==
    /\ at["script"] = "setProcess"
    /\ \/ Loads("script")
       \/ /\ Saves("script", After["setProcess"])
          /\ UNCHANGED <<fixed, files, loop, engine, result>>
       \/ /\ Misses("script")
          /\ engine' = KillUnowned
          /\ Goto("script", "stopLoop")
          /\ UNCHANGED <<fixed, rec, files, copy, loop, result>>

\* The engine ends by itself, by a timeout or by a signal. What it does about a
\* signal is its own affair: it may still answer.
EngineEnds ==
    /\ engine.alive
    /\ \E x \in Outcomes :
        engine' = [alive |-> FALSE, exit |-> x[1], answer |-> x[2], legal |-> x[3]]
    /\ UNCHANGED <<fixed, rec, files, at, copy, loop, result>>

WaitEngine ==
    /\ at["script"] = "working"
    /\ ~engine.alive
    /\ Goto("script", "clearProcess")
    /\ UNCHANGED <<fixed, rec, files, copy, loop, engine, result>>

\* The loop is killed; a heartbeat it has started is a process of its own.
StopLoop ==
    /\ at["script"] = "stopLoop"
    /\ loop' = FALSE
    /\ Goto("script", "lastBeat")
    /\ UNCHANGED <<fixed, rec, files, copy, engine, result>>

LoopBeats ==
    /\ \/ loop /\ Loads("beat")
       \/ /\ Saves("beat", "beat")
          /\ UNCHANGED <<fixed, files, loop, engine, result>>

(* FinishWorker.                                                           *)

\* What is read of the output of the engine, as long as its file is there. An
\* exit with zero and no final message is a result, the empty one.
Parsed ==
    LET answer == IF files THEN engine.answer ELSE "none"
    IN  IF engine.exit = "zero" /\ answer = "none" THEN "empty" ELSE answer

\* Mutant: a rejecting answer is a success if the engine exited with zero.
AnyExitZero(answer) == answer \in {"pass", "blocked"}

\* An answer that rejects to go on is a failure unless a gate was declared.
Accepted(answer) == answer = "pass" \/ (answer = "blocked" /\ declared)

FinishWorker ==
    /\ at["script"] = "finish"
    /\ IF rec = Absent
       THEN Goto("script", "exited") /\ UNCHANGED <<copy, result>>
       ELSE /\ result' = [report |-> Parsed,
                          ok |-> engine.exit = "zero" /\ engine.legal /\ Accepted(Parsed)]
            /\ IF Parsed = "none"
               THEN Goto("script", "markFinished") /\ UNCHANGED copy
               ELSE Goto("script", "saveReport") /\ Take("script")
    /\ UNCHANGED <<fixed, rec, files, loop, engine>>

\* Mutant: the copy is saved without the report.
UnsavedReport ==
    /\ at["script"] = "saveReport"
    /\ rec' = copy["script"]
    /\ Drop("script")
    /\ Goto("script", "markFinished")
    /\ UNCHANGED <<fixed, files, loop, engine, result>>

\* The report is saved with the copy that FinishWorker loaded, before the status.
SaveReport ==
    /\ at["script"] = "saveReport"
    /\ rec' = [copy["script"] EXCEPT !.report = result.report]
    /\ Drop("script")
    /\ Goto("script", "markFinished")
    /\ UNCHANGED <<fixed, files, loop, engine, result>>

MarkFinished ==
    /\ at["script"] = "markFinished"
    /\ \/ Loads("script")
       \/ /\ Saves("script", After["markFinished"])
          /\ UNCHANGED <<fixed, files, loop, engine, result>>
       \/ /\ Declines("script")
          /\ Goto("script", After["markFinished"])
          /\ UNCHANGED <<fixed, rec, files, copy, loop, engine, result>>
       \/ /\ Misses("script")
          /\ Goto("script", "exited")
          /\ result' = [result EXCEPT !.ok = FALSE]
          /\ UNCHANGED <<fixed, rec, files, copy, loop, engine>>

\* The record is read once more for the summary; without it the script fails.
Summarize ==
    /\ at["script"] = "summarize"
    /\ result' = [result EXCEPT !.ok = @ /\ rec # Absent]
    /\ Goto("script", "exited")
    /\ UNCHANGED <<fixed, rec, files, copy, loop, engine>>

Script ==
    \/ ScriptStores \/ StartEngine \/ SetProcess \/ WaitEngine \/ StopLoop
    \/ FinishWorker \/ SaveReport \/ MarkFinished \/ Summarize
=============================================================================
