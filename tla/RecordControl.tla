---------------------------- MODULE RecordControl ----------------------------
(***************************************************************************)
(* The commands of operators on the record of a worker run, the system     *)
(* they make up with its launcher and its script, and its properties.      *)
(***************************************************************************)
EXTENDS WorkerRecords

(* Commands.                                                               *)

\* The step with which a command begins.
First == [cancel |-> "look", complete |-> "complete", fail |-> "fail",
          reconcile |-> "inspect", prune |-> "sweep"]

BeginCommand(o) ==
    /\ at[o] = "idle"
    /\ \E c \in DOMAIN First : <<mode, o, c>> \in Commands /\ Goto(o, First[c])
    /\ UNCHANGED <<fixed, rec, files, copy, loop, engine, result>>

\* Cancel reads the process group from a first copy of the record.
LookAtGroup(o) ==
    /\ at[o] = "look"
    /\ Take(o)
    /\ Goto(o, IF rec = Absent THEN "idle" ELSE "kill")
    /\ UNCHANGED <<fixed, rec, files, loop, engine, result>>

\* It goes on when the group is gone, by SIGTERM or in the end by SIGKILL. An
\* engine that is not in its copy is not signalled.
KillGroup(o) ==
    /\ at[o] = "kill"
    /\ copy[o].group => ~engine.alive
    /\ Drop(o)
    /\ Goto(o, "cancel")
    /\ UNCHANGED <<fixed, rec, files, loop, engine, result>>

\* Reconcile lists the records and spares one whose process group lives. How old
\* a record is left open.
Inspect(o) ==
    /\ at[o] = "inspect"
    /\ LET stale == /\ rec # Absent
                    /\ rec.status = "running"
                    /\ ~(rec.group /\ engine.alive)
       IN  Goto(o, IF stale THEN "markFailed" ELSE "idle")
    /\ UNCHANGED <<fixed, rec, files, copy, loop, engine, result>>

CommandStores(o) ==
    \/ /\ at[o] \in Transitions
       /\ Loads(o)
    \/ /\ at[o] \in Transitions
       /\ Saves(o, "idle")
       /\ UNCHANGED <<fixed, files, loop, engine, result>>
    \/ /\ at[o] \in Transitions
       /\ Misses(o) \/ Declines(o)
       /\ Goto(o, "idle")
       /\ UNCHANGED <<fixed, rec, files, copy, loop, engine, result>>

Sweep(o) ==
    /\ at[o] = "sweep"
    /\ Goto(o, IF rec # Absent /\ Settled(rec) THEN "remove" ELSE "idle")
    /\ UNCHANGED <<fixed, rec, files, copy, loop, engine, result>>

\* Prune removes the whole directory, whatever the record says by now.
Remove(o) ==
    /\ at[o] = "remove"
    /\ rec' = Absent
    /\ files' = FALSE
    /\ Goto(o, "idle")
    /\ UNCHANGED <<fixed, copy, loop, engine, result>>

Command(o) ==
    \/ BeginCommand(o) \/ LookAtGroup(o) \/ KillGroup(o) \/ Inspect(o)
    \/ CommandStores(o) \/ Sweep(o) \/ Remove(o)

(* The system.                                                             *)

Init ==
    /\ mode \in Modes
    /\ declared \in BOOLEAN
    /\ rec = Absent
    /\ files = FALSE
    /\ at = [p \in Processes |-> CASE p = "launcher" -> "create"
                                   [] p = "beat" -> "beat"
                                   [] OTHER -> "idle"]
    /\ copy = [p \in Processes |-> Absent]
    /\ loop = FALSE
    /\ engine = NotStarted
    /\ result = [report |-> "none", ok |-> FALSE]

Next == Launcher \/ Script \/ EngineEnds \/ LoopBeats \/ \E o \in Operators : Command(o)

Spec == Init /\ [][Next]_vars

\* Processes go on, and an engine ends: the timeout of the prompt ends it, or
\* whoever watches it.
FairSpec ==
    /\ Spec
    /\ WF_vars(Launcher)
    /\ WF_vars(Script)
    /\ WF_vars(EngineEnds)

(* Properties.                                                             *)

LauncherSteps ==
    {"create", "start", "reload", "launch", "blocked", "latest", "undo", "wait", "ended", "error"}

ScriptSteps ==
    {"idle", "firstBeat", "engine", "setProcess", "working", "clearProcess", "stopLoop",
     "lastBeat", "finish", "saveReport", "markFinished", "summarize", "exited"}

CommandSteps == {"idle", "look", "kill", "inspect", "sweep", "remove"} \cup Transitions

\* Every process is at a step of its own and works on a record or on nothing.
TypeOK ==
    /\ mode \in Modes
    /\ declared \in BOOLEAN
    /\ rec \in Record \cup {Absent}
    /\ files \in BOOLEAN
    /\ DOMAIN at = Processes
    /\ at["launcher"] \in LauncherSteps
    /\ at["script"] \in ScriptSteps
    /\ at["beat"] = "beat"
    /\ \A o \in Operators : at[o] \in CommandSteps
    /\ copy \in [Processes -> Record \cup {Absent}]
    /\ loop \in BOOLEAN
    /\ engine \in Engine
    /\ result \in [report : Answer, ok : BOOLEAN]

\* Whether a record says that its engine succeeded; one that an operator
\* completed by hand has no exit code.
SaysSuccess(r) == r # Absent /\ r.status = "succeeded" /\ r.exit = "zero"

\* A record, or any copy of one, says that the engine succeeded only if it has
\* exited with zero within its paths, and its answer lets the work go on or is the
\* outcome of a gate that the prompt declares, whoever overwrote whom.
SuccessEarned ==
    \A r \in {rec} \cup {copy[p] : p \in Processes} :
        SaysSuccess(r) =>
            /\ ~engine.alive
            /\ engine.exit = "zero"
            /\ engine.legal
            /\ engine.answer = "pass" \/ (engine.answer = "blocked" /\ declared)

\* Ordered runners never observe succeeded with a stale or missing completion
\* report. In a terminal a heartbeat that the loop left behind may undo the report.
ReportFirst == mode = "headless" /\ SaysSuccess(rec) => rec.report = engine.answer

\* When a headless script is over its record is terminal or pruned, and no copy
\* under way brings an open one back.
ScriptSettles == mode = "headless" /\ at["script"] = "exited" => Settled(rec)

\* When a headless launch has returned, nothing of it runs any more: its caller
\* releases the directory to the next run.
NothingLeft == mode = "headless" /\ at["launcher"] \in {"ended", "error"} => ~engine.alive

\* A launch returns and an ordered run goes on, unless a heartbeat that the loop
\* left behind overwrites the record.
WaitEnds ==
    [](copy["beat"] # Absent => loop) => <>(at["launcher"] \in {"ended", "error"})
=============================================================================
