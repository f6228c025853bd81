------------------------- MODULE RecordControl_proofs -------------------------
(***************************************************************************)
(* Proofs about RecordControl, for any number of operators, any commands   *)
(* and any outcomes of the engine.                                         *)
(***************************************************************************)
EXTENDS RecordControl, TLAPS

(* Types.                                                                  *)

\* What the operations of the store write is a record.
LEMMA ChangedType ==
    ASSUME NEW r \in Record, NEW step \in StoreSteps
    PROVE  Changed(step, r) \in Record
<1>1. CASE step \in Beats
  BY <1>1 DEF Changed, Beats
<1>2. CASE step = "setProcess"
  BY <1>2 DEF Changed, Record, Beats
<1>3. CASE step = "clearProcess"
  BY <1>3 DEF Changed, Record, Beats
<1>4. CASE step = "markFinished"
  BY <1>4 DEF Changed, Finished, Record, Beats, TerminalStatus, ExitCode
<1>5. CASE step \in Transitions
  <2>1. Verdict[step] \in TerminalStatus
    BY <1>5 DEF Verdict, Transitions, TerminalStatus
  <2>2. Changed(step, r) = [r EXCEPT !.status = Verdict[step],
           !.exit = IF step \in {"fail", "markFailed"} THEN "other" ELSE "none"]
    BY <1>5 DEF Changed, Beats, Transitions
  <2> QED
    BY <2>1, <2>2 DEF Record, ExitCode
<1> QED
  BY <1>1, <1>2, <1>3, <1>4, <1>5 DEF StoreSteps

\* A process at a step of its own takes, drops or saves a copy.
LEMMA TakeType ==
    ASSUME TypeOK, NEW p \in Processes, Take(p)
    PROVE  copy' \in [Processes -> Record \cup {Absent}]
BY DEF TypeOK, Take

\* A copy that is dropped leaves the others as they are.
LEMMA DropType ==
    ASSUME TypeOK, NEW p \in Processes, Drop(p)
    PROVE  copy' \in [Processes -> Record \cup {Absent}]
BY DEF TypeOK, Drop

\* Whoever saves, what he saves is a record.
LEMMA SavesType ==
    ASSUME TypeOK, NEW p \in Processes, NEW next, Saves(p, next)
    PROVE  /\ copy' \in [Processes -> Record \cup {Absent}]
           /\ rec' \in Record
<1>1. copy[p] \in Record /\ at[p] \in StoreSteps
  BY DEF TypeOK, Saves
<1>2. rec' \in Record
  BY <1>1, ChangedType DEF Saves
<1> QED
  BY <1>2, DropType DEF Saves

\* A step of one process leaves the others where they are.
LEMMA GotoLauncher ==
    ASSUME TypeOK, NEW next \in LauncherSteps, Goto("launcher", next)
    PROVE  /\ DOMAIN at' = Processes
           /\ at'["launcher"] \in LauncherSteps
           /\ at'["script"] = at["script"]
           /\ at'["beat"] = "beat"
           /\ \A o \in Operators : at'[o] \in CommandSteps
BY RecordsAssumption DEF TypeOK, Goto, Processes

\* The same for the script,
LEMMA GotoScript ==
    ASSUME TypeOK, NEW next \in ScriptSteps, Goto("script", next)
    PROVE  /\ DOMAIN at' = Processes
           /\ at'["launcher"] = at["launcher"]
           /\ at'["script"] = next
           /\ at'["beat"] = "beat"
           /\ \A o \in Operators : at'[o] \in CommandSteps
BY RecordsAssumption DEF TypeOK, Goto, Processes

\* and for an operator.
LEMMA GotoCommand ==
    ASSUME TypeOK, NEW o \in Operators, NEW next \in CommandSteps, Goto(o, next)
    PROVE  /\ DOMAIN at' = Processes
           /\ at'["launcher"] = at["launcher"]
           /\ at'["script"] = at["script"]
           /\ at'["beat"] = "beat"
           /\ \A q \in Operators : at'[q] \in CommandSteps
BY RecordsAssumption DEF TypeOK, Goto, Processes

\* Loading changes nothing but a copy.
LEMMA LoadsType ==
    ASSUME TypeOK, NEW p \in Processes, Loads(p)
    PROVE  TypeOK'
<1>1. copy' \in [Processes -> Record \cup {Absent}]
  BY TakeType DEF Loads
<1> QED
  BY <1>1 DEF TypeOK, Loads, fixed

(* The types as an inductive invariant.                                    *)

\* Before the launch there is no script.
Unlaunched ==
    at["launcher"] \in {"create", "start", "reload", "launch"} => at["script"] = "idle"

\* Before MarkStarted nobody else gets to write the record.
Untouched ==
    /\ at["launcher"] = "create" => rec = Absent
    /\ at["launcher"] = "start" => rec = NewRecord
    /\ at["launcher"] \in {"create", "start"} =>
         \A o \in Operators : at[o] # "remove" /\ (at[o] # "kill" => copy[o] = Absent)

\* The heartbeats are those of a script.
NoLoop == at["script"] = "idle" => ~loop /\ copy["beat"] = Absent

\* What is saved was loaded.
Loaded ==
    /\ at["launcher"] \in {"launch", "undo"} => copy["launcher"] # Absent
    /\ at["script"] = "saveReport" => copy["script"] # Absent

TypeInv == TypeOK /\ Unlaunched /\ Untouched /\ NoLoop /\ Loaded

\* At first nothing is launched, loaded or written.
LEMMA InitTypeInv ==
    ASSUME Init
    PROVE  TypeInv
<1>1. /\ at["launcher"] = "create" /\ at["script"] = "idle" /\ at["beat"] = "beat"
      /\ DOMAIN at = Processes
      /\ \A o \in Operators : at[o] = "idle"
  BY RecordsAssumption DEF Init, Processes
<1>2. copy \in [Processes -> Record \cup {Absent}] /\ \A p \in Processes : copy[p] = Absent
  BY DEF Init
<1>3. TypeOK
  BY <1>1, <1>2 DEF Init, TypeOK, LauncherSteps, ScriptSteps, CommandSteps, Engine,
     NotStarted, ExitCode, Answer
<1> QED
  BY <1>1, <1>2, <1>3 DEF Init, TypeInv, Unlaunched, Untouched, NoLoop, Loaded, Processes

\* The steps of the launcher keep the types: what it starts is the record it
\* created, what it undoes the copy it loaded.
LEMMA LauncherKeeps ==
    ASSUME TypeInv, Launcher
    PROVE  TypeInv'
<1> USE DEF LauncherSteps, TypeInv
<1>p. "launcher" \in Processes /\ "script" \in Processes /\ "beat" \in Processes
      /\ Operators \subseteq Processes
      /\ \A o \in Operators : o # "launcher" /\ o # "script" /\ o # "beat"
  BY RecordsAssumption DEF Processes
<1>1. CASE CreateWorker
  <2>1. rec' \in Record
    BY <1>1 DEF CreateWorker, NewRecord, Record, ExitCode, Answer, TerminalStatus
  <2>2. TypeOK'
    BY <1>1, <2>1, GotoLauncher DEF CreateWorker, TypeOK, fixed
  <2> QED
    BY <1>1, <1>p, <2>2 DEF CreateWorker, Goto, TypeOK, Unlaunched, Untouched, NoLoop, Loaded
<1>2. CASE BuildFails
  <2>1. TypeOK'
    BY <1>2, GotoLauncher DEF BuildFails, TypeOK, fixed
  <2> QED
    BY <1>2, <1>p, <2>1 DEF BuildFails, Goto, TypeOK, Unlaunched, Untouched, NoLoop, Loaded
<1>3. CASE MarkStarted
  <2>0. rec = NewRecord /\ NewRecord \in Record
    BY <1>3 DEF MarkStarted, Untouched, NewRecord, Record, ExitCode, Answer, TerminalStatus
  <2>1. rec' \in Record
    BY <1>3, <2>0 DEF MarkStarted, Record
  <2>2. TypeOK'
    BY <1>3, <2>1, GotoLauncher DEF MarkStarted, TypeOK, fixed
  <2> QED
    BY <1>3, <1>p, <2>2 DEF MarkStarted, Goto, TypeOK, Unlaunched, Untouched, NoLoop, Loaded
<1>4. CASE ReloadStarted
  <2>1. copy' \in [Processes -> Record \cup {Absent}]
    BY <1>4, <1>p, TakeType DEF ReloadStarted
  <2>2. TypeOK'
    BY <1>4, <2>1, GotoLauncher DEF ReloadStarted, TypeOK, fixed
  <2> QED
    BY <1>4, <1>p, <2>2
       DEF ReloadStarted, Take, Goto, TypeOK, Unlaunched, Untouched, NoLoop, Loaded
<1>5. CASE Launch
  <2>1. PICK started \in BOOLEAN, next \in {"blocked", "latest", "undo"} :
          at' = [at EXCEPT !["launcher"] = next,
                           !["script"] = IF ~started THEN @
                                         ELSE IF files THEN "firstBeat" ELSE "exited"]
    BY <1>5 DEF Launch
  <2>2. TypeOK'
    BY <1>5, <1>p, <2>1 DEF Launch, TypeOK, fixed, ScriptSteps
  <2> QED
    BY <1>5, <1>p, <2>1, <2>2 DEF Launch, TypeOK, Unlaunched, Untouched, NoLoop, Loaded
<1>6. CASE UndoLaunch
  <2>1. copy["launcher"] \in Record
    BY <1>6, <1>p DEF UndoLaunch, Loaded, TypeOK
  <2>2. rec' \in Record
    BY <1>6, <2>1 DEF UndoLaunch, Record, TerminalStatus
  <2>3. TypeOK'
    BY <1>6, <2>2, GotoLauncher DEF UndoLaunch, TypeOK, fixed
  <2> QED
    BY <1>6, <1>p, <2>3 DEF UndoLaunch, Goto, TypeOK, Unlaunched, Untouched, NoLoop, Loaded
<1>7. CASE LatestRecord
  <2>1. /\ copy' = [copy EXCEPT !["launcher"] = IF rec = Absent THEN copy["launcher"] ELSE rec]
        /\ \E next \in {"error", "ended", "wait"} : Goto("launcher", next)
    BY <1>7 DEF LatestRecord
  <2>2. copy' \in [Processes -> Record \cup {Absent}]
    BY <1>p, <2>1 DEF TypeOK
  <2>3. TypeOK'
    BY <1>7, <2>1, <2>2, GotoLauncher DEF LatestRecord, TypeOK, fixed
  <2> QED
    BY <1>7, <1>p, <2>1, <2>3
       DEF LatestRecord, Goto, TypeOK, Unlaunched, Untouched, NoLoop, Loaded
<1>8. CASE WaitPrompt
  <2>1. /\ copy' = [copy EXCEPT !["launcher"] = IF rec = Absent THEN copy["launcher"] ELSE rec]
        /\ \E next \in {"error", "ended"} : Goto("launcher", next)
    BY <1>8 DEF WaitPrompt
  <2>2. copy' \in [Processes -> Record \cup {Absent}]
    BY <1>p, <2>1 DEF TypeOK
  <2>3. TypeOK'
    BY <1>8, <2>1, <2>2, GotoLauncher DEF WaitPrompt, TypeOK, fixed
  <2> QED
    BY <1>8, <1>p, <2>1, <2>3
       DEF WaitPrompt, Goto, TypeOK, Unlaunched, Untouched, NoLoop, Loaded
<1> QED
  BY <1>1, <1>2, <1>3, <1>4, <1>5, <1>6, <1>7, <1>8 DEF Launcher

\* So do those of the script, which begins when the launcher is past its writes.
LEMMA ScriptKeeps ==
    ASSUME TypeInv, Script
    PROVE  TypeInv'
<1> USE DEF TypeInv, Unlaunched, Untouched, NoLoop, Loaded
<1>p. "launcher" \in Processes /\ "script" \in Processes /\ "beat" \in Processes
      /\ Operators \subseteq Processes
      /\ \A o \in Operators : o # "launcher" /\ o # "script" /\ o # "beat"
  BY RecordsAssumption DEF Processes
<1>a. /\ DOMAIN After = {"firstBeat", "setProcess", "clearProcess", "lastBeat", "markFinished"}
      /\ \A step \in DOMAIN After : After[step] \in ScriptSteps \ {"idle", "saveReport"}
  BY DEF After, ScriptSteps
<1>m. ASSUME at["script"] # "idle", TypeOK',
             \E next \in ScriptSteps \ {"idle", "saveReport"} : Goto("script", next),
             copy'["launcher"] = copy["launcher"]
      PROVE  TypeInv'
  BY <1>m, <1>p DEF Goto, TypeOK
<1>l. ASSUME Loads("script"), at["script"] # "idle"
      PROVE  TypeInv'
  BY <1>l, <1>p, LoadsType DEF Loads, Take, TypeOK
<1>s. ASSUME NEW next \in ScriptSteps \ {"idle", "saveReport"}, Saves("script", next),
             at["script"] # "idle",
             loop' \in BOOLEAN, UNCHANGED <<fixed, files, engine, result>>
      PROVE  TypeInv'
  <2>1. TypeOK'
    BY <1>s, <1>p, SavesType, GotoScript DEF Saves, TypeOK, fixed
  <2> QED
    BY <1>s, <1>m, <1>p, <2>1 DEF Saves, Drop, TypeOK
<1>1. CASE ScriptStores
  <2>1. at["script"] \in DOMAIN After /\ at["script"] # "idle"
    BY <1>1, <1>a DEF ScriptStores
  <2>2. After[at["script"]] \in ScriptSteps \ {"idle", "saveReport"}
    BY <2>1, <1>a
  <2>3. CASE Loads("script")
    BY <2>1, <2>3, <1>l
  <2>4. CASE /\ Saves("script", After[at["script"]])
             /\ loop' = (loop \/ StartsLoop(at["script"]))
             /\ UNCHANGED <<fixed, files, engine, result>>
    BY <2>1, <2>2, <2>4, <1>s
  <2>5. CASE /\ Goto("script", After[at["script"]])
             /\ loop' = (loop \/ StartsLoop(at["script"]))
             /\ UNCHANGED <<fixed, rec, files, copy, engine, result>>
    <3>1. TypeOK'
      BY <2>2, <2>5, GotoScript DEF TypeOK, fixed
    <3> QED
      BY <2>1, <2>2, <2>5, <3>1, <1>m
  <2> QED
    BY <1>1, <2>3, <2>4, <2>5 DEF ScriptStores
<1>2. CASE StartEngine
  <2>1. TypeOK'
    BY <1>2, GotoScript DEF StartEngine, TypeOK, fixed, ScriptSteps, Engine, Started, Broken,
       NotStarted, ExitCode, Answer
  <2> QED
    BY <1>2, <1>m, <2>1 DEF StartEngine, ScriptSteps
<1>3. CASE SetProcess
  <2>1. CASE Loads("script")
    BY <1>3, <2>1, <1>l DEF SetProcess
  <2>2. CASE /\ Saves("script", After["setProcess"])
             /\ UNCHANGED <<fixed, files, loop, engine, result>>
    BY <1>3, <2>2, <1>a, <1>s DEF SetProcess, TypeOK
  <2>3. CASE /\ engine' = KillUnowned
             /\ Goto("script", "stopLoop")
             /\ UNCHANGED <<fixed, rec, files, copy, loop, result>>
    <3>1. TypeOK'
      BY <2>3, GotoScript DEF TypeOK, fixed, ScriptSteps, Engine, KillUnowned, Broken,
         NotStarted, ExitCode, Answer
    <3> QED
      BY <1>3, <2>3, <1>m, <3>1 DEF SetProcess, ScriptSteps
  <2> QED
    BY <1>3, <2>1, <2>2, <2>3 DEF SetProcess
<1>4. CASE WaitEngine
  <2>1. TypeOK'
    BY <1>4, GotoScript DEF WaitEngine, TypeOK, fixed, ScriptSteps
  <2> QED
    BY <1>4, <1>m, <2>1 DEF WaitEngine, ScriptSteps
<1>5. CASE StopLoop
  <2>1. TypeOK'
    BY <1>5, GotoScript DEF StopLoop, TypeOK, fixed, ScriptSteps
  <2> QED
    BY <1>5, <1>m, <2>1 DEF StopLoop, ScriptSteps
<1>6. CASE FinishWorker
  <2>1. CASE rec = Absent
    <3>1. TypeOK'
      BY <1>6, <2>1, GotoScript DEF FinishWorker, TypeOK, fixed, ScriptSteps
    <3> QED
      BY <1>6, <1>m, <2>1, <3>1 DEF FinishWorker, ScriptSteps
  <2>2. CASE rec # Absent
    <3>1. Parsed \in Answer
      BY DEF Parsed, TypeOK, Engine, Answer
    <3>2. result' \in [report : Answer, ok : BOOLEAN]
      <4>1. PICK b \in BOOLEAN : result' = [report |-> Parsed, ok |-> b]
        BY <1>6, <2>2, Zenon DEF FinishWorker
      <4> QED
        BY <3>1, <4>1
    <3>3. CASE Goto("script", "markFinished") /\ UNCHANGED copy
      <4>1. TypeOK'
        BY <1>6, <3>2, <3>3, GotoScript DEF FinishWorker, TypeOK, fixed, ScriptSteps
      <4> QED
        BY <1>6, <1>m, <3>3, <4>1 DEF FinishWorker, ScriptSteps
    <3>4. CASE Goto("script", "saveReport") /\ Take("script")
      <4>1. TypeOK'
        BY <1>6, <1>p, <3>2, <3>4, TakeType, GotoScript
           DEF FinishWorker, TypeOK, fixed, ScriptSteps
      <4> QED
        BY <1>6, <1>p, <2>2, <3>4, <4>1 DEF FinishWorker, Goto, Take, TypeOK
    <3> QED
      BY <1>6, <2>2, <3>3, <3>4 DEF FinishWorker
  <2> QED
    BY <2>1, <2>2
<1>7. CASE SaveReport
  <2>1. copy["script"] \in Record /\ result.report \in Answer
    BY <1>7, <1>p DEF SaveReport, TypeOK
  <2>2. rec' \in Record
    BY <1>7, <2>1 DEF SaveReport, Record
  <2>3. TypeOK'
    BY <1>7, <1>p, <2>2, DropType, GotoScript DEF SaveReport, TypeOK, fixed, ScriptSteps
  <2> QED
    BY <1>7, <1>p, <1>m, <2>3 DEF SaveReport, Drop, ScriptSteps, TypeOK
<1>8. CASE MarkFinished
  <2>1. CASE Loads("script")
    BY <1>8, <2>1, <1>l DEF MarkFinished
  <2>2. CASE /\ Saves("script", After["markFinished"])
             /\ UNCHANGED <<fixed, files, loop, engine, result>>
    BY <1>8, <2>2, <1>a, <1>s DEF MarkFinished, TypeOK
  <2>3. CASE /\ Goto("script", After["markFinished"])
             /\ UNCHANGED <<fixed, rec, files, copy, loop, engine, result>>
    <3>0. After["markFinished"] \in ScriptSteps \ {"idle", "saveReport"}
      BY <1>a
    <3>1. TypeOK'
      BY <2>3, <3>0, GotoScript DEF TypeOK, fixed
    <3> QED
      BY <1>8, <2>3, <1>m, <3>0, <3>1 DEF MarkFinished
  <2>4. CASE /\ Goto("script", "exited")
             /\ result' = [result EXCEPT !.ok = FALSE]
             /\ UNCHANGED <<fixed, rec, files, copy, loop, engine>>
    <3>1. TypeOK'
      BY <2>4, GotoScript DEF TypeOK, fixed, ScriptSteps
    <3> QED
      BY <1>8, <2>4, <1>m, <3>1 DEF MarkFinished, ScriptSteps
  <2> QED
    BY <1>8, <2>1, <2>2, <2>3, <2>4 DEF MarkFinished
<1>9. CASE Summarize
  <2>1. result' \in [report : Answer, ok : BOOLEAN]
    BY <1>9 DEF Summarize, TypeOK
  <2>2. TypeOK'
    BY <1>9, <2>1, GotoScript DEF Summarize, TypeOK, fixed, ScriptSteps
  <2> QED
    BY <1>9, <1>m, <2>2 DEF Summarize, ScriptSteps
<1> QED
  BY <1>1, <1>2, <1>3, <1>4, <1>5, <1>6, <1>7, <1>8, <1>9 DEF Script

\* So does a heartbeat: there is none before there is a script.
LEMMA BeatKeeps ==
    ASSUME TypeInv, LoopBeats
    PROVE  TypeInv'
<1> USE DEF TypeInv, Unlaunched, Untouched, NoLoop, Loaded
<1>p. "launcher" \in Processes /\ "script" \in Processes /\ "beat" \in Processes
      /\ Operators \subseteq Processes
      /\ \A o \in Operators : o # "launcher" /\ o # "script" /\ o # "beat"
  BY RecordsAssumption DEF Processes
<1>1. CASE loop /\ Loads("beat")
  BY <1>1, <1>p, LoadsType DEF Loads, Take, TypeOK
<1>2. CASE Saves("beat", "beat") /\ UNCHANGED <<fixed, files, loop, engine, result>>
  <2>1. DOMAIN at' = Processes /\ \A p \in Processes : at'[p] = at[p]
    BY <1>2, <1>p DEF Saves, Goto, TypeOK
  <2>2. TypeOK'
    BY <1>2, <1>p, <2>1, SavesType DEF TypeOK, fixed
  <2> QED
    BY <1>2, <1>p, <2>1, <2>2 DEF Saves, Drop, TypeOK
<1> QED
  BY <1>1, <1>2 DEF LoopBeats

\* So does the end of the engine, whatever its outcome.
LEMMA EngineKeeps ==
    ASSUME TypeInv, EngineEnds
    PROVE  TypeInv'
<1>1. engine' \in Engine
  <2>1. PICK x \in Outcomes :
          engine' = [alive |-> FALSE, exit |-> x[1], answer |-> x[2], legal |-> x[3]]
    BY DEF EngineEnds
  <2>2. x \in {"zero", "other"} \X {"pass", "blocked", "empty", "none"} \X BOOLEAN
    BY RecordsAssumption
  <2> QED
    BY <2>1, <2>2 DEF Engine, ExitCode, Answer
<1> QED
  BY <1>1 DEF EngineEnds, TypeInv, TypeOK, Unlaunched, Untouched, NoLoop, Loaded, fixed

\* So does a command: on a record that is only created it writes nothing.
LEMMA CommandKeeps ==
    ASSUME TypeInv, NEW o \in Operators, Command(o)
    PROVE  TypeInv'
<1> USE DEF TypeInv, Unlaunched, Untouched, NoLoop, Loaded
<1>p. "launcher" \in Processes /\ "script" \in Processes /\ "beat" \in Processes
      /\ o \in Processes /\ Operators \subseteq Processes
      /\ \A q \in Operators : q # "launcher" /\ q # "script" /\ q # "beat"
  BY RecordsAssumption DEF Processes
<1>f. \A c \in DOMAIN First : First[c] \in CommandSteps \ {"remove"}
  BY DEF First, CommandSteps, Transitions
<1>1. CASE BeginCommand(o)
  <2>1. PICK c \in DOMAIN First : Goto(o, First[c])
    BY <1>1 DEF BeginCommand
  <2>2. TypeOK'
    BY <1>1, <1>f, <2>1, GotoCommand DEF BeginCommand, TypeOK, fixed
  <2> QED
    BY <1>1, <1>p, <1>f, <2>1, <2>2 DEF BeginCommand, Goto, TypeOK
<1>2. CASE LookAtGroup(o)
  <2>1. /\ copy' = [copy EXCEPT ![o] = rec]
        /\ \E next \in {"idle", "kill"} : Goto(o, next)
        /\ rec = Absent => Goto(o, "idle")
        /\ rec # Absent => Goto(o, "kill")
    BY <1>2 DEF LookAtGroup, Take
  <2>2. TypeOK'
    BY <1>2, <1>p, <2>1, TakeType, GotoCommand DEF LookAtGroup, TypeOK, fixed, CommandSteps
  <2> QED
    BY <1>2, <1>p, <2>1, <2>2 DEF LookAtGroup, Goto, TypeOK
<1>3. CASE KillGroup(o)
  <2>1. TypeOK'
    BY <1>3, <1>p, DropType, GotoCommand DEF KillGroup, TypeOK, fixed, CommandSteps, Transitions
  <2> QED
    BY <1>3, <1>p, <2>1 DEF KillGroup, Drop, Goto, TypeOK
<1>4. CASE Inspect(o)
  <2>1. /\ \E next \in {"idle", "markFailed"} : Goto(o, next)
        /\ UNCHANGED <<fixed, rec, files, copy, loop, engine, result>>
    BY <1>4 DEF Inspect
  <2>2. TypeOK'
    BY <2>1, GotoCommand DEF TypeOK, fixed, CommandSteps, Transitions
  <2> QED
    BY <1>4, <1>p, <2>1, <2>2 DEF Inspect, Goto, TypeOK
<1>5. CASE CommandStores(o)
  <2>1. CASE at[o] \in Transitions /\ Loads(o)
    <3>1. TypeOK'
      BY <1>p, <2>1, LoadsType
    <3>2. at["launcher"] \notin {"create", "start"}
      BY <2>1 DEF Loads, Refuses, NewRecord
    <3> QED
      BY <1>p, <2>1, <3>1, <3>2 DEF Loads, Take, TypeOK
  <2>2. CASE /\ at[o] \in Transitions /\ Saves(o, "idle")
             /\ UNCHANGED <<fixed, files, loop, engine, result>>
    <3>1. TypeOK'
      BY <1>p, <2>2, SavesType, GotoCommand DEF Saves, TypeOK, fixed, CommandSteps
    <3>2. at["launcher"] \notin {"create", "start"}
      BY <2>2 DEF Saves, Transitions
    <3> QED
      BY <1>p, <2>2, <3>1, <3>2 DEF Saves, Drop, Goto, TypeOK
  <2>3. CASE /\ at[o] \in Transitions /\ Goto(o, "idle")
             /\ UNCHANGED <<fixed, rec, files, copy, loop, engine, result>>
    <3>1. TypeOK'
      BY <2>3, GotoCommand DEF TypeOK, fixed, CommandSteps
    <3> QED
      BY <1>p, <2>3, <3>1 DEF Transitions, Goto, TypeOK
  <2> QED
    BY <1>5, <2>1, <2>2, <2>3 DEF CommandStores
<1>6. CASE Sweep(o)
  <2>1. /\ \E next \in {"idle", "remove"} : Goto(o, next)
        /\ rec = Absent \/ ~Settled(rec) => Goto(o, "idle")
        /\ UNCHANGED <<fixed, rec, files, copy, loop, engine, result>>
    BY <1>6 DEF Sweep
  <2>2. TypeOK'
    BY <2>1, GotoCommand DEF TypeOK, fixed, CommandSteps
  <2>3. at["launcher"] \in {"create", "start"} => Goto(o, "idle")
    BY <2>1 DEF Settled, TerminalStatus, NewRecord
  <2> QED
    BY <1>6, <1>p, <2>1, <2>2, <2>3 DEF Sweep, Goto, TypeOK
<1>7. CASE Remove(o)
  <2>1. TypeOK'
    BY <1>7, GotoCommand DEF Remove, TypeOK, fixed, CommandSteps
  <2> QED
    BY <1>7, <1>p, <2>1 DEF Remove, Goto, TypeOK
<1> QED
  BY <1>1, <1>2, <1>3, <1>4, <1>5, <1>6, <1>7 DEF Command

\* So does a step of somebody else.
LEMMA StutterKeeps ==
    ASSUME TypeInv, UNCHANGED vars
    PROVE  TypeInv'
BY DEF vars, TypeInv, TypeOK, Unlaunched, Untouched, NoLoop, Loaded

\* The types hold.
LEMMA TypeInvHolds == Spec => []TypeInv
<1>1. TypeInv /\ [Next]_vars => TypeInv'
  BY LauncherKeeps, ScriptKeeps, BeatKeeps, EngineKeeps, CommandKeeps, StutterKeeps DEF Next
<1> QED
  BY InitTypeInv, <1>1, PTL DEF Spec

\* Each process is at a step of its own and works on a record or on nothing: what
\* the launcher starts, undoes and a script saves has always been created or loaded.
THEOREM RecordTypeCorrect == Spec => []TypeOK
BY TypeInvHolds, PTL DEF TypeInv

(* Success.                                                                *)

\* The engine has earned it.
Earned ==
    /\ ~engine.alive
    /\ engine.exit = "zero"
    /\ engine.legal
    /\ engine.answer = "pass" \/ (engine.answer = "blocked" /\ declared)

\* No record and no copy says so.
Clean == ~SaysSuccess(rec) /\ \A p \in Processes : ~SaysSuccess(copy[p])

Decided == {"saveReport", "markFinished", "summarize", "exited"}
Published == {"summarize", "exited"}

\* FinishWorker decides when the engine is over; only MarkFinished publishes.
SuccessInv ==
    /\ engine.alive => engine.exit = "none"
    /\ result.ok => Earned /\ at["script"] \in Decided
    /\ Clean \/ (Earned /\ at["script"] \in Published)

\* What most steps do: they decide and publish nothing.
Quiet ==
    /\ Clean => Clean'
    /\ UNCHANGED <<engine, declared>>
    /\ result'.ok => result.ok
    /\ at["script"] \in Decided => at'["script"] \in Decided
    /\ at["script"] \in Published => at'["script"] \in Published

\* A quiet step keeps the invariant.
LEMMA QuietKeeps ==
    ASSUME SuccessInv, Quiet
    PROVE  SuccessInv'
BY DEF SuccessInv, Quiet, Earned

\* No operation but MarkFinished makes a record say that its engine succeeded.
LEMMA ChangedEchoes ==
    ASSUME NEW r \in Record, NEW step \in StoreSteps, step # "markFinished",
           ~SaysSuccess(r), r # Absent
    PROVE  ~SaysSuccess(Changed(step, r))
<1>1. CASE step \in Beats
  BY <1>1 DEF Changed, Beats
<1>2. CASE step = "setProcess"
  BY <1>2 DEF Changed, Record, Beats, SaysSuccess
<1>3. CASE step = "clearProcess"
  BY <1>3 DEF Changed, Record, Beats, SaysSuccess
<1>4. CASE step \in Transitions
  <2>1. Changed(step, r) = [r EXCEPT !.status = Verdict[step],
           !.exit = IF step \in {"fail", "markFailed"} THEN "other" ELSE "none"]
    BY <1>4 DEF Changed, Beats, Transitions
  <2>2. Changed(step, r).exit # "zero"
    BY <2>1 DEF Record
  <2> QED
    BY <2>2 DEF SaysSuccess
<1> QED
  BY <1>1, <1>2, <1>3, <1>4 DEF StoreSteps

\* Hence nobody else saves a success that was not there,
LEMMA SavesEchoes ==
    ASSUME TypeOK, NEW p \in Processes, NEW next, Saves(p, next), at[p] # "markFinished", Clean
    PROVE  Clean'
<1>1. copy[p] \in Record /\ copy[p] # Absent /\ at[p] \in StoreSteps /\ ~SaysSuccess(copy[p])
  BY DEF TypeOK, Saves, Clean
<1>2. ~SaysSuccess(rec')
  BY <1>1, ChangedEchoes DEF Saves
<1>3. \A q \in Processes : copy'[q] \in {copy[q], Absent}
  BY DEF Saves, Drop, TypeOK
<1> QED
  BY <1>2, <1>3 DEF Clean, SaysSuccess

\* and what is loaded is as clean as the record.
LEMMA TakeEchoes ==
    ASSUME TypeOK, NEW p \in Processes, Take(p), UNCHANGED rec, Clean
    PROVE  Clean'
<1>1. \A q \in Processes : copy'[q] \in {copy[q], rec}
  BY DEF Take, TypeOK
<1> QED
  BY <1>1 DEF Clean, SaysSuccess

\* The launcher writes running or launch_failed and reads the rest.
LEMMA LauncherEarns ==
    ASSUME TypeInv, SuccessInv, Launcher
    PROVE  SuccessInv'
<1> USE DEF TypeInv
<1>p. "launcher" \in Processes /\ "script" \in Processes
  BY DEF Processes
<1>q. ASSUME \/ at'["script"] = at["script"]
             \/ at["script"] \notin Decided,
             Clean => Clean', UNCHANGED <<engine, declared, result>>
      PROVE  SuccessInv'
  BY <1>q, QuietKeeps DEF Quiet, Decided, Published
<1>1. CASE CreateWorker \/ BuildFails \/ MarkStarted
  <2>1. at'["script"] = at["script"]
    BY <1>1, GotoLauncher DEF CreateWorker, BuildFails, MarkStarted, LauncherSteps
  <2>2. rec' = rec \/ rec'.status \in {"created", "running"}
    BY <1>1 DEF CreateWorker, BuildFails, MarkStarted, NewRecord, Untouched, Record
  <2>3. Clean => Clean'
    BY <1>1, <2>2 DEF CreateWorker, BuildFails, MarkStarted, Clean, SaysSuccess
  <2> QED
    BY <1>1, <1>q, <2>1, <2>3 DEF CreateWorker, BuildFails, MarkStarted, fixed
<1>2. CASE ReloadStarted
  <2>1. at'["script"] = at["script"]
    BY <1>2, GotoLauncher DEF ReloadStarted, LauncherSteps
  <2> QED
    BY <1>2, <1>p, <1>q, <2>1, TakeEchoes DEF ReloadStarted, fixed
<1>3. CASE Launch
  <2>1. at["script"] = "idle"
    BY <1>3 DEF Launch, Unlaunched
  <2> QED
    BY <1>3, <1>q, <2>1 DEF Launch, fixed, Clean, Decided
<1>4. CASE UndoLaunch
  <2>1. at'["script"] = at["script"]
    BY <1>4, GotoLauncher DEF UndoLaunch, LauncherSteps
  <2>2. rec'.status = "launch_failed"
    BY <1>4, <1>p DEF UndoLaunch, Loaded, TypeOK, Record
  <2> QED
    BY <1>4, <1>q, <2>1, <2>2 DEF UndoLaunch, fixed, Clean, SaysSuccess
<1>5. CASE LatestRecord \/ WaitPrompt
  <2>1. /\ copy' = [copy EXCEPT !["launcher"] = IF rec = Absent THEN copy["launcher"] ELSE rec]
        /\ \E next \in {"error", "ended", "wait"} : Goto("launcher", next)
        /\ UNCHANGED <<mode, declared, rec, files, loop, engine, result>>
    BY <1>5 DEF LatestRecord, WaitPrompt, fixed
  <2>2. at'["script"] = at["script"]
    BY <2>1, GotoLauncher DEF LauncherSteps
  <2>3. \A q \in Processes : copy'[q] \in {copy[q], rec}
    BY <2>1 DEF TypeOK
  <2> QED
    BY <1>q, <2>1, <2>2, <2>3 DEF Clean, SaysSuccess
<1> QED
  BY <1>1, <1>2, <1>3, <1>4, <1>5 DEF Launcher

\* The script decides when the engine is over, and publishes what it decided.
LEMMA ScriptEarns ==
    ASSUME TypeInv, SuccessInv, Script
    PROVE  SuccessInv'
<1> USE DEF TypeInv
<1>p. "script" \in Processes
  BY DEF Processes
<1>a. After \in [{"firstBeat", "setProcess", "clearProcess", "lastBeat", "markFinished"}
               -> ScriptSteps]
  BY DEF After, ScriptSteps
<1>q. ASSUME at["script"] \notin Decided, Clean => Clean',
             UNCHANGED <<engine, declared, result>>
      PROVE  SuccessInv'
  BY <1>q, QuietKeeps DEF Quiet, Decided, Published
<1>l. ASSUME Loads("script")
      PROVE  SuccessInv'
  BY <1>l, <1>p, QuietKeeps, TakeEchoes DEF Loads, Quiet, fixed
<1>e. ASSUME at["script"] \notin Decided, UNCHANGED <<declared, result, rec, copy>>,
             engine'.alive => engine'.exit = "none"
      PROVE  SuccessInv'
  BY <1>e DEF SuccessInv, Clean, Decided, Published, SaysSuccess
<1>1. CASE ScriptStores
  <2>1. at["script"] \in {"firstBeat", "clearProcess", "lastBeat"} /\ at["script"] \notin Decided
    BY <1>1 DEF ScriptStores, Decided
  <2>2. CASE Loads("script")
    BY <2>2, <1>l
  <2>3. CASE /\ Saves("script", After[at["script"]])
             /\ UNCHANGED <<fixed, files, engine, result>>
    BY <1>p, <1>q, <2>1, <2>3, SavesEchoes DEF fixed
  <2>4. CASE UNCHANGED <<fixed, rec, files, copy, engine, result>>
    BY <1>q, <2>1, <2>4 DEF fixed, Clean
  <2> QED
    BY <1>1, <2>2, <2>3, <2>4 DEF ScriptStores
<1>2. CASE StartEngine
  BY <1>2, <1>e DEF StartEngine, Decided, Started, Broken, NotStarted, fixed
<1>3. CASE SetProcess
  <2>1. at["script"] = "setProcess" /\ at["script"] \notin Decided
    BY <1>3 DEF SetProcess, Decided
  <2>2. CASE Loads("script")
    BY <2>2, <1>l
  <2>3. CASE /\ Saves("script", After["setProcess"])
             /\ UNCHANGED <<fixed, files, loop, engine, result>>
    BY <1>p, <1>q, <2>1, <2>3, SavesEchoes DEF fixed
  <2>4. CASE /\ engine' = KillUnowned
             /\ UNCHANGED <<fixed, rec, files, copy, loop, result>>
    BY <1>e, <2>1, <2>4 DEF KillUnowned, Broken, NotStarted, fixed
  <2> QED
    BY <1>3, <2>2, <2>3, <2>4 DEF SetProcess
<1>4. CASE WaitEngine \/ StopLoop
  BY <1>4, <1>q DEF WaitEngine, StopLoop, Decided, fixed, Clean
<1>5. CASE FinishWorker
  <2>1. at["script"] = "finish" /\ at["script"] \notin Decided /\ Clean /\ ~result.ok
    BY <1>5 DEF FinishWorker, SuccessInv, Decided, Published
  <2>2. CASE rec = Absent
    BY <1>5, <1>q, <2>1, <2>2 DEF FinishWorker, fixed, Clean
  <2>3. CASE rec # Absent
    <3>1. Clean'
      BY <1>5, <1>p, <2>1, <2>3, TakeEchoes DEF FinishWorker, Clean
    <3>2. at'["script"] \in Decided
      BY <1>5, <2>3, GotoScript DEF FinishWorker, Decided, ScriptSteps
    <3>3. ASSUME engine.exit = "zero" /\ engine.legal /\ Accepted(Parsed)
          PROVE  Earned
      BY <3>3 DEF SuccessInv, Earned, Accepted, Parsed
    <3>4. result'.ok => engine.exit = "zero" /\ engine.legal /\ Accepted(Parsed)
      <4>1. result' = [report |-> Parsed,
                       ok |-> engine.exit = "zero" /\ engine.legal /\ Accepted(Parsed)]
        BY <1>5, <2>3 DEF FinishWorker
      <4> QED
        BY <4>1, Zenon
    <3>5. Earned => Earned'
      BY <1>5 DEF FinishWorker, fixed, Earned
    <3>6. (engine.alive => engine.exit = "none")'
      BY <1>5 DEF FinishWorker, SuccessInv
    <3> QED
      BY <3>1, <3>2, <3>3, <3>4, <3>5, <3>6 DEF SuccessInv
  <2> QED
    BY <2>2, <2>3
<1>6. CASE SaveReport
  <2>1. at'["script"] = "markFinished" /\ at["script"] = "saveReport"
    BY <1>6, GotoScript DEF SaveReport, ScriptSteps
  <2>2. /\ copy["script"] \in Record
        /\ rec' = [copy["script"] EXCEPT !.report = result.report]
    BY <1>6, <1>p DEF SaveReport, TypeOK, Loaded
  <2>3. SaysSuccess(rec') => SaysSuccess(copy["script"])
    BY <1>6, <1>p, <2>2 DEF SaysSuccess, Record, SaveReport, Loaded
  <2>4. \A q \in Processes : copy'[q] \in {copy[q], Absent}
    BY <1>6 DEF SaveReport, Drop, TypeOK
  <2>5. Clean => Clean'
    BY <1>p, <2>3, <2>4 DEF Clean, SaysSuccess
  <2> QED
    BY <1>6, <2>1, <2>5, QuietKeeps DEF SaveReport, Quiet, Decided, Published, fixed
<1>7. CASE MarkFinished
  <2>1. at["script"] = "markFinished"
    BY <1>7 DEF MarkFinished
  <2>2. CASE Loads("script")
    BY <2>2, <1>l
  <2>3. CASE /\ Saves("script", After["markFinished"])
             /\ UNCHANGED <<fixed, files, loop, engine, result>>
    <3>1. at'["script"] = "summarize"
      BY <2>3, GotoScript DEF Saves, After, ScriptSteps
    <3>2. Clean /\ copy["script"] \in Record
      BY <1>p, <2>1, <2>3 DEF SuccessInv, Published, Saves, TypeOK
    <3>3. rec' = Finished(copy["script"])
      BY <2>1, <2>3 DEF Saves, Changed, Beats
    <3>4. SaysSuccess(rec') => result.ok
      BY <3>2, <3>3 DEF SaysSuccess, Finished, Record
    <3>5. \A q \in Processes : copy'[q] \in {copy[q], Absent}
      BY <2>3 DEF Saves, Drop, TypeOK
    <3>6. Clean' \/ result.ok
      BY <3>2, <3>4, <3>5 DEF Clean, SaysSuccess
    <3> QED
      BY <2>3, <3>1, <3>6 DEF SuccessInv, Earned, Decided, Published, fixed
  <2>4. CASE /\ Goto("script", After["markFinished"])
             /\ UNCHANGED <<fixed, rec, files, copy, loop, engine, result>>
    <3>1. at'["script"] = "summarize"
      BY <2>4, GotoScript DEF After, ScriptSteps
    <3> QED
      BY <2>1, <2>4, <3>1, QuietKeeps DEF Quiet, Clean, Decided, Published, fixed
  <2>5. CASE /\ Goto("script", "exited")
             /\ result' = [result EXCEPT !.ok = FALSE]
             /\ UNCHANGED <<fixed, rec, files, copy, loop, engine>>
    <3>1. at'["script"] = "exited"
      BY <2>5, GotoScript DEF ScriptSteps
    <3>2. ~result'.ok
      BY <2>5 DEF TypeOK
    <3> QED
      BY <2>1, <2>5, <3>1, <3>2, QuietKeeps DEF Quiet, Clean, Decided, Published, fixed
  <2> QED
    BY <1>7, <2>2, <2>3, <2>4, <2>5 DEF MarkFinished
<1>8. CASE Summarize
  <2>1. at'["script"] = "exited"
    BY <1>8, GotoScript DEF Summarize, ScriptSteps
  <2>2. result'.ok => result.ok
    BY <1>8 DEF Summarize, TypeOK
  <2> QED
    BY <1>8, <2>1, <2>2, QuietKeeps DEF Summarize, Quiet, Clean, Decided, Published, fixed
<1> QED
  BY <1>1, <1>2, <1>3, <1>4, <1>5, <1>6, <1>7, <1>8 DEF Script

\* A heartbeat repeats what it loaded.
LEMMA BeatEarns ==
    ASSUME TypeInv, SuccessInv, LoopBeats
    PROVE  SuccessInv'
<1> USE DEF TypeInv
<1>p. "beat" \in Processes /\ "script" \in Processes
  BY DEF Processes
<1>1. CASE loop /\ Loads("beat")
  BY <1>1, <1>p, TakeEchoes, QuietKeeps DEF Loads, Quiet, fixed
<1>2. CASE Saves("beat", "beat") /\ UNCHANGED <<fixed, files, loop, engine, result>>
  <2>1. at'["script"] = at["script"] /\ at["beat"] # "markFinished"
    BY <1>2, <1>p DEF Saves, Goto, TypeOK
  <2> QED
    BY <1>2, <1>p, <2>1, SavesEchoes, QuietKeeps DEF Quiet, fixed
<1> QED
  BY <1>1, <1>2 DEF LoopBeats

\* While the engine lives nothing is decided.
LEMMA EngineEarns ==
    ASSUME TypeInv, SuccessInv, EngineEnds
    PROVE  SuccessInv'
<1>1. ~Earned /\ ~engine'.alive
  BY DEF EngineEnds, Earned
<1> QED
  BY <1>1 DEF EngineEnds, SuccessInv, Clean, SaysSuccess

\* An operator who completes a worker leaves it without an exit code.
LEMMA CommandEarns ==
    ASSUME TypeInv, SuccessInv, NEW o \in Operators, Command(o)
    PROVE  SuccessInv'
<1> USE DEF TypeInv
<1>p. o \in Processes /\ o # "script" /\ "script" \in Processes
  BY RecordsAssumption DEF Processes
<1>q. ASSUME NEW next, Goto(o, next), Clean => Clean', UNCHANGED <<engine, declared, result>>
      PROVE  SuccessInv'
  <2>1. at'["script"] = at["script"]
    BY <1>q, <1>p DEF Goto, TypeOK
  <2> QED
    BY <1>q, <2>1, QuietKeeps DEF Quiet
<1>1. CASE BeginCommand(o)
  BY <1>1, <1>q DEF BeginCommand, fixed, Clean
<1>2. CASE LookAtGroup(o)
  BY <1>2, <1>p, <1>q, TakeEchoes DEF LookAtGroup, fixed
<1>3. CASE KillGroup(o)
  <2>1. \A q \in Processes : copy'[q] \in {copy[q], Absent}
    BY <1>3 DEF KillGroup, Drop, TypeOK
  <2> QED
    BY <1>3, <1>q, <2>1 DEF KillGroup, fixed, Clean, SaysSuccess
<1>4. CASE Inspect(o)
  BY <1>4, <1>q DEF Inspect, fixed, Clean
<1>5. CASE CommandStores(o)
  <2>1. CASE Loads(o)
    BY <2>1, <1>p, TakeEchoes, QuietKeeps DEF Loads, Quiet, fixed
  <2>2. CASE /\ at[o] \in Transitions /\ Saves(o, "idle")
             /\ UNCHANGED <<fixed, files, loop, engine, result>>
    BY <2>2, <1>p, <1>q, SavesEchoes DEF Saves, Transitions, fixed
  <2>3. CASE /\ Goto(o, "idle")
             /\ UNCHANGED <<fixed, rec, files, copy, loop, engine, result>>
    BY <2>3, <1>q DEF fixed, Clean
  <2> QED
    BY <1>5, <2>1, <2>2, <2>3 DEF CommandStores
<1>6. CASE Sweep(o)
  BY <1>6, <1>q DEF Sweep, fixed, Clean
<1>7. CASE Remove(o)
  BY <1>7, <1>q DEF Remove, fixed, Clean, SaysSuccess
<1> QED
  BY <1>1, <1>2, <1>3, <1>4, <1>5, <1>6, <1>7 DEF Command

\* Both invariants hold.
LEMMA SuccessHolds == Spec => [](TypeInv /\ SuccessInv)
<1>1. ASSUME Init PROVE SuccessInv
  BY <1>1 DEF Init, SuccessInv, NotStarted, Clean, SaysSuccess
<1>2. ASSUME TypeInv, SuccessInv, [Next]_vars PROVE SuccessInv'
  <2>1. CASE UNCHANGED vars
    BY <1>2, <2>1 DEF vars, SuccessInv, Earned, Clean
  <2> QED
    BY <1>2, <2>1, LauncherEarns, ScriptEarns, BeatEarns, EngineEarns, CommandEarns DEF Next
<1> QED
  BY <1>1, <1>2, TypeInvHolds, PTL DEF Spec

\* Whatever is read, saved late or written over, a record or a copy says that the
\* engine succeeded only if it did: MarkFinished is the only operation that says it,
\* the script that performs it has seen the engine end, and no other step makes a
\* copy say more than the record it was loaded from.
THEOREM SuccessIsEarned == Spec => []SuccessEarned
<1>1. SuccessInv => SuccessEarned
  BY DEF SuccessInv, SuccessEarned, Clean, Earned
<1> QED
  BY <1>1, SuccessHolds, PTL

(* A script without a terminal.                                            *)

\* No heartbeat runs beside it.
Alone == ~loop /\ copy["beat"] = Absent

\* Its launch returns when it is over.
Returned ==
    /\ at["launcher"] \notin {"undo", "latest"}
    /\ at["launcher"] \in {"wait", "ended", "error"} => at["script"] \in {"idle", "exited"}

\* It waits for the engine.
Watched == engine.alive => at["script"] \in {"setProcess", "working"}

\* It leaves a terminal record, and starts only where there is one to write.
Settling ==
    /\ at["launcher"] = "start" => files
    /\ at["script"] = "idle" /\ ~files => Settled(rec)
    /\ at["script"] \in Published => Settled(rec)

\* What it loads to publish has the report, or is terminal already.
Reported ==
    /\ at["script"] = "saveReport" /\ result.ok => result.report = engine.answer
    /\ at["script"] = "markFinished" /\ result.ok =>
         /\ Settled(rec) \/ rec.report = engine.answer
         /\ copy["script"] = Absent \/ copy["script"].report = engine.answer
    /\ SaysSuccess(rec) => rec.report = engine.answer

HeadlessInv == mode = "headless" => Alone /\ Returned /\ Watched /\ Settling /\ Reported

\* A step of somebody else that leaves the record terminal, if it writes one.
LEMMA OthersKeep ==
    ASSUME HeadlessInv, UNCHANGED <<mode, declared, loop, engine, result>>,
           at'["launcher"] = at["launcher"], at'["script"] = at["script"],
           copy'["beat"] = copy["beat"], copy'["script"] = copy["script"],
           rec' = rec \/ (Settled(rec') /\ ~SaysSuccess(rec')),
           files' = files \/ (at["launcher"] # "start" /\ rec' = Absent)
    PROVE  HeadlessInv'
BY DEF HeadlessInv, Alone, Returned, Watched, Settling, Reported, Settled

\* What a verdict of an operator writes.
LEMMA VerdictSettles ==
    ASSUME NEW r \in Record, NEW step \in Transitions
    PROVE  Settled(Changed(step, r)) /\ ~SaysSuccess(Changed(step, r))
<1>1. Changed(step, r) = [r EXCEPT !.status = Verdict[step],
         !.exit = IF step \in {"fail", "markFailed"} THEN "other" ELSE "none"]
  BY DEF Changed, Beats, Transitions
<1>2. Changed(step, r).status = Verdict[step] /\ Changed(step, r).exit # "zero"
  BY <1>1 DEF Record
<1>3. Verdict[step] \in TerminalStatus
  BY DEF Verdict, Transitions, TerminalStatus
<1> QED
  BY <1>2, <1>3 DEF Settled, SaysSuccess

\* Operators leave a terminal record or none, and nothing else of a script.
LEMMA CommandSettles ==
    ASSUME TypeInv, HeadlessInv, NEW o \in Operators, Command(o)
    PROVE  HeadlessInv'
<1> USE DEF TypeInv
<1>p. /\ o \in Processes /\ o # "launcher" /\ o # "script" /\ o # "beat"
      /\ "launcher" \in Processes /\ "script" \in Processes /\ "beat" \in Processes
  BY RecordsAssumption DEF Processes
<1>a. ASSUME NEW next, Goto(o, next)
      PROVE  at'["launcher"] = at["launcher"] /\ at'["script"] = at["script"]
  BY <1>a, <1>p DEF Goto, TypeOK
<1>c. ASSUME Take(o) \/ Drop(o) \/ UNCHANGED copy
      PROVE  copy'["beat"] = copy["beat"] /\ copy'["script"] = copy["script"]
  BY <1>c, <1>p DEF Take, Drop, TypeOK
<1>1. CASE BeginCommand(o) \/ LookAtGroup(o) \/ KillGroup(o) \/ Inspect(o) \/ Sweep(o)
  <2>1. /\ \E next : Goto(o, next)
        /\ Take(o) \/ Drop(o) \/ UNCHANGED copy
        /\ UNCHANGED <<fixed, rec, files, loop, engine, result>>
    BY <1>1 DEF BeginCommand, LookAtGroup, KillGroup, Inspect, Sweep
  <2> QED
    BY <1>a, <1>c, <2>1, OthersKeep DEF fixed
<1>2. CASE CommandStores(o)
  <2>1. CASE Loads(o)
    BY <1>c, <2>1, OthersKeep DEF Loads, fixed
  <2>2. CASE /\ at[o] \in Transitions /\ Saves(o, "idle")
             /\ UNCHANGED <<fixed, files, loop, engine, result>>
    <3>1. Settled(rec') /\ ~SaysSuccess(rec')
      BY <1>p, <2>2, VerdictSettles DEF Saves, TypeOK
    <3> QED
      BY <1>a, <1>c, <2>2, <3>1, OthersKeep DEF Saves, fixed
  <2>3. CASE /\ Goto(o, "idle")
             /\ UNCHANGED <<fixed, rec, files, copy, loop, engine, result>>
    BY <1>a, <1>c, <2>3, OthersKeep DEF fixed
  <2> QED
    BY <1>2, <2>1, <2>2, <2>3 DEF CommandStores
<1>3. CASE Remove(o)
  <2>1. at["launcher"] # "start"
    BY <1>3 DEF Remove, Untouched
  <2>2. Settled(rec') /\ ~SaysSuccess(rec')
    BY <1>3 DEF Remove, Settled, SaysSuccess
  <2> QED
    BY <1>3, <1>a, <1>c, <2>1, <2>2, OthersKeep DEF Remove, fixed
<1> QED
  BY <1>1, <1>2, <1>3 DEF Command

\* The launcher writes before the launch and then waits for the script.
LEMMA LauncherSettles ==
    ASSUME TypeInv, SuccessInv, HeadlessInv, Launcher
    PROVE  HeadlessInv'
<1> USE DEF TypeInv
<1>p. "launcher" \in Processes /\ "script" \in Processes /\ "beat" \in Processes
  BY DEF Processes
<1>h. SUFFICES ASSUME mode = "headless"
               PROVE  Alone' /\ Returned' /\ Watched' /\ Settling' /\ Reported'
  BY DEF HeadlessInv, Launcher, CreateWorker, BuildFails, MarkStarted, ReloadStarted, Launch,
     UndoLaunch, LatestRecord, WaitPrompt, fixed
<1>i. Alone /\ Returned /\ Watched /\ Settling /\ Reported
  BY <1>h DEF HeadlessInv
<1>b. /\ UNCHANGED <<loop, engine, result>>
      /\ copy'["beat"] = copy["beat"]
      /\ copy'["script"] = copy["script"]
  BY <1>p DEF Launcher, CreateWorker, BuildFails, MarkStarted, ReloadStarted, Launch,
     UndoLaunch, LatestRecord, WaitPrompt, Take, TypeOK
<1>1. Alone'
  BY <1>i, <1>b DEF Alone
<1>2. CASE CreateWorker \/ BuildFails \/ MarkStarted
  <2>1. at["script"] = "idle" /\ at'["script"] = "idle"
    BY <1>2, GotoLauncher DEF CreateWorker, BuildFails, MarkStarted, Unlaunched, LauncherSteps
  <2>2. at'["launcher"] \in {"start", "error", "reload"} /\ files'
    BY <1>2, <1>i, <1>p
       DEF CreateWorker, BuildFails, MarkStarted, Goto, TypeOK, Settling
  <2>3. ~SaysSuccess(rec') \/ rec' = rec
    BY <1>2 DEF CreateWorker, BuildFails, MarkStarted, SaysSuccess, NewRecord, Untouched
  <2> QED
    BY <1>i, <1>b, <1>1, <2>1, <2>2, <2>3
       DEF Returned, Watched, Settling, Reported, Published
<1>3. CASE ReloadStarted
  <2>1. at'["launcher"] \in {"error", "launch"} /\ at'["script"] = at["script"]
    BY <1>3, <1>p DEF ReloadStarted, Goto, TypeOK
  <2>2. at["script"] = "idle"
    BY <1>3 DEF ReloadStarted, Unlaunched
  <2> QED
    BY <1>3, <1>i, <1>b, <1>1, <2>1, <2>2
       DEF ReloadStarted, Returned, Watched, Settling, Reported, Published
<1>4. CASE Launch
  <2>1. /\ at["script"] = "idle"
        /\ at'["launcher"] = "blocked"
        /\ at'["script"] = IF files THEN "firstBeat" ELSE "exited"
    BY <1>4, <1>h, <1>p DEF Launch, Unlaunched, TypeOK
  <2> QED
    BY <1>4, <1>i, <1>b, <1>1, <2>1
       DEF Launch, Returned, Watched, Settling, Reported, Published
<1>5. CASE UndoLaunch
  BY <1>5, <1>i DEF UndoLaunch, Returned
<1>6. CASE LatestRecord \/ WaitPrompt
  <2>1. /\ at'["launcher"] \in {"error", "ended", "wait"}
        /\ at'["script"] = at["script"]
        /\ UNCHANGED <<rec, files>>
    BY <1>6, <1>p DEF LatestRecord, WaitPrompt, Goto, TypeOK
  <2>2. at["script"] \in {"idle", "exited"}
    BY <1>6, <1>i DEF LatestRecord, WaitPrompt, Returned
  <2> QED
    BY <1>i, <1>b, <1>1, <2>1, <2>2 DEF Returned, Watched, Settling, Reported
<1> QED
  BY <1>2, <1>3, <1>4, <1>5, <1>6 DEF Launcher

\* The script keeps its report from SaveReport to MarkFinished, which writes it
\* with the status or finds the record terminal.
LEMMA ScriptSettlesStep ==
    ASSUME TypeInv, SuccessInv, HeadlessInv, Script
    PROVE  HeadlessInv'
<1> USE DEF TypeInv
<1>p. "launcher" \in Processes /\ "script" \in Processes /\ "beat" \in Processes
  BY DEF Processes
<1>h. SUFFICES ASSUME mode = "headless"
               PROVE  Alone' /\ Returned' /\ Watched' /\ Settling' /\ Reported'
  BY DEF HeadlessInv, Script, ScriptStores, StartEngine, SetProcess, WaitEngine, StopLoop,
     FinishWorker, SaveReport, MarkFinished, Summarize, Loads, fixed
<1>i. Alone /\ Returned /\ Watched /\ Settling /\ Reported
  BY <1>h DEF HeadlessInv
<1>r. at["script"] \notin {"idle", "exited"} /\ at["launcher"] # "start"
  BY DEF Script, ScriptStores, StartEngine, SetProcess, WaitEngine, StopLoop, FinishWorker,
     SaveReport, MarkFinished, Summarize, Unlaunched
\* The launcher waits.
<1>l. ASSUME NEW next, Goto("script", next)
      PROVE  at'["launcher"] = at["launcher"] /\ at'["script"] = next /\ Returned'
  BY <1>l, <1>i, <1>p, <1>r DEF Goto, TypeOK, Returned
\* Before FinishWorker nothing is said.
<1>e. ASSUME at["script"] \notin Decided,
             NEW next \in ScriptSteps \ (Decided \cup {"idle"}), Goto("script", next),
             Drop("script") \/ UNCHANGED copy, loop' = loop, ~SaysSuccess(rec'), Watched'
      PROVE  Alone' /\ Returned' /\ Watched' /\ Settling' /\ Reported'
  <2>1. copy'["beat"] = copy["beat"]
    BY <1>e, <1>p DEF Drop, TypeOK
  <2> QED
    BY <1>e, <1>i, <1>l, <1>r, <2>1 DEF Alone, Settling, Reported, Decided, Published
<1>o. ASSUME Loads("script")
      PROVE  Alone' /\ Returned' /\ Watched' /\ Settling' /\ Reported'
  <2>1. /\ copy'["beat"] = copy["beat"] /\ copy'["script"] = rec
        /\ UNCHANGED <<rec, files, at, loop, engine, result>>
    BY <1>o, <1>p DEF Loads, Take, TypeOK
  <2>2. at["script"] = "markFinished" => ~Settled(rec)
    BY <1>o DEF Loads, Refuses, Settled
  <2> QED
    BY <1>i, <2>1, <2>2 DEF Alone, Returned, Watched, Settling, Reported
<1>c. at["script"] \notin Decided => ~SaysSuccess(rec)
  BY DEF SuccessInv, Clean, Decided, Published
<1>s. ASSUME at["script"] \notin Decided, NEW next, Saves("script", next)
      PROVE  ~SaysSuccess(rec')
  BY <1>s, <1>p, SavesEchoes DEF SuccessInv, Decided, Published, Clean
<1>1. CASE ScriptStores
  <2>1. at["script"] \in {"firstBeat", "clearProcess", "lastBeat"}
    BY <1>1 DEF ScriptStores
  <2>2. /\ at["script"] \notin Decided
        /\ After[at["script"]] \in {"engine", "stopLoop", "finish"}
        /\ After[at["script"]] \in ScriptSteps \ (Decided \cup {"idle"})
    BY <2>1 DEF After, ScriptSteps, Decided
  <2>3. CASE Loads("script")
    BY <2>3, <1>o
  <2>4. CASE /\ Goto("script", After[at["script"]])
             /\ loop' = (loop \/ StartsLoop(at["script"]))
             /\ UNCHANGED engine
             /\ Drop("script") \/ UNCHANGED copy
             /\ ~SaysSuccess(rec')
    <3>1. loop' = loop
      <4>1. loop = FALSE
        BY <1>i DEF Alone, TypeOK
      <4>2. StartsLoop(at["script"]) = FALSE
        BY <1>h DEF StartsLoop
      <4>3. (loop \/ StartsLoop(at["script"])) = FALSE
        BY <4>1, <4>2
      <4> QED
        BY <2>4, <4>1, <4>3
    <3>2. Watched'
      BY <1>i, <2>1, <2>4 DEF Watched
    <3> QED
      BY <1>e, <2>2, <2>4, <3>1, <3>2
  <2>5. CASE /\ Saves("script", After[at["script"]])
             /\ loop' = (loop \/ StartsLoop(at["script"]))
             /\ UNCHANGED <<fixed, files, engine, result>>
    BY <1>s, <2>2, <2>4, <2>5 DEF Saves
  <2>6. CASE /\ Goto("script", After[at["script"]])
             /\ loop' = (loop \/ StartsLoop(at["script"]))
             /\ UNCHANGED <<fixed, rec, files, copy, engine, result>>
    BY <1>c, <2>2, <2>4, <2>6
  <2> QED
    BY <1>1, <2>3, <2>5, <2>6 DEF ScriptStores
<1>2. CASE StartEngine
  <2>1. at["script"] = "engine" /\ at["script"] \notin Decided /\ ~SaysSuccess(rec')
    BY <1>2, <1>c DEF StartEngine, Decided
  <2>2. CASE Goto("script", "setProcess")
    BY <1>2, <1>e, <1>l, <2>1, <2>2 DEF StartEngine, Watched, Decided, ScriptSteps
  <2>3. CASE engine' = Broken /\ Goto("script", "stopLoop")
    BY <1>2, <1>e, <2>1, <2>3
       DEF StartEngine, Watched, Decided, ScriptSteps, Broken, NotStarted
  <2> QED
    BY <1>2, <2>2, <2>3 DEF StartEngine
<1>3. CASE SetProcess
  <2>1. at["script"] = "setProcess" /\ at["script"] \notin Decided
    BY <1>3 DEF SetProcess, Decided
  <2>2. CASE Loads("script")
    BY <2>2, <1>o
  <2>3. CASE /\ Saves("script", After["setProcess"])
             /\ UNCHANGED <<fixed, files, loop, engine, result>>
    <3>1. Goto("script", "working") /\ Drop("script")
      BY <2>3 DEF Saves, After
    <3>2. Watched'
      BY <1>l, <3>1 DEF Watched
    <3>3. "working" \in ScriptSteps \ (Decided \cup {"idle"})
      BY DEF ScriptSteps, Decided
    <3> QED
      BY <1>e, <1>s, <2>1, <2>3, <3>1, <3>2, <3>3
  <2>4. CASE /\ engine' = KillUnowned
             /\ Goto("script", "stopLoop")
             /\ UNCHANGED <<fixed, rec, files, copy, loop, result>>
    BY <1>c, <1>e, <2>1, <2>4
       DEF Watched, Decided, ScriptSteps, KillUnowned, Broken, NotStarted
  <2> QED
    BY <1>3, <2>2, <2>3, <2>4 DEF SetProcess
<1>4. CASE WaitEngine
  BY <1>4, <1>c, <1>e DEF WaitEngine, Watched, Decided, ScriptSteps
<1>5. CASE StopLoop
  <2>1. ~loop /\ loop' = loop
    BY <1>5, <1>i, Zenon DEF StopLoop, Alone, TypeOK
  <2> QED
    BY <1>5, <1>c, <1>e, <1>i, <2>1 DEF StopLoop, Watched, Decided, ScriptSteps
<1>6. CASE FinishWorker
  <2>1. /\ at["script"] = "finish" /\ ~SaysSuccess(rec) /\ ~engine.alive
        /\ UNCHANGED <<rec, files, loop, engine>>
    BY <1>6, <1>c, <1>i DEF FinishWorker, Decided, Watched
  <2>2. CASE rec = Absent
    <3>1. Goto("script", "exited") /\ UNCHANGED <<copy, result>>
      BY <1>6, <2>2 DEF FinishWorker
    <3> QED
      BY <1>i, <1>l, <2>1, <2>2, <3>1
         DEF Alone, Watched, Settling, Reported, Settled, Published
  <2>3. CASE rec # Absent
    <3>1. \E next \in {"markFinished", "saveReport"} :
            /\ Goto("script", next)
            /\ Parsed = "none" => next = "markFinished"
            /\ Parsed # "none" => next = "saveReport"
      BY <1>6, <2>3 DEF FinishWorker
    <3>2. copy'["beat"] = copy["beat"]
      BY <1>6, <1>p, <2>3 DEF FinishWorker, Take, TypeOK
    <3>3. /\ result'.report = Parsed
          /\ result'.ok => engine.exit = "zero" /\ Accepted(Parsed)
      <4>1. result' = [report |-> Parsed,
                       ok |-> engine.exit = "zero" /\ engine.legal /\ Accepted(Parsed)]
        BY <1>6, <2>3 DEF FinishWorker
      <4> QED
        BY <4>1, Zenon
    <3>4. Accepted(Parsed) => Parsed = engine.answer /\ Parsed # "none"
      BY DEF Accepted, Parsed
    <3>5. Alone' /\ Returned' /\ Watched' /\ Settling'
      BY <1>i, <1>l, <1>r, <2>1, <3>1, <3>2 DEF Alone, Watched, Settling, Published
    <3>6. Reported'
      BY <1>l, <2>1, <3>1, <3>3, <3>4 DEF Reported
    <3> QED
      BY <3>5, <3>6
  <2> QED
    BY <2>2, <2>3
<1>7. CASE SaveReport
  <2>1. /\ at["script"] = "saveReport" /\ Goto("script", "markFinished")
        /\ copy["script"] \in Record
        /\ rec' = [copy["script"] EXCEPT !.report = result.report]
        /\ UNCHANGED <<files, loop, engine, result>>
        /\ copy' = [copy EXCEPT !["script"] = Absent]
    BY <1>7, <1>p DEF SaveReport, Loaded, TypeOK, Drop
  <2>2. copy'["beat"] = copy["beat"] /\ copy'["script"] = Absent
    BY <1>p, <2>1 DEF TypeOK
  <2>3. rec'.report = result.report /\ rec'.status = copy["script"].status
        /\ rec'.exit = copy["script"].exit
    BY <2>1 DEF Record
  <2>4. ~SaysSuccess(rec')
    BY <1>7, <1>p, <2>1, <2>3 DEF SuccessInv, Clean, SaysSuccess, Published, Loaded
  <2>5. ~engine.alive
    BY <1>i, <2>1 DEF Watched
  <2> QED
    BY <1>i, <1>l, <1>r, <2>1, <2>2, <2>3, <2>4, <2>5
       DEF Alone, Watched, Settling, Reported, Published
<1>8. CASE MarkFinished
  <2>1. at["script"] = "markFinished" /\ ~engine.alive
    BY <1>8, <1>i DEF MarkFinished, Watched
  <2>2. CASE Loads("script")
    BY <2>2, <1>o
  <2>3. CASE /\ Saves("script", After["markFinished"])
             /\ UNCHANGED <<fixed, files, loop, engine, result>>
    <3>1. Goto("script", "summarize")
      BY <2>3 DEF Saves, After
    <3>2. copy["script"] \in Record /\ copy["script"] # Absent /\ rec' = Finished(copy["script"])
      <4>1. Changed("markFinished", copy["script"]) = Finished(copy["script"])
        BY DEF Changed, Beats
      <4> QED
        BY <1>p, <2>1, <2>3, <4>1 DEF Saves, TypeOK
    <3>3. /\ rec'.status \in TerminalStatus
          /\ rec'.report = copy["script"].report
          /\ rec'.status = "succeeded" => result.ok
      BY <3>2 DEF Finished, Record, TerminalStatus
    <3>4. copy'["beat"] = copy["beat"]
      BY <1>p, <2>3 DEF Saves, Drop, TypeOK
    <3>5. SaysSuccess(rec') => rec'.report = engine.answer
      BY <1>i, <2>1, <3>2, <3>3 DEF SaysSuccess, Reported
    <3> QED
      BY <1>i, <1>l, <1>r, <2>1, <2>3, <3>1, <3>3, <3>4, <3>5
         DEF Alone, Watched, Settling, Reported, Settled
  <2>4. CASE /\ Declines("script")
             /\ Goto("script", After["markFinished"])
             /\ UNCHANGED <<fixed, rec, files, copy, loop, engine, result>>
    <3>1. Goto("script", "summarize")
      BY <2>4 DEF After
    <3>2. Settled(rec)
      BY <2>1, <2>4 DEF Declines, Refuses, Settled, Transitions
    <3> QED
      BY <1>i, <1>l, <1>r, <2>1, <2>4, <3>1, <3>2 DEF Alone, Watched, Settling, Reported
  <2>5. CASE /\ Misses("script")
             /\ Goto("script", "exited")
             /\ UNCHANGED <<fixed, rec, files, copy, loop, engine>>
    BY <1>i, <1>l, <1>r, <2>1, <2>5
       DEF Alone, Watched, Settling, Reported, Settled, Misses
  <2> QED
    BY <1>8, <2>2, <2>3, <2>4, <2>5 DEF MarkFinished
<1>9. CASE Summarize
  <2>1. /\ at["script"] = "summarize" /\ Goto("script", "exited")
        /\ UNCHANGED <<rec, files, copy, loop, engine>>
    BY <1>9 DEF Summarize
  <2>2. Settled(rec) /\ ~engine.alive
    BY <1>i, <2>1 DEF Settling, Published, Watched
  <2> QED
    BY <1>i, <1>l, <1>r, <2>1, <2>2 DEF Alone, Watched, Settling, Reported
<1> QED
  BY <1>1, <1>2, <1>3, <1>4, <1>5, <1>6, <1>7, <1>8, <1>9 DEF Script

\* There is no heartbeat.
LEMMA BeatSettles ==
    ASSUME TypeInv, HeadlessInv, LoopBeats
    PROVE  HeadlessInv'
<1>1. mode # "headless"
  BY DEF LoopBeats, Saves, HeadlessInv, Alone
<1> QED
  BY <1>1 DEF LoopBeats, Loads, HeadlessInv, fixed

\* The engine ends before anything is decided.
LEMMA EngineSettles ==
    ASSUME TypeInv, SuccessInv, HeadlessInv, EngineEnds
    PROVE  HeadlessInv'
<1>1. ~result.ok /\ ~SaysSuccess(rec) /\ ~engine'.alive
  BY DEF EngineEnds, SuccessInv, Earned, Clean
<1> QED
  BY <1>1 DEF EngineEnds, HeadlessInv, Alone, Returned, Watched, Settling, Reported, fixed

\* The three invariants hold.
LEMMA HeadlessHolds == Spec => [](TypeInv /\ SuccessInv /\ HeadlessInv)
<1>1. ASSUME Init PROVE HeadlessInv
  <2>1. at["launcher"] = "create" /\ at["script"] = "idle"
    BY <1>1 DEF Init, Processes
  <2> QED
    BY <1>1, <2>1 DEF Init, HeadlessInv, Alone, Returned, Watched, Settling, Reported, Published,
       Settled, SaysSuccess, NotStarted, Processes
<1>2. ASSUME TypeInv, SuccessInv, HeadlessInv, [Next]_vars PROVE HeadlessInv'
  <2>1. CASE UNCHANGED vars
    BY <1>2, <2>1 DEF vars, HeadlessInv, Alone, Returned, Watched, Settling, Reported, Settled
  <2> QED
    BY <1>2, <2>1, LauncherSettles, ScriptSettlesStep, BeatSettles, EngineSettles, CommandSettles
       DEF Next
<1> QED
  BY <1>1, <1>2, SuccessHolds, PTL DEF Spec

\* Without a terminal the report is in the record before the status says that the
\* engine succeeded, and neither a verdict of an operator nor a late copy undoes it.
THEOREM ReportComesFirst == Spec => []ReportFirst
<1>1. HeadlessInv => ReportFirst
  BY DEF HeadlessInv, Reported, ReportFirst
<1> QED
  BY <1>1, HeadlessHolds, PTL

\* Without a terminal the record is terminal or pruned when the script is over: what
\* operators write is terminal, so that no copy under way opens the record again.
THEOREM RecordSettles == Spec => []ScriptSettles
<1>1. HeadlessInv => ScriptSettles
  BY DEF HeadlessInv, Settling, ScriptSettles, Published
<1> QED
  BY <1>1, HeadlessHolds, PTL

\* Without a terminal the engine is gone when the launch has returned, also where it
\* could not be recorded.
THEOREM NothingIsLeft == Spec => []NothingLeft
<1>1. HeadlessInv => NothingLeft
  BY DEF HeadlessInv, Returned, Watched, NothingLeft
<1> QED
  BY <1>1, HeadlessHolds, PTL
=============================================================================
