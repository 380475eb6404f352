------------------------------- MODULE AppTasks -------------------------------
(***************************************************************************)
(* The tasks of the app (app/backend/runner.py, the task endpoints of       *)
(* main.py, storage.py): every task is a daemon thread that lets an agent   *)
(* edit a workspace, checks and diffs it, and reports through a record in   *)
(* memory and files in its run directory; a browser polls both.  The tree   *)
(* is the set of edits of the workspace that are not committed; an edit is  *)
(* named by the task that made it.                                          *)
(***************************************************************************)
EXTENDS Integers, FiniteSets

CONSTANTS
    Tasks,         \* tasks, all on one workspace
    Watched,       \* the one whose page is open in a browser
    MaxTurns,      \* budget.max_turns
    MaxToolSteps,  \* budget.max_tool_steps
    MaxBatch,      \* actions in one response of the model
    Page,          \* limit of read_log_lines
    Faults         \* subset of {"setup", "disk"}: what may fail

AppAssumption ==
    /\ Watched \in Tasks
    /\ {MaxTurns, MaxToolSteps, MaxBatch, Page} \subseteq Nat \ {0}
    /\ Faults \subseteq {"setup", "disk"}

VARIABLES
    status,    \* TaskRecord.status; "none" before create_task
    place,     \* where the thread is
    turns,     \* iterations of conversation.run()
    steps,     \* actions; BudgetTracker counts them up to the one too many
    exceeded,  \* BudgetTracker.exceeded
    tree,      \* the workspace: its uncommitted edits
    patch,     \* changes.patch: {} until written, then {its edits}
    summary,   \* status written in summary.json, or "none"
    lines,     \* length of the watched task's run.jsonl
    cursor,    \* the browser's place in the log
    seen,      \* log lines shown, a set of indices
    again      \* history: a line was shown twice

record == <<status, summary>>
agentVars == <<turns, steps, exceeded>>
logVars == <<cursor, seen, again>>
vars == <<status, place, turns, steps, exceeded, tree, patch, summary, lines, cursor, seen, again>>

Ended == {"succeeded", "failed"}

Init ==
    /\ status = [t \in Tasks |-> "none"]
    /\ place = [t \in Tasks |-> "none"]
    /\ turns = [t \in Tasks |-> 0]
    /\ steps = [t \in Tasks |-> 0]
    /\ exceeded = [t \in Tasks |-> FALSE]
    /\ tree = {}
    /\ patch = [t \in Tasks |-> {}]
    /\ summary = [t \in Tasks |-> "none"]
    /\ lines = 0
    /\ cursor = 0
    /\ seen = {}
    /\ again = FALSE

Set(f, t, value) == [f EXCEPT ![t] = value]
Logs(t) == lines' = IF t = Watched THEN lines + 1 ELSE lines

Create(t) ==
    /\ status[t] = "none"
    /\ status' = Set(status, t, "queued")
    /\ place' = Set(place, t, "start")
    /\ UNCHANGED <<agentVars, tree, patch, summary, lines, logVars>>

Start(t) ==
    /\ place[t] = "start"
    /\ status' = Set(status, t, "running")
    /\ Logs(t)
    /\ place' = Set(place, t, "setup")
    /\ UNCHANGED <<agentVars, tree, patch, summary, logVars>>

\* The validation commands do not parse or the LLM cannot be built: reported.
SetupFails(t) ==
    /\ place[t] = "setup"
    /\ status' = Set(status, t, "failed")
    /\ Logs(t)
    /\ place' = Set(place, t, "report")
    /\ UNCHANGED <<agentVars, tree, patch, summary, logVars>>

\* The agent, the conversation and the digest are built outside every try.
SetupDies(t) ==
    /\ "setup" \in Faults
    /\ place[t] = "setup"
    /\ place' = Set(place, t, "dead")
    /\ UNCHANGED <<record, agentVars, tree, patch, lines, logVars>>

SetUp(t) ==
    /\ place[t] = "setup"
    /\ place' = Set(place, t, "agent")
    /\ UNCHANGED <<record, agentVars, tree, patch, lines, logVars>>

\* BudgetTracker.on_event for n actions of one response.
Over(n) == n > MaxToolSteps

\* One iteration of run(): the actions of one response are counted as they are
\* emitted and then executed; the pause a count asks for is seen by the next
\* iteration.  Some of them edit files.
Turn(t) ==
    /\ place[t] = "agent"
    /\ ~exceeded[t]
    /\ turns[t] < MaxTurns
    /\ turns' = Set(turns, t, turns[t] + 1)
    /\ \E n \in 1..MaxBatch, edits \in {{}, {t}} :
         /\ steps' = Set(steps, t, steps[t] + n)
         /\ exceeded' = Set(exceeded, t, Over(steps[t] + n))
         /\ tree' = tree \cup edits
    /\ Logs(t)
    /\ UNCHANGED <<record, place, patch, logVars>>

\* run() returns: finished, paused by the budget, or out of iterations.  Only a
\* run within its budget is validated.
RunReturns(t) ==
    /\ place[t] = "agent"
    /\ turns[t] > 0
    /\ \/ ~exceeded[t] /\ place' = Set(place, t, "validate")
       \/ (exceeded[t] \/ turns[t] = MaxTurns) /\ place' = Set(place, t, "diff")
    /\ UNCHANGED <<record, agentVars, tree, patch, lines, logVars>>

Validate(t) ==
    /\ place[t] = "validate"
    /\ place' = Set(place, t, "diff")
    /\ Logs(t)
    /\ UNCHANGED <<record, agentVars, tree, patch, logVars>>

\* git diff of the whole repository, whoever made the changes.
Diff(t) ==
    /\ place[t] = "diff"
    /\ patch' = Set(patch, t, {tree})
    /\ place' = Set(place, t, "conclude")
    /\ Logs(t)
    /\ UNCHANGED <<record, agentVars, tree, logVars>>

MutConclude(t) ==
    /\ place[t] \in {"validate", "conclude"}
    /\ status' = Set(status, t, "succeeded")
    /\ place' = Set(place, t, IF place[t] = "validate" THEN "diff" ELSE "write")
    /\ UNCHANGED <<agentVars, tree, patch, summary, lines, logVars>>

\* The record says so before the summary is written.
Conclude(t) ==
    /\ place[t] = "conclude"
    /\ status' = Set(status, t, "succeeded")
    /\ place' = Set(place, t, "write")
    /\ UNCHANGED <<agentVars, tree, patch, summary, lines, logVars>>

\* Any exception after the setup: a run error, a rate limit, git; and after the
\* status was set, the summary or the last line of the log that is not written.
Catches(t) ==
    /\ place[t] \in {"agent", "validate", "diff", "write", "log"}
    /\ place[t] \in {"write", "log"} => "disk" \in Faults
    /\ status' = Set(status, t, "failed")
    /\ place' = Set(place, t, "report")
    /\ Logs(t)
    /\ UNCHANGED <<agentVars, tree, patch, summary, logVars>>

\* _write_summary; where it fails while reporting a failure nothing catches it.
Write(t) ==
    /\ place[t] \in {"write", "report"}
    /\ place' = Set(place, t, IF place[t] = "write" THEN "log" ELSE "done")
    /\ \/ summary' = Set(summary, t, status[t])
       \/ "disk" \in Faults /\ place[t] = "report" /\ UNCHANGED summary
    /\ UNCHANGED <<status, agentVars, tree, patch, lines, logVars>>

LastLine(t) ==
    /\ place[t] = "log"
    /\ Logs(t)
    /\ place' = Set(place, t, "done")
    /\ UNCHANGED <<record, agentVars, tree, patch, logVars>>

Edits(t) == UNION patch[t]

\* POST .../apply with confirm=true: git apply refuses a patch any part of which
\* is in the tree.
Apply(t) ==
    /\ patch[t] # {}
    /\ Edits(t) \cap tree = {}
    /\ tree' = tree \cup Edits(t)
    /\ UNCHANGED <<record, place, agentVars, patch, lines, logVars>>

\* The user cleans the workspace.
Revert ==
    /\ tree # {}
    /\ tree' = {}
    /\ UNCHANGED <<record, place, agentVars, patch, lines, logVars>>

\* GET .../logs?cursor=: at the end of the log there is no next cursor, and the
\* browser keeps the one it had.
MutNext(c) == IF c + Page <= lines THEN c + Page + 1 ELSE c
NextCursor(c) == IF c + Page < lines THEN c + Page ELSE c

Chunk == (cursor + 1)..(IF lines < cursor + Page THEN lines ELSE cursor + Page)

Poll ==
    /\ status[Watched] # "none"
    /\ seen' = seen \cup Chunk
    /\ again' = (again \/ seen \cap Chunk # {})
    /\ cursor' = NextCursor(cursor)
    /\ UNCHANGED <<record, place, agentVars, tree, patch, lines>>

Thread(t) == \/ Start(t) \/ SetupFails(t) \/ SetupDies(t) \/ SetUp(t) \/ Turn(t) \/ RunReturns(t)
             \/ Validate(t) \/ Diff(t) \/ Conclude(t) \/ Catches(t) \/ Write(t) \/ LastLine(t)

Next == Revert \/ Poll \/ \E t \in Tasks : Create(t) \/ Thread(t) \/ Apply(t)

\* Threads run and the browser's interval timer fires.
Fairness == WF_vars(Poll) /\ \A t \in Tasks : WF_vars(Thread(t))

Spec == Init /\ [][Next]_vars /\ Fairness
-------------------------------------------------------------------------------
TypeOK ==
    /\ status \in [Tasks -> {"none", "queued", "running"} \cup Ended]
    /\ place \in [Tasks -> {"none", "start", "setup", "agent", "validate", "diff", "conclude",
                            "write", "log", "report", "done", "dead"}]
    /\ turns \in [Tasks -> 0..MaxTurns]
    /\ \A t \in Tasks : steps[t] \in Nat
    /\ exceeded \in [Tasks -> BOOLEAN]
    /\ tree \subseteq Tasks
    /\ \A t \in Tasks : patch[t] \in {{}} \cup {{e} : e \in SUBSET Tasks}
    /\ summary \in [Tasks -> {"none"} \cup Ended]
    /\ lines \in Nat /\ cursor \in 0..lines /\ seen \subseteq 1..lines
    /\ again \in BOOLEAN

(* The tool budget is a ceiling but for one response: the pause is asked for  *)
(* inside an event callback of the run it pauses, and takes effect before the *)
(* next step.                                                                  *)
BudgetHolds == \A t \in Tasks : steps[t] <= MaxToolSteps + MaxBatch

(* What the browser fetches when it sees "succeeded" is there: the patch is   *)
(* written before the status, although nothing orders the record in memory    *)
(* and the files but the order of the thread's steps.                         *)
PatchIsThere == \A t \in Tasks : status[t] = "succeeded" => patch[t] # {}

(* The record and summary.json tell the same end.                             *)
SummaryAgrees == \A t \in Tasks : summary[t] # "none" => status[t] = summary[t]

(* An end the browser has seen is final.  (With the "disk" fault it is not: a *)
(* summary that cannot be written makes a failure of a reported success.)     *)
EndStays == \A t \in Tasks : status[t] \in Ended => status'[t] = status[t]
EndIsFinal == [][EndStays]_vars

(* The log has no holes on the screen: what is shown is a beginning of it.    *)
NoHoles == \A i \in seen : 1..i \subseteq seen

(* Every task whose thread outlives its setup ends, and says so.              *)
TaskEnds == \A t \in Tasks : place[t] = "agent" ~> status[t] \in Ended

(* The whole log of an ended task reaches the screen.                         *)
LogIsWhole == place[Watched] = "done"
LogIsShown == seen = 1..lines
LogArrives == LogIsWhole ~> LogIsShown

(* "running" is not for ever: false, a thread that dies while it builds the   *)
(* conversation leaves it so.                                                  *)
RunningEnds == \A t \in Tasks : status[t] = "running" ~> status[t] \in Ended

(* The patch of a task holds its own edits: false with two tasks on one       *)
(* workspace, or with what was there before.                                   *)
PatchIsOwn == \A t \in Tasks : Edits(t) \subseteq {t}

(* A log line is shown once: false, the last page is fetched over and over.   *)
ShownOnce == ~again
===============================================================================
