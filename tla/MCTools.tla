------------------------------ MODULE MCTools ------------------------------
(* The tools, which share no state, in one run: the initial state chooses the *)
(* tool that is used, the others stand still.  The file editor keeps its own   *)
(* variables; the other three share v1 to v12.                                  *)
EXTENDS FileEditor

VARIABLES part, v1, v2, v3, v4, v5, v6, v7, v8, v9, v10, v11, v12
pool == <<v1, v2, v3, v4, v5, v6, v7, v8, v9, v10, v11, v12>>

P == INSTANCE ApplyPatch WITH
  Texts <- {1, 2, 11}, MaxLen <- 3, Context <- 1, Stripped <- TRUE, Eof <- FALSE,
  Ended <- TRUE, Others <- {"alone", "add", "delete", "move", "missing", "twice"},
  files <- v1, before <- v2, wanted <- v3, patch <- v4, actions <- v5, done <- v6, outcome <- v7

S == INSTANCE TerminalSession WITH
  Limit <- 20, MaxCommands <- 3, MaxLines <- 2, MaxInputs <- 1,
  busy <- v1, typed <- v2, buffer <- v3, prevStatus <- v4, prevOutput <- v5, call <- v6,
  sent <- v7, inputs <- v8, lines <- v9, told <- v10, last <- v11,
  clean <- v12

B == INSTANCE BashService WITH
  Streams <- {"stdout", "stderr"}, MaxLen <- 1, MaxRead <- 3, Total <- 3,
  Timeouts <- TRUE, Clock <- 1, Polls <- 1, Failures <- 1,
  proc <- v1, written <- v2, taken <- v3, at <- v4, local <- v5, shared <- v6, order <- v7,
  main <- v8, files <- v9, now <- v10, client <- v11,
  failures <- v12

ASSUME P!PatchAssumption /\ S!TerminalAssumption /\ B!BashAssumption

Rest == v8 = 0 /\ v9 = 0 /\ v10 = 0 /\ v11 = 0 /\ v12 = 0
ToolsInit ==
  /\ EditorInit
  /\ \/ part = "editor" /\ v1 = 0 /\ v2 = 0 /\ v3 = 0 /\ v4 = 0 /\ v5 = 0 /\ v6 = 0 /\ v7 = 0 /\ Rest
     \/ part = "patch" /\ file = Absent /\ P!Init /\ Rest
     \/ part = "terminal" /\ file = Absent /\ S!Init
     \/ part = "bash" /\ file = Absent /\ B!Init

Edits == part = "editor" /\ EditorNext /\ UNCHANGED <<part, pool>>
Patching == part = "patch" /\ P!Next /\ UNCHANGED <<part, editorVars, v8, v9, v10, v11, v12>>
Commands == part = "terminal" /\ S!Next /\ UNCHANGED <<part, editorVars>>
Running == part = "bash" /\ B!Next /\ UNCHANGED <<part, editorVars>>

ToolsNext == Edits \/ Patching \/ Commands \/ Running
ToolsSpec == ToolsInit /\ [][ToolsNext]_<<part, editorVars, pool>>

\* ApplyPatch: a patch whose hunks can be told apart is not refused and leaves the
\* workspace as its author wants it.
PatchIsApplied == part = "patch" => P!PatchIsApplied

\* TerminalSession: an observation that says "completed" speaks of the last command
\* sent, which has ended.
Honest == part = "terminal" => S!Honest

\* BashService: the output events of a command that ended by itself, put in the
\* order of their order field, give each stream back whole.
Reassembled == part = "bash" => B!Reassembled
=============================================================================
