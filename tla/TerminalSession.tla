-------------------------- MODULE TerminalSession --------------------------
(* terminal_session.py over subprocess_terminal.py, called by the executor in   *)
(* terminal/impl.py.  The session knows its shell by the screen only: it looks  *)
(* for prompts, which carry the exit code of a command.  The shell and its      *)
(* process are external and move between any two looks.  The screen is a        *)
(* sequence of tokens: a prompt, the echo of what was typed, or a line of       *)
(* output, numbered from 1 in the order of printing.                            *)
EXTENDS Naturals, Sequences, FiniteSets, SequencesExt

CONSTANTS
  Limit,       \* maxlen of output_buffer, in tokens
  MaxCommands, \* bound: commands sent
  MaxLines,    \* bound: lines printed
  MaxInputs    \* bound: inputs and interrupts sent

TerminalAssumption ==
  Limit \in Nat \ {0} /\ MaxCommands \in Nat /\ MaxLines \in Nat /\ MaxInputs \in Nat

VARIABLES
  busy,        \* the command the shell is running, 0 if it waits at its prompt
  typed,       \* keys the shell has not taken yet
  buffer,      \* output_buffer
  prevStatus,  \* prev_status; "timed_out" stands for both kinds of timeout
  prevOutput,  \* prev_output
  call,        \* the execute() in progress
  sent,        \* number of the last command sent
  inputs,      \* inputs and interrupts sent
  lines,       \* lines printed
  told,        \* the lines of the observations returned so far
  last,        \* what the last observation says: completed, and of which command
  clean        \* history: since the shell was started, each observation came after
               \* the shell had taken what was typed, none that showed lines was
               \* thrown away, and no input came to the shell itself

shell == <<busy, typed, lines>>
vars == <<busy, typed, buffer, prevStatus, prevOutput, call, sent, inputs, lines, told, last,
          clean>>

Token(k, n) == [kind |-> k, of |-> n]
IsPrompt(t) == t.kind = "ps1"
Kept(b) == SubSeq(b, 1 + (IF Len(b) > Limit THEN Len(b) - Limit ELSE 0), Len(b))
Show(t) == buffer' = Kept(Append(buffer, t))

Idle == [phase |-> "idle", kind |-> "none", initial |-> 0, export |-> FALSE]

Init ==
  /\ busy = 0 /\ typed = <<>> /\ buffer = <<Token("ps1", 0)>>
  /\ prevStatus = "none" /\ prevOutput = <<>> /\ call = Idle
  /\ sent = 0 /\ inputs = 0 /\ lines = 0 /\ told = <<>>
  /\ last = [done |-> FALSE, of |-> 0] /\ clean = TRUE

\* ---- reading the screen ----------------------------------------------------

Count(b) == Cardinality({i \in 1..Len(b) : IsPrompt(b[i])})
AtPrompt(b) == b # <<>> /\ IsPrompt(b[Len(b)])
FirstPrompt(b) == SelectInSeq(b, IsPrompt)
LastPrompt(b) == SelectLastInSeq(b, IsPrompt)

\* The tokens of these kinds, in order.
Only(b, kinds) ==
  LET only[n \in 0..Len(b)] ==
        IF n = 0 THEN <<>>
        ELSE IF b[n].kind \in kinds THEN Append(only[n - 1], b[n]) ELSE only[n - 1]
  IN  only[Len(b)]

\* _combine_outputs_between_matches: what follows the first prompt, without the
\* prompts; with a single one at the end, what precedes it.
Between(b) == Only(SubSeq(b, FirstPrompt(b) + 1, Len(b)), {"echo", "line"})
Before(b) == SubSeq(b, 1, LastPrompt(b) - 1)

\* _get_command_output: without what the previous observation has shown already.
New(raw) == IF IsPrefix(prevOutput, raw) THEN SubSeq(raw, Len(prevOutput) + 1, Len(raw)) ELSE raw

Lines(text) == LET out == Only(text, {"line"})
               IN [i \in 1..Len(out) |-> out[i].of]

\* The observation of an export is thrown away by _export_envs, with the last
\* lines of an earlier command if it shows them.
Tell(raw) ==
  /\ told' = IF call.export THEN told ELSE told \o Lines(New(raw))
  /\ clean' = (clean /\ typed = <<>> /\ (call.export => Lines(New(raw)) = <<>>))

\* An export is followed by the command it is for.
Return == call' = IF call.export THEN [Idle EXCEPT !.phase = "look", !.kind = "command"] ELSE Idle

\* ---- the session -----------------------------------------------------------

Running == prevStatus = "timed_out"

Call(k) ==
  /\ call.phase = "idle"
  /\ k \in {"poll", "input"} => Running
  /\ \E e \in IF k = "command" THEN BOOLEAN ELSE {FALSE} :
       call' = [Idle EXCEPT !.phase = "look", !.kind = k, !.export = e]
  /\ UNCHANGED <<shell, buffer, prevStatus, prevOutput, sent, inputs, told, last, clean>>

\* A new command while the previous one is running by what the screen shows.
MutRefused == FALSE
Refused == Running /\ ~AtPrompt(buffer) /\ call.kind \in {"command", "interrupt"}

Refuse ==
  /\ call.phase = "look" /\ Refused
  /\ Tell(Between(buffer)) /\ prevOutput' = Between(buffer)
  /\ last' = [last EXCEPT !.done = FALSE] /\ Return
  /\ UNCHANGED <<shell, buffer, prevStatus, sent, inputs>>

Look ==
  /\ call.phase = "look" /\ ~Refused
  /\ call' = [call EXCEPT !.initial = Count(buffer),
                          !.phase = IF call.kind = "poll" THEN "wait" ELSE "send"]
  /\ UNCHANGED <<shell, buffer, prevStatus, prevOutput, sent, inputs, told, last, clean>>

\* An interrupt (C-c) is sent like a command, or as an input.  An input is sent
\* whether or not there still is a process to read it.
Send ==
  /\ call.phase = "send"
  /\ IF call.kind = "command"
     THEN sent < MaxCommands /\ sent' = sent + 1 /\ UNCHANGED inputs
     ELSE /\ inputs < MaxInputs /\ inputs' = inputs + 1 /\ UNCHANGED sent
  /\ \E key \in {call.kind} \cup IF call.kind = "input" THEN {"interrupt"} ELSE {} :
       typed' = Append(typed, key)
  /\ call' = [call EXCEPT !.phase = "wait"]
  /\ UNCHANGED <<busy, lines, buffer, prevStatus, prevOutput, told, last, clean>>

\* After 10 ms, whatever the shell has done meanwhile.
Looks == call.phase = "wait"
Completed == Count(buffer) > call.initial \/ AtPrompt(buffer)

\* _handle_completed_command, and clear_screen: the buffer from the last prompt on.
Remaining == SubSeq(buffer, LastPrompt(buffer), Len(buffer))

Complete ==
  /\ Looks /\ Completed
  /\ Tell(IF Count(buffer) = 1 THEN Before(buffer) ELSE Between(buffer))
  /\ prevStatus' = "completed" /\ prevOutput' = <<>>
  /\ buffer' = Remaining
  /\ last' = [done |-> ~call.export, of |-> buffer[LastPrompt(buffer)].of]
  /\ Return
  /\ UNCHANGED <<shell, sent, inputs>>

\* No output for a while, or the timeout of the action.
TimeOut ==
  /\ Looks /\ ~Completed
  /\ Tell(Between(buffer)) /\ prevOutput' = Between(buffer)
  /\ prevStatus' = "timed_out" /\ last' = [last EXCEPT !.done = FALSE] /\ Return
  /\ UNCHANGED <<shell, buffer, sent, inputs>>

\* TerminalExecutor.reset: a new shell; what the old one had not told is dropped.
Reset ==
  /\ call.phase = "idle"
  /\ busy' = 0 /\ typed' = <<>> /\ buffer' = <<Token("ps1", sent)>>
  /\ prevStatus' = "none" /\ prevOutput' = <<>>
  /\ told' = [i \in 1..lines |-> i] /\ last' = [last EXCEPT !.done = FALSE]
  /\ clean' = TRUE
  /\ UNCHANGED <<call, sent, inputs, lines>>

\* ---- the shell -------------------------------------------------------------

Take ==
  /\ typed # <<>>
  /\ typed' = Tail(typed)
  /\ IF Head(typed) = "interrupt"
     THEN busy' = 0 /\ Show(Token("ps1", sent))
     ELSE /\ Show(Token("echo", sent))
          /\ busy' = IF busy = 0 THEN sent ELSE busy
  /\ clean' = (clean /\ (Head(typed) = "input" => busy # 0))
  /\ UNCHANGED <<prevStatus, prevOutput, call, sent, inputs, lines, told, last>>

WriteLine ==
  /\ busy # 0 /\ lines < MaxLines
  /\ lines' = lines + 1 /\ Show(Token("line", lines + 1))
  /\ UNCHANGED <<busy, typed, prevStatus, prevOutput, call, sent, inputs, told, last, clean>>

End ==
  /\ busy # 0
  /\ busy' = 0 /\ Show(Token("ps1", busy))
  /\ UNCHANGED <<typed, prevStatus, prevOutput, call, sent, inputs, lines, told, last, clean>>

Session == Refuse \/ Look \/ Send \/ Complete \/ TimeOut
Next ==
  \/ \E k \in {"command", "poll", "input", "interrupt"} : Call(k)
  \/ Session \/ Reset \/ Take \/ WriteLine \/ End
Spec == Init /\ [][Next]_vars

\* ---- properties ------------------------------------------------------------

TypeOK ==
  /\ busy \in 0..MaxCommands /\ sent \in 0..MaxCommands /\ inputs \in 0..MaxInputs
  /\ typed \in Seq({"command", "input", "interrupt"}) /\ Len(buffer) <= Limit
  /\ prevStatus \in {"none", "completed", "timed_out"}
  /\ call.phase \in {"idle", "look", "send", "wait"} /\ lines \in 0..MaxLines

\* Each line a command prints is told in one observation, in order, however often
\* the session times out, is polled or refuses a command while it is printed.
ToldOnce == clean => \A i \in 1..Len(told) : told[i] = i

\* An observation that says "completed" speaks of the last command sent; that one
\* has ended, the shell waits at its prompt, and all it printed has been told.
Honest ==
  clean /\ last.done /\ call.phase = "idle" =>
    busy = 0 /\ typed = <<>> /\ last.of = sent /\ Len(told) = lines

\* A command is typed only when the shell waits for one.
OneAtATime ==
  clean => \A i \in 1..Len(typed) : typed[i] = "command" => busy = 0

\* definition.py:39 says of is_input: "the command is an input to the running
\* process".  A process that has ended meanwhile leaves it to the shell.
InputIsInput == \A i \in 1..Len(typed) : typed[i] = "input" => busy # 0
=============================================================================
