---------------------------- MODULE BashService ----------------------------
(* bash_service.py: one command of the agent server, and the client in         *)
(* remote_workspace_mixin.py that polls for its output.  The coroutines of a   *)
(* command (two stream readers and the one that waits for them) share          *)
(* output_order and the buffers; code between two awaits is one action.  The   *)
(* process is external: it writes the units 1, 2, 3 ... to each stream.        *)
EXTENDS Integers, Sequences, SequencesExt

CONSTANTS
  Streams,    \* stdout and stderr
  MaxLen,     \* MAX_CONTENT_CHAR_LENGTH
  MaxRead,    \* the most one stream.read() returns
  Total,      \* bound: units written to each stream
  Timeouts,   \* whether the timeout of the command may expire
  Clock,      \* bound: seconds that pass (file names have one-second precision)
  Polls,      \* bound: searches of the client
  Failures    \* bound: reads and savings that fail

BashAssumption ==
  /\ MaxLen \in Nat \ {0} /\ MaxRead \in Nat \ {0} /\ Total \in Nat
  /\ Timeouts \in BOOLEAN /\ Clock \in Nat /\ Polls \in Nat /\ Failures \in Nat

VARIABLES
  proc,      \* the process: running or over
  written,   \* per stream, how many units the process wrote
  taken,     \* per stream, how many of them its reader has read
  at,        \* per reader: read, publish, end or cancelled
  local,     \* per reader, its variable buffer
  shared,    \* stdout_buffer and stderr_buffer
  order,     \* output_order
  main,      \* _execute_bash_command: wait, killed or done
  files,     \* the event files, sorted by name
  now,       \* the second of the clock
  client,    \* what the client has collected
  failures   \* history: reads of a stream and savings of an event that failed

vars == <<proc, written, taken, at, local, shared, order, main, files, now, client, failures>>

NoExit == -2
Event(o, x, out) == [order |-> o, exit |-> x, time |-> now, out |-> out]
Chunk(s, o, text) == Event(o, NoExit, [t \in Streams |-> IF t = s THEN text ELSE <<>>])

\* Within one second the names are ordered by the random ids they end in.
Save(e) ==
  \E p \in 1..Len(files) + 1 :
    /\ \A i \in p..Len(files) : files[i].time = e.time
    /\ files' = InsertAt(files, p, e)

Init ==
  /\ proc = "running" /\ main = "wait" /\ order = 0 /\ now = 0 /\ files = <<>>
  /\ written = [s \in Streams |-> 0] /\ taken = [s \in Streams |-> 0]
  /\ at = [s \in Streams |-> "read"]
  /\ local = [s \in Streams |-> <<>>] /\ shared = [s \in Streams |-> <<>>]
  /\ client = [out |-> [s \in Streams |-> <<>>], exit |-> NoExit, polls |-> 0]
  /\ failures = 0

\* The splitting loop of read_stream up to the next await: with the buffer it has
\* and o, the value of the order counter.
Split(s, buffer, o) ==
  IF Len(buffer) > MaxLen
  THEN /\ Save(Chunk(s, o, SubSeq(buffer, 1, MaxLen)))
       /\ local' = [local EXCEPT ![s] = SubSeq(buffer, MaxLen + 1, Len(buffer))]
       /\ at' = [at EXCEPT ![s] = "publish"]
  ELSE /\ local' = [local EXCEPT ![s] = buffer]
       /\ at' = [at EXCEPT ![s] = "read"]
       /\ UNCHANGED files

Read(s) ==
  /\ main = "wait" /\ at[s] = "read"
  /\ \E n \in 1..MaxRead :
       LET buffer == local[s] \o [i \in 1..n |-> taken[s] + i] IN
         /\ taken[s] + n <= written[s]
         /\ taken' = [taken EXCEPT ![s] = @ + n]
         /\ shared' = [shared EXCEPT ![s] = buffer]
         /\ Split(s, buffer, order)
  /\ UNCHANGED <<proc, written, order, main, now, client, failures>>

\* The shared buffer once a chunk has been published: only now it loses the chunk.
MutRest(s) == shared[s]
Rest(s) == local[s]

Published(s) ==
  /\ main = "wait" /\ at[s] = "publish"
  /\ order' = order + 1
  /\ shared' = [shared EXCEPT ![s] = Rest(s)]
  /\ Split(s, local[s], order + 1)
  /\ UNCHANGED <<proc, written, taken, main, now, client, failures>>

Eof(s) ==
  /\ main = "wait" /\ at[s] = "read" /\ proc = "over" /\ taken[s] = written[s]
  /\ at' = [at EXCEPT ![s] = "end"]
  /\ UNCHANGED <<proc, written, taken, local, shared, order, main, files, now, client, failures>>

\* wait_for() cancels the readers where they are; the process is killed.
TimeOut ==
  /\ Timeouts /\ main = "wait"
  /\ main' = "killed" /\ proc' = "over"
  /\ at' = [s \in Streams |-> IF at[s] = "end" THEN "end" ELSE "cancelled"]
  /\ UNCHANGED <<written, taken, local, shared, order, files, now, client, failures>>

Conclude(x) ==
  /\ Save(Event(order, x, shared))
  /\ main' = "done"
  /\ UNCHANGED <<proc, written, taken, at, local, shared, order, now, client, failures>>

\* An exception ends the reader where it is: from stream.read(), or when an event
\* cannot be saved, of the data just read or after the last chunk was published.
\* (A subscriber's exception stays in the PubSub.)
ReaderFails(s) ==
  /\ main = "wait" /\ failures < Failures
  /\ at' = [at EXCEPT ![s] = "end"] /\ failures' = failures + 1
  /\ \/ at[s] = "read" /\ UNCHANGED <<taken, shared, order>>
     \/ /\ at[s] = "read" /\ UNCHANGED order
        /\ \E n \in 1..MaxRead :
             LET buffer == local[s] \o [i \in 1..n |-> taken[s] + i] IN
               /\ taken[s] + n <= written[s] /\ Len(buffer) > MaxLen
               /\ taken' = [taken EXCEPT ![s] = @ + n]
               /\ shared' = [shared EXCEPT ![s] = buffer]
     \/ /\ at[s] = "publish" /\ Len(local[s]) > MaxLen
        /\ order' = order + 1 /\ shared' = [shared EXCEPT ![s] = Rest(s)]
        /\ UNCHANGED taken
  /\ UNCHANGED <<proc, written, local, main, files, now, client>>

\* gather() waits for both readers and the process.
Gathered == proc = "over" /\ \A s \in Streams : at[s] = "end"

Finish == main = "wait" /\ Gathered /\ Conclude(0)
Killed == main = "killed" /\ Conclude(-1)

\* When the process cannot be started or the last event not be saved, an event with
\* the error (its text left out), order 0 and exit code -1 is saved, if that works.
Unborn == files = <<>> /\ \A s \in Streams : at[s] = "read" /\ taken[s] = 0 /\ written[s] = 0
Errored ==
  /\ failures < Failures /\ failures' = failures + 1
  /\ \/ main = "wait" /\ (Gathered \/ Unborn)
     \/ main = "killed"
  /\ Save(Event(0, -1, [s \in Streams |-> <<>>])) \/ UNCHANGED files
  /\ main' = "done" /\ proc' = "over"
  /\ UNCHANGED <<written, taken, at, local, shared, order, now, client>>

\* ---- outside: the process, the clock, the client --------------------------

Write(s) ==
  /\ proc = "running" /\ written[s] < Total
  /\ written' = [written EXCEPT ![s] = @ + 1]
  /\ UNCHANGED <<proc, taken, at, local, shared, order, main, files, now, client, failures>>

Exit ==
  /\ proc = "running" /\ proc' = "over"
  /\ UNCHANGED <<written, taken, at, local, shared, order, main, files, now, client, failures>>

Tick ==
  /\ now < Clock /\ now' = now + 1
  /\ UNCHANGED <<proc, written, taken, at, local, shared, order, main, files, client, failures>>

\* A search of the client appends the output of every event it returns.
Poll ==
  /\ client.exit = NoExit /\ client.polls < Polls
  /\ client' = [out |-> [s \in Streams |-> client.out[s] \o
                           FlattenSeq([i \in 1..Len(files) |-> files[i].out[s]])],
                exit |-> IF \E i \in 1..Len(files) : files[i].exit # NoExit
                         THEN (CHOOSE e \in {files[i] : i \in 1..Len(files)} : e.exit # NoExit).exit
                         ELSE NoExit,
                polls |-> client.polls + 1]
  /\ UNCHANGED <<proc, written, taken, at, local, shared, order, main, files, now, failures>>

Step ==
  \/ \E s \in Streams : Read(s) \/ Published(s) \/ Eof(s) \/ ReaderFails(s)
  \/ Finish \/ Killed \/ TimeOut \/ Errored
Next == Step \/ (\E s \in Streams : Write(s)) \/ Exit \/ Tick \/ Poll
Spec == Init /\ [][Next]_vars

\* ---- properties ------------------------------------------------------------

TypeOK ==
  /\ proc \in {"running", "over"} /\ main \in {"wait", "killed", "done"}
  /\ failures \in 0..Failures /\ written \in [Streams -> 0..Total] /\ taken \in [Streams -> 0..Total]
  /\ at \in [Streams -> {"read", "publish", "end", "cancelled"}]
  /\ \A s \in Streams : local[s] \in Seq(1..Total) /\ shared[s] \in Seq(1..Total)
  /\ order \in Nat /\ now \in 0..Clock
  /\ \A i \in 1..Len(files) : files[i].exit \in {NoExit, -1, 0}

\* The events of a stream by their order field, and what they say together.
Places(s, o) == {i \in 1..Len(files) : files[i].order = o /\ files[i].out[s] # <<>>}
Said(s, o) == IF Places(s, o) = {} THEN <<>> ELSE files[CHOOSE i \in Places(s, o) : TRUE].out[s]
Text(s) == FlattenSeq([o \in 1..order + 1 |-> Said(s, o - 1)])

\* However the two readers interleave, the events of a command that was not cut
\* short, and of which no read and no save failed, can be put in the order of their
\* order field: no two of one stream have the same, they give each stream back
\* whole, and the event with the exit code is last.
Reassembled ==
  \A e \in 1..Len(files) : failures = 0 /\ files[e].exit = 0 =>
    /\ \A s \in Streams : \A o \in 0..order : \A i, j \in Places(s, o) : i = j
    /\ \A s \in Streams : Text(s) = [i \in 1..written[s] |-> i]
    /\ \A d \in 1..Len(files) : d # e => files[d].order < files[e].order

\* models.py:310 calls order "The order for this output, sequentially starting
\* with 0": no two events have the same.  Both readers read it before they publish.
OrdersDiffer == \A i, j \in 1..Len(files) : files[i].order = files[j].order => i = j

\* After a timeout too no unit is saved twice.  A reader that is cancelled while it
\* publishes a chunk has not dropped it from the buffer the final event is made of.
SavedOnce ==
  \A s \in Streams : \A i, j \in 1..Len(files) : \A u \in 1..Total :
    Contains(files[i].out[s], u) /\ Contains(files[j].out[s], u) => i = j

\* The client's result is what the process wrote.  Each poll appends every event
\* again, and events of one second come in any order.
ClientExact ==
  client.exit = 0 => \A s \in Streams : client.out[s] = [i \in 1..written[s] |-> i]

\* execute_bash_command returns the last item: the event with the exit code.
LastIsFinal == main = "done" => files # <<>> /\ files[Len(files)].exit # NoExit
=============================================================================
