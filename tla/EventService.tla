----------------------------- MODULE EventService -----------------------------
(***************************************************************************)
(* The server's side of one conversation (agent_server/event_service.py,   *)
(* pub_sub.py, sockets.py, sdk/utils/async_utils.py): the task of a run,   *)
(* and how events and status updates get from the conversation's threads   *)
(* to the socket of a client.                                              *)
(*                                                                         *)
(* LocalConversation.run is taken at the level Conversation shows it to    *)
(* have: it works, logs events and ends in a status.  A logged event is    *)
(* scheduled on the event loop (AsyncCallbackWrapper) and delivered by a   *)
(* coroutine that calls the subscribers one after the other: first those   *)
(* of the service, of which a webhook may suspend it, then the socket.     *)
(* Event ids are also their timestamps: both are given on creation.        *)
(***************************************************************************)
EXTENDS Naturals, FiniteSets, SequencesExt

CONSTANTS FlushTimesOut,  \* whether wait_for_pending may give up
          \* bounds: runs, messages, deliveries delayed at once, and how much else
          \* happens (further iterations, telemetry, pauses, acceptances)
          MaxRuns, MaxMessages, MaxDelayed, MaxExtras

ASSUME ServiceAssumption ==
  /\ FlushTimesOut \in BOOLEAN
  /\ {MaxRuns, MaxMessages, MaxDelayed, MaxExtras} \subseteq Nat

VARIABLES status,     \* execution_status of the conversation
          log,        \* its event log, by id
          created,    \* events 1 .. created exist
          thread,     \* the thread in conversation.run: none, queued, running
          task,       \* _run_task: none, running, flushing
          flush,      \* the futures wait_for_pending waits for
          late,       \* events created, waiting in the executor for the state lock
          pausing,    \* pause() has changed the status and not yet published it
          delayed,    \* deliveries scheduled on the loop or waiting in a slow subscriber
          socket,     \* number of the subscribed socket, 0 if there is none
          sockets,    \* sockets opened so far
          wire,       \* sent to the client and not yet received
          runs, messages, extras,  \* counted for the bounds
          \* history
          unseen,     \* a user message was sent that no run has taken up
          answered,   \* the user has accepted what no run has taken up
          ended       \* the events logged when the last run ended

conversation == <<status, log, created, late, pausing, unseen, answered>>
runVars == <<thread, task, flush, ended>>
network == <<socket, sockets, wire>>
bounds == <<runs, messages, extras>>
serviceVars == <<conversation, runVars, delayed, network, bounds>>

\* DELETING is never a conversation's own: the webhooks are told it of a deleted one.
Statuses == {"IDLE", "RUNNING", "PAUSED", "WAITING", "FINISHED", "ERROR", "STUCK"}
Ids == Nat \ {0}
NoStatus == "none"

\* `status` is what the event says of the execution status, `after` (history) the
\* events a final snapshot is to come after, `tracked` whether it has a future.
Events == [id : Ids, status : Statuses \cup {NoStatus}, after : SUBSET Ids,
           tracked : BOOLEAN]
Deliveries == [event : Events, to : Nat]

ServiceTypeOK ==
  /\ status \in Statuses
  /\ log \in Seq(Ids) /\ created \in Nat
  /\ thread \in {"none", "queued", "running"}
  /\ task \in {"none", "running", "flushing"}
  /\ {flush, ended, late} \subseteq SUBSET Ids
  /\ {pausing, unseen, answered} \subseteq BOOLEAN
  /\ delayed \subseteq Deliveries
  /\ socket \in 0 .. sockets /\ sockets \in Nat /\ wire \in Seq(Events)
  /\ runs \in 0 .. MaxRuns /\ messages \in 0 .. MaxMessages /\ extras \in 0 .. MaxExtras

ServiceInit ==
  /\ status = "IDLE" /\ log = <<>> /\ created = 0
  /\ thread = "none" /\ task = "none" /\ flush = {} /\ ended = {}
  /\ late = {} /\ pausing = FALSE /\ unseen = FALSE /\ answered = FALSE
  /\ delayed = {}
  /\ socket = 0 /\ sockets = 0 /\ wire = <<>>
  /\ runs = 0 /\ messages = 0 /\ extras = 0

Extra == extras < MaxExtras /\ extras' = extras + 1

-----------------------------------------------------------------------------
(* Events.                                                                 *)

\* An event is handed to the loop, whose coroutine calls the subscribers in order: some
\* deliveries are delayed, the others, `sent`, reach the socket at once, in order.
Logged(n, s) == [id |-> n, status |-> s, after |-> {}, tracked |-> TRUE]
Ascending(n) ==
  UNION {{f \in [1..k -> 1..n] : \A i, j \in 1..k : i < j => f[i] < f[j]} : k \in 0..n}
Publish(events) ==
  \E sent \in Ascending(Len(events)) :
    LET slow == {[event |-> events[i], to |-> socket] : i \in DOMAIN events \ ToSet(sent)} IN
    /\ Cardinality(delayed) + Cardinality(slow) <= MaxDelayed
    /\ delayed' = delayed \cup slow
    /\ wire' = IF socket = 0 THEN wire ELSE wire \o [i \in DOMAIN sent |-> events[sent[i]]]

\* What is posted is published and appended to the log; a change of status is an event
\* as well.
Post(events) ==
  /\ created' = created + Len(events)
  /\ LET new == [i \in DOMAIN events |-> Logged(created + i, events[i])]
     IN  /\ log' = log \o [i \in DOMAIN new |-> new[i].id]
         /\ Publish(new)

SetStatus(s) == status' = s /\ Post(<<s>>)
AgentEvent == <<NoStatus>>

\* A full snapshot is published by the coroutine that makes it and is not logged.
Snapshot(after) ==
  [id |-> created + 1, status |-> status, after |-> after, tracked |-> FALSE]

\* A slow subscriber returns, or raises: either way the next one is called.
Resume(d) ==
  /\ delayed' = delayed \ {d}
  /\ wire' = IF d.to # 0 /\ d.to = socket THEN Append(wire, d.event) ELSE wire
  /\ UNCHANGED <<conversation, runVars, socket, sockets, bounds>>

\* Telemetry makes an event and leaves it to the executor to log it.
CreateLate ==
  /\ Extra /\ thread = "running"
  /\ created' = created + 1
  /\ late' = late \cup {created + 1}
  /\ UNCHANGED <<status, log, pausing, unseen, answered, runVars, delayed, network, runs,
                 messages>>

AppendLate(n) ==
  /\ late' = late \ {n}
  /\ log' = Append(log, n)
  /\ Publish(<<Logged(n, NoStatus)>>)
  /\ UNCHANGED <<status, created, pausing, unseen, answered, runVars, socket, sockets, bounds>>

-----------------------------------------------------------------------------
(* LocalConversation.run in its executor thread.                           *)

RunStarts ==
  /\ thread = "queued"
  /\ thread' = "running"
  /\ IF status \in {"IDLE", "PAUSED", "ERROR"} THEN SetStatus("RUNNING")
     ELSE UNCHANGED <<status, created, log, delayed, wire>>
  /\ UNCHANGED <<late, pausing, unseen, answered, task, flush, ended, socket, sockets, bounds>>

\* An iteration gives the LLM what there is.  The user has approved what was WAITING;
\* a message may have made a finished conversation IDLE, and it stays so.
Iterates == thread = "running" /\ status \notin {"PAUSED", "FINISHED", "STUCK"}
Approved == IF status = "WAITING" THEN <<"RUNNING">> ELSE <<>>

RunGoesOn ==
  /\ Iterates
  /\ Extra
  /\ status' = IF status = "WAITING" THEN "RUNNING" ELSE status
  /\ Post(Approved \o AgentEvent)
  /\ unseen' = FALSE /\ answered' = FALSE
  /\ UNCHANGED <<late, pausing, runVars, socket, sockets, runs, messages>>

\* The events repeat a pattern: the loop looks at the status again, and ends.
RunStuck ==
  /\ Iterates
  /\ SetStatus("STUCK")
  /\ UNCHANGED <<late, pausing, unseen, answered, runVars, socket, sockets, bounds>>

\* The loop is left at once when the agent waits for the user or fails; a finished one
\* is looked at again first.
RunEnds ==
  /\ Iterates
  /\ \E s \in {"FINISHED", "WAITING", "ERROR"} :
       /\ status' = s
       /\ Post(Approved \o IF s = "ERROR" THEN <<s>> \o AgentEvent ELSE AgentEvent \o <<s>>)
       /\ thread' = IF s = "FINISHED" THEN thread ELSE "none"
       /\ unseen' = IF s = "ERROR" THEN unseen ELSE FALSE
       /\ answered' = FALSE
  /\ UNCHANGED <<late, pausing, task, flush, ended, socket, sockets, bounds>>

RunLeaves ==
  /\ thread = "running" /\ ~ Iterates
  /\ thread' = "none"
  /\ UNCHANGED <<conversation, task, flush, ended, delayed, network, bounds>>

-----------------------------------------------------------------------------
(* Requests.                                                               *)

\* EventService.run: a task is started unless one is there or the status is RUNNING.
MayRun == status # "RUNNING" /\ task = "none"
StartTask ==
  /\ runs < MaxRuns /\ runs' = runs + 1
  /\ task' = "running" /\ thread' = "queued" /\ UNCHANGED <<flush, ended>>

\* respond_to_confirmation(accept): run(); its refusal counts as success.
Accept ==
  /\ Extra /\ status = "WAITING"
  /\ answered' = TRUE
  /\ IF MayRun THEN StartTask ELSE UNCHANGED <<runVars, runs>>
  /\ UNCHANGED <<status, log, created, late, pausing, unseen, delayed, network, messages>>

\* send_message(run=False), as the client of this repository calls it: a finished
\* conversation is idle again.  (With run=True a loop is started that no task tracks.)
Message ==
  /\ messages < MaxMessages
  /\ messages' = messages + 1
  /\ unseen' = TRUE
  /\ IF status = "FINISHED" THEN status' = "IDLE" /\ Post(<<"IDLE", NoStatus>>)
     ELSE Post(AgentEvent) /\ UNCHANGED status

\* pause: the status changes under the state lock, the snapshot is published later.
PauseCall ==
  /\ Extra /\ ~ pausing
  /\ pausing' = TRUE
  /\ IF status \in {"IDLE", "RUNNING"} THEN SetStatus("PAUSED")
     ELSE UNCHANGED <<status, created, log, delayed, wire>>
  /\ UNCHANGED <<late, unseen, answered, runVars, socket, sockets, runs, messages>>

PausePublishes ==
  /\ pausing
  /\ pausing' = FALSE /\ created' = created + 1
  /\ Publish(<<Snapshot({})>>)
  /\ UNCHANGED <<status, log, late, unseen, answered, runVars, socket, sockets, bounds>>

-----------------------------------------------------------------------------
(* The task of a run: run, wait for what is pending, publish.              *)

Pending == {d.event.id : d \in {x \in delayed : x.event.tracked}}

MutFlushed == {}  \* mutant: wait_for_pending is not called
Flushed == Pending

TaskFlushes ==
  /\ task = "running" /\ thread = "none"
  /\ task' = "flushing" /\ flush' = Flushed /\ ended' = ToSet(log)
  /\ UNCHANGED <<conversation, thread, delayed, network, bounds>>

MayPublish == flush \cap Pending = {} \/ FlushTimesOut

TaskPublishes ==
  /\ task = "flushing" /\ MayPublish
  /\ task' = "none" /\ flush' = {}
  /\ created' = created + 1
  /\ Publish(<<Snapshot(ended)>>)
  /\ UNCHANGED <<status, log, late, pausing, unseen, answered, thread, ended, socket,
                 sockets, bounds>>

-----------------------------------------------------------------------------
RunThread == RunStarts \/ RunGoesOn \/ RunStuck \/ RunEnds \/ RunLeaves
RunTask == TaskFlushes \/ TaskPublishes

\* What happens on the server without a request.
ServerStep ==
  \/ \E d \in delayed : Resume(d)
  \/ CreateLate \/ \E n \in late : AppendLate(n)
  \/ RunThread \/ RunTask \/ PausePublishes

OthersStep == Accept \/ PauseCall

ServerFairness ==
  /\ WF_serviceVars(\E d \in delayed : Resume(d))
  /\ WF_serviceVars(\E n \in late : AppendLate(n))
  /\ WF_serviceVars(RunThread) /\ WF_serviceVars(RunTask)
  /\ WF_serviceVars(PausePublishes)
=============================================================================
