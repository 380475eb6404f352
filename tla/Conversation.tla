----------------------------- MODULE Conversation -----------------------------
(***************************************************************************)
(* LocalConversation and the Agent it drives (conversation/impl/           *)
(* local_conversation.py, agent/agent.py, conversation/state.py,           *)
(* hooks/conversation_hooks.py), with the crash and restart of the server  *)
(* around it (agent_server/event_service.py, EventService.start).          *)
(*                                                                         *)
(* Threads call run(), send_message(), pause(), reject_pending_actions()   *)
(* and condense().  The state lock (FIFOLock) is held by `lock` through    *)
(* one iteration of a run, so an agent step is several actions of the      *)
(* model: one per durable write, LLM call or tool call, between which the  *)
(* unlocked parts of other calls interleave and a crash may strike.        *)
(* Sections of other calls under the lock are one action, taken when the   *)
(* lock is free.  The log and the saved status survive a crash.            *)
(***************************************************************************)
EXTENDS ConversationLog, FiniteSets

CONSTANTS Runners,      \* threads that call run()
          Rejecters,    \* threads that call reject_pending_actions()
          Condensers,   \* threads that call condense()
          NoThread,
          MaxIteration, \* max_iteration_per_run
          \* what the environment may answer
          Batches,      \* tool calls of an LLM response: sequences over CallKinds
          Replies,      \* other outcomes of an LLM call
          ToolResults,  \* how a tool call ends
          Confirms,     \* whether the confirmation policy asks for a batch
          ActionHooks,  \* verdicts of the PreToolUse hooks
          PromptHooks,  \* verdicts of the UserPromptSubmit hooks
          StopHooks,    \* verdicts of the Stop hooks
          Stucks,       \* verdicts of the stuck detector
          \* bounds
          MaxRuns, MaxMessages, MaxActions, MaxRequests, MaxCrashes

CallKinds == Executable \cup {"invalid"}
Threads == Runners \cup Rejecters \cup Condensers

ASSUME ConversationAssumption ==
  /\ NoThread \notin Threads
  /\ Runners \cap Condensers = {} /\ Rejecters \cap (Runners \cup Condensers) = {}
  /\ MaxIteration \in Nat \ {0}
  /\ Batches \subseteq Seq(CallKinds)
  /\ Replies \subseteq {"content", "reasoning", "malformed", "too_long", "condense", "raise"}
  /\ ToolResults \subseteq {"ok", "value_error", "raise"}
  /\ ActionHooks \subseteq {"allow", "block"}
  /\ PromptHooks \subseteq {"allow", "block", "block_with_context"}
  /\ StopHooks \subseteq {"allow", "deny"}
  /\ Confirms \subseteq BOOLEAN /\ Stucks \subseteq BOOLEAN
  /\ {MaxRuns, MaxMessages, MaxActions, MaxRequests, MaxCrashes} \subseteq Nat

VARIABLES
  status,          \* execution_status
  log,             \* the event log
  blockedActions,  \* blocked_actions and
  blockedMessages, \* blocked_messages of the state
  lock,            \* the thread that holds the state lock
  pc,              \* where each thread is
  iteration,       \* `iteration` of each run()
  todo,            \* the actions an agent step, or a rejection, has collected
  calls,           \* the tool calls of a response still to be turned into events
  lastAction, lastMessage,  \* the latest ids given out
  runs, crashes,   \* counted for the bounds
  \* history, read by the properties only
  executed,        \* how often each action's tool has been called
  unconfirmed,     \* actions the user was asked about and has not accepted
  unseen,          \* user messages no LLM call has been given yet
  deniedActions, deniedMessages,  \* what the hooks blocked
  held             \* a pause took effect and no run() was called since

durable == <<status, log, blockedActions, blockedMessages>>
locals == <<lock, pc, iteration, todo, calls>>
ids == <<lastAction, lastMessage>>
counters == <<runs, crashes>>
history == <<executed, unconfirmed, unseen, deniedActions, deniedMessages, held>>
vars == <<durable, locals, ids, counters, history>>

Statuses == {"IDLE", "RUNNING", "PAUSED", "WAITING", "FINISHED", "ERROR", "STUCK"}

\* out: in no call; loop: in run() between iterations; request: condense() has
\* appended its request; reject: reject_pending_actions() has read the pending
\* actions; raised: an exception left the locked part of run().  The rest holds the
\* lock: rejecting, writing the rejections; the others, inside Agent.step.
Outside == {"out", "loop", "request", "reject", "raised"}
InStep == {"unmarked_message", "sample", "emit", "exec", "unmarked_action",
           "returned", "failed", "finish", "ended"}
Inside == InStep \cup {"rejecting"}

ActionIds == 1 .. MaxActions
MessageIds == 1 .. MaxMessages

TypeOK ==
  /\ status \in Statuses
  /\ log \in Seq(Events)
  /\ blockedActions \subseteq ActionIds /\ deniedActions \subseteq ActionIds
  /\ blockedMessages \subseteq MessageIds /\ deniedMessages \subseteq MessageIds
  /\ lock \in Threads \cup {NoThread}
  /\ pc \in [Threads -> Outside \cup Inside]
  /\ iteration \in [Threads -> 0 .. MaxIteration - 1]
  /\ todo \in [Threads -> SUBSET ActionIds]
  /\ calls \in [Threads -> Seq(CallKinds)]
  /\ lastAction \in 0 .. MaxActions /\ lastMessage \in 0 .. MaxMessages
  /\ runs \in 0 .. MaxRuns /\ crashes \in 0 .. MaxCrashes
  /\ executed \in [ActionIds -> Nat]
  /\ unconfirmed \subseteq ActionIds /\ unseen \subseteq MessageIds
  /\ held \in BOOLEAN

Init ==
  /\ status = "IDLE" /\ log = <<>>
  /\ blockedActions = {} /\ blockedMessages = {}
  /\ lock = NoThread
  /\ pc = [t \in Threads |-> "out"]
  /\ iteration = [t \in Threads |-> 0]
  /\ todo = [t \in Threads |-> {}]
  /\ calls = [t \in Threads |-> <<>>]
  /\ lastAction = 0 /\ lastMessage = 0
  /\ runs = 0 /\ crashes = 0
  /\ executed = [a \in ActionIds |-> 0]
  /\ unconfirmed = {} /\ unseen = {}
  /\ deniedActions = {} /\ deniedMessages = {}
  /\ held = FALSE

Goto(t, p) == pc' = [pc EXCEPT ![t] = p]
Pending == Unmatched(log)
First(S) == CHOOSE a \in S : \A b \in S : a <= b
Post(e) == log' = Append(log, e)
KindOf(a) == log[CHOOSE i \in 1 .. Len(log) : log[i].kind \in Executable /\ log[i].id = a].kind

MutFree == TRUE                             \* mutant: `with self._state` does not wait
Free == lock = NoThread
-----------------------------------------------------------------------------
(* Calls by users.                                                         *)

\* A user message goes through the UserPromptSubmit hooks: a blocked one is marked
\* by id, but with additional context the event is made anew, under another id, and
\* the mark names no event of the log.
PostUser(verdict) ==
  /\ lastMessage < MaxMessages
  /\ lastMessage' = lastMessage + 1
  /\ Post(Event("user", lastMessage + 1))
  /\ blockedMessages' = IF verdict = "block" THEN blockedMessages \cup {lastMessage + 1}
                                             ELSE blockedMessages
  /\ deniedMessages' = IF verdict = "allow" THEN deniedMessages
                                            ELSE deniedMessages \cup {lastMessage + 1}

MutStatusOnMessage == status                \* mutant: FINISHED is left alone
StatusOnMessage == IF status = "FINISHED" THEN "IDLE" ELSE status

SendMessage(verdict) ==
  /\ Free
  /\ PostUser(verdict)
  /\ status' = StatusOnMessage
  /\ unseen' = unseen \cup {lastMessage + 1}
  /\ UNCHANGED <<blockedActions, locals, lastAction, counters>>
  /\ UNCHANGED <<executed, unconfirmed, deniedActions, held>>

Pause ==
  /\ Free /\ status \in {"IDLE", "RUNNING"}
  /\ status' = "PAUSED"
  /\ held' = TRUE
  /\ UNCHANGED <<log, blockedActions, blockedMessages, locals, ids, counters>>
  /\ UNCHANGED <<executed, unconfirmed, unseen, deniedActions, deniedMessages>>

\* The pending actions are read before the lock is taken...
RejectRead(t) ==
  /\ pc[t] = "out"
  /\ todo' = [todo EXCEPT ![t] = Pending]
  /\ Goto(t, "reject")
  /\ UNCHANGED <<durable, lock, iteration, calls, ids, counters, history>>

MutStatusOnReject == status                 \* mutant: the conversation stays WAITING
StatusOnReject == IF status = "WAITING" THEN "IDLE" ELSE status

\* ... and rejected, in order, under it.
RejectEnter(t) ==
  /\ pc[t] = "reject" /\ Free
  /\ status' = StatusOnReject
  /\ lock' = t
  /\ Goto(t, "rejecting")
  /\ UNCHANGED <<log, blockedActions, blockedMessages, iteration, todo, calls, ids, counters, history>>

RejectNext(t) ==
  /\ pc[t] = "rejecting"
  /\ IF todo[t] = {}
       THEN /\ lock' = NoThread
            /\ Goto(t, "out")
            /\ UNCHANGED <<log, todo>>
       ELSE /\ Post(Event("rejection", First(todo[t])))
            /\ todo' = [todo EXCEPT ![t] = @ \ {First(@)}]
            /\ UNCHANGED <<lock, pc>>
  /\ UNCHANGED <<status, blockedActions, blockedMessages, iteration, calls, ids, counters, history>>

Requests == Cardinality({i \in 1 .. Len(log) : log[i].kind = "request"})

\* condense() appends its request without the lock.
RequestCondensation(t) ==
  /\ pc[t] = "out" /\ Requests < MaxRequests
  /\ Post(Event("request", 0))
  /\ Goto(t, "request")
  /\ UNCHANGED <<status, blockedActions, blockedMessages, lock, iteration, todo, calls>>
  /\ UNCHANGED <<ids, counters, history>>

\* A run() while the agent waits for confirmation is the user's consent to the
\* pending actions.
RunCall(t) ==
  /\ pc[t] = "out" /\ Free /\ runs < MaxRuns
  /\ status' = IF status \in {"IDLE", "PAUSED", "ERROR"} THEN "RUNNING" ELSE status
  /\ Goto(t, "loop")
  /\ iteration' = [iteration EXCEPT ![t] = 0]
  /\ runs' = runs + 1
  /\ unconfirmed' = IF status = "WAITING" THEN unconfirmed \ Pending ELSE unconfirmed
  /\ held' = FALSE
  /\ UNCHANGED <<log, blockedActions, blockedMessages, lock, todo, calls, ids, crashes>>
  /\ UNCHANGED <<executed, unseen, deniedActions, deniedMessages>>
-----------------------------------------------------------------------------
(* The loop of run(), between two steps.                                   *)

AtTop(t) == pc[t] = "loop" /\ Free

MutStops == {"STUCK"}                       \* mutant: PAUSED is not looked at
Stops == {"PAUSED", "STUCK"}

\* Stopped, or finished with the consent of the stop hooks.
Leave(t) ==
  /\ AtTop(t)
  /\ status \in Stops \/ (status = "FINISHED" /\ "allow" \in StopHooks)
  /\ Goto(t, "out")
  /\ UNCHANGED <<durable, lock, iteration, todo, calls, ids, counters, history>>

\* The stop hooks deny and the run goes on: their feedback becomes a user message, but
\* a hook may deny without a reason or context, and then there is none.
NoFeedback == UNCHANGED <<log, blockedMessages, lastMessage, deniedMessages>>
StopDenied(t, verdict) ==
  /\ AtTop(t) /\ status = "FINISHED" /\ "deny" \in StopHooks
  /\ PostUser(verdict) \/ NoFeedback
  /\ status' = "RUNNING"
  /\ UNCHANGED <<blockedActions, locals, lastAction, counters>>
  /\ UNCHANGED <<executed, unconfirmed, unseen, deniedActions, held>>

Active == status \notin Stops \cup {"FINISHED"}

DetectStuck(t) ==
  /\ AtTop(t) /\ Active /\ TRUE \in Stucks
  /\ status' = "STUCK"
  /\ UNCHANGED <<log, blockedActions, blockedMessages, locals, ids, counters, history>>

\* The head of Agent.step: pending actions are executed and nothing else is done; a
\* blocked last message ends the turn; otherwise the LLM is asked.
EnterStep(t) ==
  /\ lock' = t
  /\ \/ /\ Pending # {}
        /\ Goto(t, "exec")
        /\ todo' = [todo EXCEPT ![t] = Pending]
        /\ UNCHANGED blockedMessages
     \/ /\ Pending = {} /\ LastUserMessage(log) \in blockedMessages
        /\ blockedMessages' = blockedMessages \ {LastUserMessage(log)}
        /\ Goto(t, "unmarked_message")
        /\ UNCHANGED todo
     \/ /\ Pending = {} /\ LastUserMessage(log) \notin blockedMessages
        /\ Goto(t, "sample")
        /\ UNCHANGED <<blockedMessages, todo>>
  /\ UNCHANGED <<log, blockedActions, iteration, calls, ids, counters, history>>

\* A step that begins while the agent waits for confirmation takes it as given.
StartStep(t) ==
  /\ AtTop(t) /\ Active
  /\ FALSE \in Stucks
  /\ status' = IF status = "WAITING" THEN "RUNNING" ELSE status
  /\ EnterStep(t)

\* condense(): one step, whatever the status and the pending actions.
CondenseStep(t) ==
  /\ pc[t] = "request" /\ Free
  /\ EnterStep(t)
  /\ UNCHANGED status
-----------------------------------------------------------------------------
(* Agent.step, under the lock.                                             *)

\* An exception leaves the step: the lock is released on the way out of `with`.
MutAfterRaise == lock                       \* mutant: the exception keeps the lock
AfterRaise == NoThread

RaiseOut(t) ==
  /\ lock' = AfterRaise
  /\ Goto(t, IF t \in Runners THEN "raised" ELSE "out")
  /\ todo' = [todo EXCEPT ![t] = {}]
  /\ calls' = [calls EXCEPT ![t] = <<>>]
  /\ UNCHANGED <<durable, iteration, ids, counters>>
  /\ UNCHANGED <<unconfirmed, unseen, deniedActions, deniedMessages, held>>

\* The mark of the blocked message is gone; the status is saved in a second write.
FinishBlocked(t) ==
  /\ pc[t] = "unmarked_message"
  /\ status' = "FINISHED"
  /\ Goto(t, "ended")
  /\ UNCHANGED <<log, blockedActions, blockedMessages, lock, iteration, todo, calls>>
  /\ UNCHANGED <<ids, counters, history>>

\* An event other than a user message is appended and the step goes on at p.
Write(t, e, p) ==
  /\ Post(e)
  /\ Goto(t, p)
  /\ UNCHANGED <<status, blockedActions, blockedMessages, lock, iteration, ids, counters>>
  /\ UNCHANGED <<executed, unconfirmed, deniedActions, deniedMessages, held>>

\* The condenser returns a condensation, on request or of its own, or fails.
Condense(t) ==
  /\ pc[t] = "sample"
  /\ UnhandledRequest(log) \/ "condense" \in Replies
  /\ Write(t, Event("condensation", 0), "ended")
  /\ UNCHANGED <<todo, calls, unseen>>

CondenserRaises(t) ==
  /\ pc[t] = "sample" /\ "raise" \in Replies
  /\ UnhandledRequest(log) \/ "condense" \in Replies
  /\ RaiseOut(t)
  /\ UNCHANGED executed

Asks(t) == pc[t] = "sample" /\ ~ UnhandledRequest(log)

\* The LLM answers with tool calls...
Respond(t, batch) ==
  /\ Asks(t) /\ Len(batch) <= MaxActions - lastAction
  /\ calls' = [calls EXCEPT ![t] = batch]
  /\ Goto(t, "emit")
  /\ unseen' = {}
  /\ UNCHANGED <<durable, lock, iteration, todo, ids, counters>>
  /\ UNCHANGED <<executed, unconfirmed, deniedActions, deniedMessages, held>>

\* ... with a message, which ends the turn if it has content...
Answer(t) ==
  /\ Asks(t)
  /\ \/ "content" \in Replies /\ Write(t, Event("agent", 0), "finish")
     \/ "reasoning" \in Replies /\ Write(t, Event("agent", 0), "ended")
  /\ unseen' = {}
  /\ UNCHANGED <<todo, calls>>

\* ... with a malformed call, reported back to it as a user message...
Malformed(t, verdict) ==
  /\ Asks(t) /\ "malformed" \in Replies
  /\ PostUser(verdict)
  /\ Goto(t, "ended")
  /\ unseen' = {}
  /\ UNCHANGED <<status, blockedActions, lock, iteration, todo, calls, lastAction, counters>>
  /\ UNCHANGED <<executed, unconfirmed, deniedActions, held>>

\* ... or not at all: the context is too long, or the call fails.
TooLong(t) ==
  /\ Asks(t) /\ "too_long" \in Replies /\ Requests < MaxRequests
  /\ Write(t, Event("request", 0), "ended")
  /\ UNCHANGED <<todo, calls, unseen>>

LLMRaises(t) ==
  /\ Asks(t) /\ "raise" \in Replies
  /\ RaiseOut(t)
  /\ UNCHANGED executed

\* The calls of a response become events one by one: an invalid one an ActionEvent
\* without action and its error, the others ActionEvents the PreToolUse hooks have
\* judged, the mark of a blocked one being saved before its event.
EmitInvalid(t) ==
  /\ pc[t] = "emit" /\ calls[t] # <<>> /\ Head(calls[t]) = "invalid"
  /\ lastAction' = lastAction + 1
  /\ log' = log \o <<Event("invalid", lastAction + 1), Event("error", lastAction + 1)>>
  /\ calls' = [calls EXCEPT ![t] = Tail(@)]
  /\ UNCHANGED <<status, blockedActions, blockedMessages, lock, pc, iteration, todo>>
  /\ UNCHANGED <<lastMessage, counters, history>>

Emit(t, verdict) ==
  /\ pc[t] = "emit" /\ calls[t] # <<>> /\ Head(calls[t]) \in Executable
  /\ lastAction' = lastAction + 1
  /\ Post(Event(Head(calls[t]), lastAction + 1))
  /\ calls' = [calls EXCEPT ![t] = Tail(@)]
  /\ todo' = [todo EXCEPT ![t] = @ \cup {lastAction + 1}]
  /\ LET denied == IF verdict = "block" THEN {lastAction + 1} ELSE {}
     IN /\ blockedActions' = blockedActions \cup denied
        /\ deniedActions' = deniedActions \cup denied
  /\ UNCHANGED <<status, blockedMessages, lock, pc, iteration, lastMessage, counters>>
  /\ UNCHANGED <<executed, unconfirmed, unseen, deniedMessages, held>>

\* A lone finish action is never asked about (nor a lone ThinkAction, which is a tool
\* here, of a batch the policy lets through).
NeverConfirmed(S) == Cardinality(S) = 1 /\ \A a \in S : KindOf(a) = "finish"

AskConfirm(t) ==
  /\ pc[t] = "emit" /\ calls[t] = <<>>
  /\ todo[t] # {} /\ ~ NeverConfirmed(todo[t]) /\ TRUE \in Confirms
  /\ status' = "WAITING"
  /\ unconfirmed' = unconfirmed \cup todo[t]
  /\ todo' = [todo EXCEPT ![t] = {}]
  /\ Goto(t, "ended")
  /\ UNCHANGED <<log, blockedActions, blockedMessages, lock, iteration, calls, ids, counters>>
  /\ UNCHANGED <<executed, unseen, deniedActions, deniedMessages, held>>

GoAhead(t) ==
  /\ pc[t] = "emit" /\ calls[t] = <<>>
  /\ todo[t] = {} \/ NeverConfirmed(todo[t]) \/ FALSE \in Confirms
  /\ Goto(t, "exec")
  /\ UNCHANGED <<durable, lock, iteration, todo, calls, ids, counters, history>>
-----------------------------------------------------------------------------
(* Execution of the collected actions, in order.                           *)

NextAction(t) == First(todo[t])

\* A blocked action loses its mark...
Unmark(t) ==
  /\ pc[t] = "exec" /\ todo[t] # {} /\ NextAction(t) \in blockedActions
  /\ blockedActions' = blockedActions \ {NextAction(t)}
  /\ Goto(t, "unmarked_action")
  /\ UNCHANGED <<status, log, blockedMessages, lock, iteration, todo, calls>>
  /\ UNCHANGED <<ids, counters, history>>

\* ... and is rejected by a later write.
RejectBlocked(t) ==
  /\ pc[t] = "unmarked_action"
  /\ Write(t, Event("rejection", NextAction(t)), "exec")
  /\ todo' = [todo EXCEPT ![t] = @ \ {First(@)}]
  /\ UNCHANGED <<calls, unseen>>

MutMayCall(a) == TRUE                       \* mutant: the marks of the hooks are not read
MayCall(a) == a \notin blockedActions

\* The tool runs.  A finish action only echoes its message and cannot fail.
CallTool(t) ==
  /\ pc[t] = "exec" /\ todo[t] # {} /\ MayCall(NextAction(t))
  /\ executed' = [executed EXCEPT ![NextAction(t)] = @ + 1]
  /\ \/ /\ "ok" \in ToolResults \/ KindOf(NextAction(t)) = "finish"
        /\ Goto(t, "returned")
        /\ UNCHANGED <<durable, lock, iteration, todo, calls, ids, counters>>
        /\ UNCHANGED <<unconfirmed, unseen, deniedActions, deniedMessages, held>>
     \/ /\ "value_error" \in ToolResults /\ KindOf(NextAction(t)) = "tool"
        /\ Goto(t, "failed")
        /\ UNCHANGED <<durable, lock, iteration, todo, calls, ids, counters>>
        /\ UNCHANGED <<unconfirmed, unseen, deniedActions, deniedMessages, held>>
     \/ /\ "raise" \in ToolResults /\ KindOf(NextAction(t)) = "tool"
        /\ RaiseOut(t)

\* Its observation is saved; a finish action goes on to set the status.
Observe(t) ==
  /\ pc[t] = "returned"
  /\ Write(t, Event("observation", NextAction(t)),
                IF KindOf(NextAction(t)) = "finish" THEN "finish" ELSE "exec")
  /\ todo' = [todo EXCEPT ![t] = @ \ {First(@)}]
  /\ UNCHANGED <<calls, unseen>>

\* A ValueError becomes an AgentErrorEvent and the next action has its turn.
ReportError(t) ==
  /\ pc[t] = "failed"
  /\ Write(t, Event("error", NextAction(t)), "exec")
  /\ todo' = [todo EXCEPT ![t] = @ \ {First(@)}]
  /\ UNCHANGED <<calls, unseen>>

MutAfterFinish == "ended"                   \* mutant: the rest of the batch is dropped
AfterFinish == "exec"

\* FINISHED, after a finish action or a message with content; what remains of the
\* batch is still executed.
Finish(t) ==
  /\ pc[t] = "finish"
  /\ status' = "FINISHED"
  /\ Goto(t, AfterFinish)
  /\ UNCHANGED <<log, blockedActions, blockedMessages, lock, iteration, todo, calls>>
  /\ UNCHANGED <<ids, counters, history>>

AllExecuted(t) ==
  /\ pc[t] = "exec" /\ todo[t] = {}
  /\ Goto(t, "ended")
  /\ UNCHANGED <<durable, lock, iteration, todo, calls, ids, counters, history>>

MutAwaitsUser == FALSE                      \* mutant: the loop goes on after asking
AwaitsUser == status = "WAITING"

AtLimit(n) == n >= MaxIteration

\* Back from Agent.step.  run() leaves its loop to wait for confirmation, or with
\* ERROR at the iteration limit, whatever the status was; otherwise it loops.
EndStep(t) ==
  /\ pc[t] = "ended"
  /\ lock' = NoThread
  /\ LET n == iteration[t] + 1
         limit == t \in Runners /\ ~ AwaitsUser /\ AtLimit(n)
         again == t \in Runners /\ ~ AwaitsUser /\ ~ AtLimit(n)
     IN /\ status' = IF limit THEN "ERROR" ELSE status
        /\ Goto(t, IF again THEN "loop" ELSE "out")
        /\ iteration' = [iteration EXCEPT ![t] = IF again THEN n ELSE 0]
  /\ UNCHANGED <<log, blockedActions, blockedMessages, todo, calls, ids, counters, history>>

\* run() handles the exception without the lock.
Raised(t) ==
  /\ pc[t] = "raised"
  /\ status' = "ERROR"
  /\ Goto(t, "out")
  /\ iteration' = [iteration EXCEPT ![t] = 0]
  /\ UNCHANGED <<log, blockedActions, blockedMessages, lock, todo, calls, ids, counters, history>>
-----------------------------------------------------------------------------
(* The server stops between two writes and EventService.start() loads the  *)
(* conversation again: one that was running goes to ERROR, and an error is *)
(* recorded for its first pending action.                                  *)
CrashRestart ==
  /\ crashes < MaxCrashes
  /\ crashes' = crashes + 1
  /\ lock' = NoThread
  /\ pc' = [t \in Threads |-> "out"]
  /\ iteration' = [t \in Threads |-> 0]
  /\ todo' = [t \in Threads |-> {}]
  /\ calls' = [t \in Threads |-> <<>>]
  /\ status' = IF status = "RUNNING" THEN "ERROR" ELSE status
  /\ log' = IF status = "RUNNING" /\ Pending # {}
              THEN Append(log, Event("error", First(Pending))) ELSE log
  /\ UNCHANGED <<blockedActions, blockedMessages, ids, runs, history>>
-----------------------------------------------------------------------------
\* One pass over the head of the loop of run().
Loop(t) == \/ Leave(t) \/ DetectStuck(t) \/ StartStep(t)
           \/ \E v \in PromptHooks : StopDenied(t, v)

Ask(t) == \/ Condense(t) \/ CondenserRaises(t) \/ Answer(t) \/ TooLong(t) \/ LLMRaises(t)
          \/ \E b \in Batches : Respond(t, b)
          \/ \E v \in PromptHooks : Malformed(t, v)

Collect(t) == \/ EmitInvalid(t) \/ AskConfirm(t) \/ GoAhead(t)
              \/ \E v \in ActionHooks : Emit(t, v)

Execute(t) == \/ Unmark(t) \/ RejectBlocked(t) \/ CallTool(t) \/ Observe(t)
              \/ ReportError(t) \/ Finish(t) \/ AllExecuted(t)

\* What a thread inside Agent.step, or unwinding from it, does next.
Step(t) == FinishBlocked(t) \/ Ask(t) \/ Collect(t) \/ Execute(t) \/ EndStep(t) \/ Raised(t)

Next ==
  \/ \E v \in PromptHooks : SendMessage(v)
  \/ Pause
  \/ CrashRestart
  \/ \E t \in Rejecters : RejectRead(t) \/ RejectEnter(t) \/ RejectNext(t)
  \/ \E t \in Condensers : RequestCondensation(t) \/ CondenseStep(t)
  \/ \E t \in Runners : RunCall(t) \/ Loop(t)
  \/ \E t \in Runners \cup Condensers : Step(t)

Spec == Init /\ [][Next]_vars

\* LLM calls, tools and hooks return, a rejecter that has the lock goes on, and FIFOLock
\* lets every waiting thread in.
Fairness ==
  /\ \A t \in Rejecters : WF_vars(RejectNext(t))
  /\ \A t \in Runners : SF_vars(Loop(t))
  /\ \A t \in Runners \cup Condensers : WF_vars(Step(t))

FairSpec == Spec /\ Fairness
-----------------------------------------------------------------------------
(* Safety.                                                                 *)

\* An action that has its result in the log, an observation or a rejection, is never
\* executed (again): what Agent.step executes it has read from the log under the lock
\* that every writer of results holds.
ResultIsFinal ==
  [][\A a \in ActionIds : executed'[a] # executed[a] =>
                             ~ Has(log, {"observation", "rejection"}, a)]_vars

\* No action gets two results (a later LLM call would be refused by the provider).
OneResult ==
  \A i, j \in 1 .. Len(log) :
     ({log[i].kind, log[j].kind} \subseteq {"observation", "rejection"} /\ log[i].id = log[j].id)
       => i = j

\* Without crashes and failing tools, concurrent runs execute an action at most once.
ExecutedOnce == \A a \in ActionIds : executed[a] <= 1

\* The tool of an action that a PreToolUse hook blocked is never called, whoever
\* executes the action and however late.
BlockedNeverExecuted == \A a \in deniedActions : executed[a] = 0

\* Without crashes and failing tools, a finished conversation has answered every
\* action of the batch, those behind the finish action too.
FinishedIsClean == (status = "FINISHED" /\ lock = NoThread) => Pending = {}

\* What the user was asked about is executed only after a run() that accepts it.
ConfirmedOnly ==
  [][\A a \in ActionIds : executed'[a] # executed[a] => a \notin unconfirmed]_vars

\* The user is asked only while there is something to confirm.
AskedAboutPending == (status = "WAITING" /\ lock = NoThread) => Pending # {}

\* Once a pause took effect no step runs before the next run().
PauseHolds == held => \A t \in Runners : pc[t] \notin InStep
-----------------------------------------------------------------------------
(* Liveness.                                                               *)

\* run() comes back, whatever the LLM, the tools, the hooks and the other callers do.
RunReturns == \A t \in Runners : (pc[t] # "out") ~> (pc[t] = "out")

\* A message sent while a run is in its loop is given to the LLM by that run, unless
\* the run stops short (the reason the loop gives for not leaving on FINISHED).
MessageProcessed ==
  \A m \in MessageIds, t \in Runners :
     (m \in unseen /\ pc[t] = "loop")
       ~> (m \notin unseen \/ status \in {"PAUSED", "STUCK", "WAITING", "ERROR"})
-----------------------------------------------------------------------------
(* What docstrings and comments of the code promise, and the code does not *)
(* keep.                                                                   *)

\* An action that was executed is not rejected, nor a rejected one executed.
ExecutedOrRejected ==
  \A a \in ActionIds : Has(log, {"rejection"}, a) => ~ Has(log, {"observation"}, a)

\* condense() only condenses: it executes no tool.
CondenseOnly == [][executed' # executed => lock \notin Condensers]_vars

\* An action reported to the agent as failed or interrupted is not executed again.
ReportedIsOver ==
  [][\A a \in ActionIds : executed'[a] # executed[a] => ~ Has(log, {"error"}, a)]_vars

\* A message the hooks blocked is not given to the LLM as the message to answer.
BlockedNotSampled ==
  [][\A m \in deniedMessages : m \in unseen \ unseen' => m # LastUserMessage(log)]_vars

\* A finished conversation is not turned into a failed one.
FinishedIsNotError == [][status = "FINISHED" => status' # "ERROR"]_vars
=============================================================================
