-------------------------- MODULE ConversationProofs --------------------------
(***************************************************************************)
(* Theorems about Conversation, for any threads, any answers of the LLM,   *)
(* the tools and the hooks, and any bounds.                                *)
(***************************************************************************)
EXTENDS Conversation, SequenceTheorems, WellFoundedInduction, TLAPS
-----------------------------------------------------------------------------
(* Lemmas about the log.                                                   *)

\* A non-empty set of action ids has a first element.
LEMMA FirstProperties ==
  ASSUME NEW S, S \subseteq Nat, S # {}
  PROVE  First(S) \in S
<1> DEFINE R == {ss \in Nat \X Nat : ss[1] < ss[2]}
<1>1. IsWellFoundedOn(R, Nat)
  BY NatLessThanWellFounded DEF OpToRel
<1> HIDE DEF R
<1>2. PICK a \in S : \A b \in S : ~ (<<b, a>> \in R)
  BY <1>1, WFMin
<1>3. ASSUME NEW b \in S PROVE a <= b
  <2>1. a \in Nat /\ b \in Nat /\ <<b, a>> \notin R
    BY <1>2
  <2> QED BY <2>1 DEF R
<1> QED BY <1>3 DEF First

\* Appending an event that is no result leaves the pending actions pending.
LEMMA AppendKeepsPending ==
  ASSUME NEW l \in Seq(Events), NEW e \in Events, e.kind \notin Results
  PROVE  Unmatched(l) \subseteq Unmatched(Append(l, e))
<1>1. /\ Len(Append(l, e)) = Len(l) + 1
      /\ \A i \in 1 .. Len(l) : Append(l, e)[i] = l[i]
      /\ Append(l, e)[Len(l) + 1] = e
      /\ Len(l) \in Nat
  BY AppendProperties, LenProperties
<1>2. 1 .. Len(l) + 1 = 1 .. Len(l) \cup {Len(l) + 1}
  BY <1>1
<1> QED BY <1>1, <1>2 DEF Unmatched, Settled, Has

\* Appending the result of one action leaves the others pending.
LEMMA ResultKeepsOthers ==
  ASSUME NEW l \in Seq(Events), NEW e \in Events
  PROVE  Unmatched(l) \ {e.id} \subseteq Unmatched(Append(l, e))
<1>1. /\ Len(Append(l, e)) = Len(l) + 1
      /\ \A i \in 1 .. Len(l) : Append(l, e)[i] = l[i]
      /\ Append(l, e)[Len(l) + 1] = e
      /\ Len(l) \in Nat
  BY AppendProperties, LenProperties
<1>2. 1 .. Len(l) + 1 = 1 .. Len(l) \cup {Len(l) + 1}
  BY <1>1
<1> QED BY <1>1, <1>2 DEF Unmatched, Settled, Has

\* What the log says of ids: those of actions have been given out.
ActionKinds == CallKinds \cup Results \cup {"error"}
Known(l, n) == \A i \in 1 .. Len(l) : l[i].kind \in ActionKinds => l[i].id \in 1 .. n

\* The log stays one of known actions when an event about a known one is appended.
LEMMA AppendKnown ==
  ASSUME NEW l \in Seq(Events), NEW e \in Events, NEW m \in Nat, NEW n \in Nat,
         Known(l, m), m <= n, e.kind \in ActionKinds => e.id \in 1 .. n
  PROVE  Known(Append(l, e), n)
<1>1. /\ Len(Append(l, e)) = Len(l) + 1
      /\ \A i \in 1 .. Len(l) : Append(l, e)[i] = l[i]
      /\ Append(l, e)[Len(l) + 1] = e
      /\ Len(l) \in Nat
  BY AppendProperties, LenProperties
<1>2. 1 .. Len(l) + 1 = 1 .. Len(l) \cup {Len(l) + 1}
  BY <1>1
<1>3. 1 .. m \subseteq 1 .. n
  OBVIOUS
<1> QED BY <1>1, <1>2, <1>3 DEF Known

\* What is pending are numbers that were given to actions.
LEMMA PendingKnown ==
  ASSUME NEW l \in Seq(Events), NEW n \in Nat, Known(l, n)
  PROVE  Unmatched(l) \subseteq 1 .. n
BY DEF Known, Unmatched, Has, ActionKinds, CallKinds

\* An action just made is pending: nothing in the log can be about it.
LEMMA NewIsPending ==
  ASSUME NEW l \in Seq(Events), NEW n \in Nat, Known(l, n),
         NEW e \in Events, e.kind \in Executable, e.id = n + 1
  PROVE  n + 1 \in Unmatched(Append(l, e))
<1>1. /\ Len(Append(l, e)) = Len(l) + 1
      /\ \A i \in 1 .. Len(l) : Append(l, e)[i] = l[i]
      /\ Append(l, e)[Len(l) + 1] = e
      /\ Len(l) \in Nat
  BY AppendProperties, LenProperties
<1>2. 1 .. Len(l) + 1 = 1 .. Len(l) \cup {Len(l) + 1}
  BY <1>1
<1>3. \A i \in 1 .. Len(l) : l[i].kind \in Results => l[i].id # n + 1
  BY DEF Known, ActionKinds
<1>4. e.kind \notin Results
  BY DEF Executable, Results
<1> QED BY <1>1, <1>2, <1>3, <1>4 DEF Unmatched, Settled, Has
-----------------------------------------------------------------------------
(***************************************************************************)
(* The inductive invariant.  That a result is final rests on the lock: the *)
(* thread inside Agent.step holds it, so nobody settles an action between  *)
(* the reading of the pending actions and their execution.                 *)
(***************************************************************************)
Collecting == {"emit", "exec", "unmarked_action", "returned", "failed", "finish",
               "reject", "rejecting"}

ThreadInv(t) ==
  /\ pc[t] \in Inside => lock = t
  /\ pc[t] \in InStep => todo[t] \subseteq Unmatched(log)
  /\ pc[t] \notin Collecting => todo[t] = {}
  /\ pc[t] \in {"unmarked_action", "returned", "failed"} => todo[t] # {}
  /\ todo[t] \subseteq 1 .. lastAction
  /\ pc[t] = "emit" => Len(calls[t]) <= MaxActions - lastAction

ThreadsInv == \A t \in Threads : ThreadInv(t)

ConvInv == TypeOK /\ Known(log, lastAction) /\ ThreadsInv

\* Appending an event of the model keeps the type of the log.
LEMMA EventTyped ==
  ASSUME NEW k \in Kinds, NEW n \in Nat
  PROVE  Event(k, n) \in Events /\ Event(k, n).kind = k /\ Event(k, n).id = n
BY DEF Event, Events

\* The bounds are numbers.
LEMMA BoundsAreNat ==
  /\ MaxRuns \in Nat /\ MaxMessages \in Nat /\ MaxActions \in Nat
  /\ MaxRequests \in Nat /\ MaxCrashes \in Nat
  /\ MaxIteration \in Nat /\ 0 \in 0 .. MaxIteration - 1
  /\ <<>> \in Seq(CallKinds) /\ NoThread \notin Threads
BY EmptySeq, ConversationAssumption

\* A thread that is about to turn a call into an event has a call and an id for it.
LEMMA EmitRoom ==
  ASSUME ConvInv, NEW t \in Threads, pc[t] = "emit", calls[t] # <<>>
  PROVE  /\ lastAction + 1 \in ActionIds /\ lastAction + 1 \in 0 .. MaxActions
         /\ Tail(calls[t]) \in Seq(CallKinds) /\ Len(Tail(calls[t])) = Len(calls[t]) - 1
         /\ Len(calls[t]) \in Nat \ {0}
<1>1. calls[t] \in Seq(CallKinds)
  BY DEF ConvInv, TypeOK
<1>2. /\ Tail(calls[t]) \in Seq(CallKinds) /\ Len(Tail(calls[t])) = Len(calls[t]) - 1
      /\ Len(calls[t]) \in Nat \ {0}
  BY <1>1, HeadTailProperties, LenProperties, EmptySeq
<1>3. Len(calls[t]) <= MaxActions - lastAction /\ lastAction \in 0 .. MaxActions
  BY DEF ConvInv, TypeOK, ThreadsInv, ThreadInv
<1> QED BY <1>2, <1>3, BoundsAreNat DEF ActionIds

\* The head of a step keeps the types of what it writes.
LEMMA EnterStepTypes ==
  ASSUME TypeOK, Pending \subseteq ActionIds, NEW t \in Threads, EnterStep(t)
  PROVE  /\ pc' \in [Threads -> Outside \cup Inside]
         /\ todo' \in [Threads -> SUBSET ActionIds]
         /\ blockedMessages' \subseteq MessageIds
<1>1. /\ pc \in [Threads -> Outside \cup Inside]
      /\ todo \in [Threads -> SUBSET ActionIds]
      /\ blockedMessages \subseteq MessageIds
  BY DEF TypeOK
<1>2. \E p \in {"exec", "unmarked_message", "sample"} : Goto(t, p)
  BY DEF EnterStep
<1>3. {"exec", "unmarked_message", "sample"} \subseteq Outside \cup Inside
  BY DEF Outside, Inside, InStep
<1>4. pc' \in [Threads -> Outside \cup Inside]
  BY <1>1, <1>2, <1>3 DEF Goto
<1>5. todo' = todo \/ todo' = [todo EXCEPT ![t] = Pending]
  BY DEF EnterStep
<1>6. blockedMessages' \subseteq blockedMessages
  BY DEF EnterStep
<1> QED BY <1>1, <1>4, <1>5, <1>6

\* Every step that keeps the log well-typed keeps the other types.
LEMMA TypeStep == ASSUME ConvInv, [Next]_vars, log' \in Seq(Events) PROVE TypeOK'
<1> USE BoundsAreNat DEF ConvInv, TypeOK, Goto, Outside, InStep, Inside, Statuses,
        durable, locals, ids, counters, history
<1>0. Unmatched(log) \subseteq ActionIds
  BY PendingKnown DEF ActionIds
<1>1. ASSUME NEW v \in PromptHooks, SendMessage(v) PROVE TypeOK'
  <2>1. lastMessage + 1 \in MessageIds /\ lastMessage' \in 0 .. MaxMessages
    BY <1>1 DEF SendMessage, PostUser, MessageIds
  <2> QED BY <1>1, <2>1 DEF SendMessage, PostUser, StatusOnMessage
<1>2. ASSUME Pause PROVE TypeOK'
  BY <1>2 DEF Pause
<1>3. ASSUME CrashRestart PROVE TypeOK'
  BY <1>3 DEF CrashRestart
<1>4. ASSUME NEW t \in Threads, RejectRead(t) PROVE TypeOK'
  BY <1>4, <1>0 DEF RejectRead, Pending
<1>5. ASSUME NEW t \in Threads, RejectEnter(t) PROVE TypeOK'
  BY <1>5 DEF RejectEnter, StatusOnReject
<1>6. ASSUME NEW t \in Threads, RejectNext(t) PROVE TypeOK'
  <2>0. todo[t] \ {First(todo[t])} \subseteq ActionIds
    OBVIOUS
  <2>1. todo' \in [Threads -> SUBSET ActionIds]
    <3>1. todo' \in {todo, [todo EXCEPT ![t] = todo[t] \ {First(todo[t])}]}
      BY <1>6 DEF RejectNext
    <3> QED BY <2>0, <3>1
  <2>2. pc' \in [Threads -> Outside \cup Inside] /\ lock' \in Threads \cup {NoThread}
    BY <1>6 DEF RejectNext
  <2> QED BY <1>6, <2>1, <2>2 DEF RejectNext
<1>7. ASSUME NEW t \in Threads, RequestCondensation(t) PROVE TypeOK'
  BY <1>7 DEF RequestCondensation
<1>8. ASSUME NEW t \in Threads, CondenseStep(t) PROVE TypeOK'
  <2>1. /\ pc' \in [Threads -> Outside \cup Inside]
        /\ todo' \in [Threads -> SUBSET ActionIds] /\ blockedMessages' \subseteq MessageIds
    BY <1>8, <1>0, EnterStepTypes DEF CondenseStep, Pending
  <2> QED BY <1>8, <2>1 DEF CondenseStep, EnterStep
<1>9. ASSUME NEW t \in Threads, RunCall(t) PROVE TypeOK'
  <2>1. runs' \in 0 .. MaxRuns /\ iteration' \in [Threads -> 0 .. MaxIteration - 1]
    BY <1>9 DEF RunCall
  <2>2. unconfirmed' \subseteq ActionIds
    BY <1>9 DEF RunCall
  <2> QED BY <1>9, <2>1, <2>2 DEF RunCall
<1>10. ASSUME NEW t \in Threads, Leave(t) PROVE TypeOK'
  BY <1>10 DEF Leave
<1>11. ASSUME NEW t \in Threads, DetectStuck(t) PROVE TypeOK'
  BY <1>11 DEF DetectStuck
<1>12. ASSUME NEW t \in Threads, StartStep(t) PROVE TypeOK'
  <2>1. /\ pc' \in [Threads -> Outside \cup Inside]
        /\ todo' \in [Threads -> SUBSET ActionIds] /\ blockedMessages' \subseteq MessageIds
    BY <1>12, <1>0, EnterStepTypes DEF StartStep, Pending
  <2>2. status' \in Statuses /\ lock' = t
    BY <1>12 DEF StartStep, EnterStep
  <2> QED BY <1>12, <2>1, <2>2 DEF StartStep, EnterStep
<1>13. ASSUME NEW t \in Threads, NEW v \in PromptHooks, StopDenied(t, v) PROVE TypeOK'
  <2>1. CASE PostUser(v)
    <3>1. lastMessage + 1 \in MessageIds /\ lastMessage' \in 0 .. MaxMessages
      BY <2>1 DEF PostUser, MessageIds
    <3> QED BY <1>13, <2>1, <3>1 DEF StopDenied, PostUser
  <2>2. CASE NoFeedback
    BY <1>13, <2>2 DEF StopDenied, NoFeedback
  <2> QED BY <1>13, <2>1, <2>2 DEF StopDenied
<1>14. ASSUME NEW t \in Threads, FinishBlocked(t) PROVE TypeOK'
  BY <1>14 DEF FinishBlocked
<1>15. ASSUME NEW t \in Threads, Condense(t) PROVE TypeOK'
  BY <1>15 DEF Condense, Write
<1>16. ASSUME NEW t \in Threads, CondenserRaises(t) PROVE TypeOK'
  BY <1>16 DEF CondenserRaises, RaiseOut, AfterRaise
<1>17. ASSUME NEW t \in Threads, Answer(t) PROVE TypeOK'
  BY <1>17 DEF Answer, Asks, Write
<1>18. ASSUME NEW t \in Threads, TooLong(t) PROVE TypeOK'
  BY <1>18 DEF TooLong, Asks, Write
<1>19. ASSUME NEW t \in Threads, LLMRaises(t) PROVE TypeOK'
  BY <1>19 DEF LLMRaises, Asks, RaiseOut, AfterRaise
<1>20. ASSUME NEW t \in Threads, NEW b \in Batches, Respond(t, b) PROVE TypeOK'
  BY <1>20, ConversationAssumption DEF Respond, Asks
<1>21. ASSUME NEW t \in Threads, NEW v \in PromptHooks, Malformed(t, v) PROVE TypeOK'
  <2>1. lastMessage + 1 \in MessageIds /\ lastMessage' \in 0 .. MaxMessages
    BY <1>21 DEF Malformed, PostUser, MessageIds
  <2> QED BY <1>21, <2>1 DEF Malformed, Asks, PostUser
<1>22. ASSUME NEW t \in Threads, EmitInvalid(t) PROVE TypeOK'
  BY <1>22, EmitRoom DEF EmitInvalid
<1>23. ASSUME NEW t \in Threads, NEW v \in ActionHooks, Emit(t, v) PROVE TypeOK'
  <2>1. /\ lastAction' \in 0 .. MaxActions /\ calls' \in [Threads -> Seq(CallKinds)]
        /\ lastAction + 1 \in ActionIds
    BY <1>23, EmitRoom DEF Emit
  <2>2. todo' \in [Threads -> SUBSET ActionIds]
    BY <1>23, <2>1 DEF Emit
  <2>3. blockedActions' \subseteq ActionIds /\ deniedActions' \subseteq ActionIds
    BY <1>23, <2>1 DEF Emit
  <2> QED BY <1>23, <2>1, <2>2, <2>3 DEF Emit
<1>24. ASSUME NEW t \in Threads, AskConfirm(t) PROVE TypeOK'
  BY <1>24 DEF AskConfirm
<1>25. ASSUME NEW t \in Threads, GoAhead(t) PROVE TypeOK'
  BY <1>25 DEF GoAhead
<1>26. ASSUME NEW t \in Threads, Unmark(t) PROVE TypeOK'
  BY <1>26 DEF Unmark, NextAction
<1>27. ASSUME NEW t \in Threads, RejectBlocked(t) PROVE TypeOK'
  BY <1>27 DEF RejectBlocked, Write, NextAction
<1>28. ASSUME NEW t \in Threads, CallTool(t) PROVE TypeOK'
  <2>1. executed' \in [ActionIds -> Nat]
    <3>1. NextAction(t) \in ActionIds
      <4>1. todo[t] # {} /\ todo[t] \subseteq ActionIds /\ ActionIds \subseteq Nat
        <5>1. ActionIds \subseteq Nat
          BY DEF ActionIds
        <5>2. todo[t] # {}
          BY <1>28 DEF CallTool
        <5>3. todo[t] \subseteq ActionIds
          OBVIOUS
        <5> QED BY <5>1, <5>2, <5>3
      <4>2. First(todo[t]) \in todo[t]
        BY <4>1, FirstProperties
      <4> QED BY <4>1, <4>2 DEF NextAction
    <3>2. executed \in [ActionIds -> Nat]
      OBVIOUS
    <3>3. executed' = [executed EXCEPT ![NextAction(t)] = @ + 1]
      BY <1>28 DEF CallTool
    <3> HIDE DEF ActionIds, TypeOK, NextAction
    <3> QED BY <3>1, <3>2, <3>3
  <2>2. CASE RaiseOut(t)
    BY <1>28, <2>1, <2>2 DEF CallTool, RaiseOut, AfterRaise
  <2>3. CASE ~ RaiseOut(t)
    BY <1>28, <2>1, <2>3 DEF CallTool
  <2> QED BY <2>2, <2>3
<1>29. ASSUME NEW t \in Threads, Observe(t) PROVE TypeOK'
  BY <1>29 DEF Observe, Write, NextAction
<1>30. ASSUME NEW t \in Threads, ReportError(t) PROVE TypeOK'
  BY <1>30 DEF ReportError, Write, NextAction
<1>31. ASSUME NEW t \in Threads, Finish(t) PROVE TypeOK'
  BY <1>31 DEF Finish, AfterFinish
<1>32. ASSUME NEW t \in Threads, AllExecuted(t) PROVE TypeOK'
  BY <1>32 DEF AllExecuted
<1>33. ASSUME NEW t \in Threads, EndStep(t) PROVE TypeOK'
  <2>1. iteration' \in [Threads -> 0 .. MaxIteration - 1]
    BY <1>33 DEF EndStep, AtLimit
  <2> QED BY <1>33, <2>1 DEF EndStep
<1>34. ASSUME NEW t \in Threads, Raised(t) PROVE TypeOK'
  BY <1>34 DEF Raised
<1>35. CASE UNCHANGED vars
  BY <1>35 DEF vars
<1> QED
  BY <1>1, <1>2, <1>3, <1>4, <1>5, <1>6, <1>7, <1>8, <1>9, <1>10, <1>11, <1>12, <1>13, <1>14,
     <1>15, <1>16, <1>17, <1>18, <1>19, <1>20, <1>21, <1>22, <1>23, <1>24, <1>25, <1>26,
     <1>27, <1>28, <1>29, <1>30, <1>31, <1>32, <1>33, <1>34, <1>35 DEF Next, Loop, Ask,
     Collect, Execute, Step, Threads

\* Appending an event the model may append: its type, and the ids the log knows.
LEMMA PostTyped ==
  ASSUME NEW l \in Seq(Events), NEW m \in Nat, NEW n \in Nat, Known(l, m), m <= n,
         NEW k \in Kinds, NEW a \in Nat, k \in ActionKinds => a \in 1 .. n
  PROVE  Append(l, Event(k, a)) \in Seq(Events) /\ Known(Append(l, Event(k, a)), n)
<1>1. /\ Event(k, a) \in Events
      /\ Event(k, a).kind \in ActionKinds => Event(k, a).id \in 1 .. n
  BY EventTyped
<1> DEFINE e == Event(k, a)
<1> HIDE DEF e
<1>2. Append(l, e) \in Seq(Events)
  BY <1>1, AppendProperties DEF e
<1>3. Known(Append(l, e), n)
  BY <1>1, AppendKnown DEF e
<1> QED BY <1>2, <1>3 DEF e

\* The action a thread is at is one of its own and has been numbered.
LEMMA CurrentKnown ==
  ASSUME ConvInv, NEW t \in Threads, todo[t] # {}
  PROVE  First(todo[t]) \in todo[t] /\ First(todo[t]) \in 1 .. lastAction
<1>1. todo[t] \subseteq 1 .. lastAction /\ todo[t] \subseteq Nat
  BY DEF ConvInv, TypeOK, ThreadsInv, ThreadInv
<1> QED BY <1>1, FirstProperties

\* Every step keeps the log well-typed and its actions known.
LEMMA LogStep ==
  ASSUME ConvInv, [Next]_vars
  PROVE  log' \in Seq(Events) /\ Known(log', lastAction')
<1> DEFINE Goal == log' \in Seq(Events) /\ Known(log', lastAction')
<1> USE DEF durable, ids, locals, history
<1>a. /\ log \in Seq(Events) /\ lastAction \in Nat /\ Known(log, lastAction)
      /\ lastMessage \in Nat /\ lastMessage + 1 \in Nat
  BY BoundsAreNat DEF ConvInv, TypeOK
<1>b. /\ {"user", "agent", "request", "condensation"} \cap ActionKinds = {}
      /\ {"user", "agent", "request", "condensation", "rejection", "error", "observation",
          "tool", "finish", "invalid"} = Kinds
  BY DEF ActionKinds, CallKinds, Executable, Results, Kinds
<1>c. ASSUME log' = log, lastAction' = lastAction PROVE Goal
  BY <1>a, <1>c
<1>d. ASSUME NEW k \in {"user", "agent", "request", "condensation"}, NEW n \in Nat,
             log' = Append(log, Event(k, n)), lastAction' = lastAction
      PROVE  Goal
  <2>1. k \in Kinds /\ k \notin ActionKinds
    BY <1>b
  <2>2. /\ Append(log, Event(k, n)) \in Seq(Events)
        /\ Known(Append(log, Event(k, n)), lastAction)
    BY <1>a, <2>1, PostTyped
  <2> QED BY <1>d, <2>2
<1>e. ASSUME NEW k \in {"rejection", "error", "observation"}, NEW n \in 1 .. lastAction,
             log' = Append(log, Event(k, n)), lastAction' = lastAction
      PROVE  Goal
  <2>1. k \in Kinds /\ n \in Nat
    BY <1>a, <1>b
  <2>2. /\ Append(log, Event(k, n)) \in Seq(Events)
        /\ Known(Append(log, Event(k, n)), lastAction)
    BY <1>a, <2>1, PostTyped
  <2> QED BY <1>e, <2>2
<1> HIDE DEF Goal
<1>1. ASSUME NEW v \in PromptHooks, SendMessage(v) PROVE Goal
  BY <1>1, <1>a, <1>d DEF SendMessage, PostUser, StatusOnMessage, Post
<1>2. ASSUME Pause PROVE Goal
  BY <1>2, <1>c DEF Pause
<1>3. ASSUME CrashRestart PROVE Goal
  <2>1. CASE status = "RUNNING" /\ Pending # {}
    <3>1. Pending \subseteq 1 .. lastAction /\ Pending \subseteq Nat
      BY <1>a, PendingKnown DEF Pending
    <3>2. First(Pending) \in 1 .. lastAction
      BY <2>1, <3>1, FirstProperties
    <3> QED BY <1>3, <1>e, <2>1, <3>2 DEF CrashRestart
  <2>2. CASE ~ (status = "RUNNING" /\ Pending # {})
    BY <1>3, <1>c, <2>2 DEF CrashRestart
  <2> QED BY <2>1, <2>2
<1>4. ASSUME NEW t \in Threads, RejectRead(t) PROVE Goal
  BY <1>4, <1>c DEF RejectRead, Pending
<1>5. ASSUME NEW t \in Threads, RejectEnter(t) PROVE Goal
  BY <1>5, <1>c DEF RejectEnter, StatusOnReject
<1>6. ASSUME NEW t \in Threads, RejectNext(t) PROVE Goal
  <2>1. CASE todo[t] = {}
    BY <1>6, <1>c, <2>1 DEF RejectNext
  <2>2. CASE todo[t] # {}
    BY <1>6, <1>e, <2>2, CurrentKnown DEF RejectNext, Post
  <2> QED BY <2>1, <2>2
<1>7. ASSUME NEW t \in Threads, RequestCondensation(t) PROVE Goal
  BY <1>7, <1>d DEF RequestCondensation, Post
<1>8. ASSUME NEW t \in Threads, CondenseStep(t) PROVE Goal
  BY <1>8, <1>c DEF CondenseStep, EnterStep, Pending
<1>9. ASSUME NEW t \in Threads, RunCall(t) PROVE Goal
  BY <1>9, <1>c DEF RunCall
<1>10. ASSUME NEW t \in Threads, Leave(t) PROVE Goal
  BY <1>10, <1>c DEF Leave
<1>11. ASSUME NEW t \in Threads, DetectStuck(t) PROVE Goal
  BY <1>11, <1>c DEF DetectStuck
<1>12. ASSUME NEW t \in Threads, StartStep(t) PROVE Goal
  BY <1>12, <1>c DEF StartStep, EnterStep, Pending
<1>13. ASSUME NEW t \in Threads, NEW v \in PromptHooks, StopDenied(t, v) PROVE Goal
  BY <1>13, <1>a, <1>c, <1>d DEF StopDenied, NoFeedback, PostUser, Post
<1>14. ASSUME NEW t \in Threads, FinishBlocked(t) PROVE Goal
  BY <1>14, <1>c DEF FinishBlocked
<1>15. ASSUME NEW t \in Threads, Condense(t) PROVE Goal
  BY <1>15, <1>d DEF Condense, Write, Post
<1>16. ASSUME NEW t \in Threads, CondenserRaises(t) PROVE Goal
  BY <1>16, <1>c DEF CondenserRaises, RaiseOut, AfterRaise
<1>17. ASSUME NEW t \in Threads, Answer(t) PROVE Goal
  BY <1>17, <1>d DEF Answer, Asks, Write, Post
<1>18. ASSUME NEW t \in Threads, TooLong(t) PROVE Goal
  BY <1>18, <1>d DEF TooLong, Asks, Write, Post
<1>19. ASSUME NEW t \in Threads, LLMRaises(t) PROVE Goal
  BY <1>19, <1>c DEF LLMRaises, Asks, RaiseOut, AfterRaise
<1>20. ASSUME NEW t \in Threads, NEW b \in Batches, Respond(t, b) PROVE Goal
  BY <1>20, <1>c DEF Respond, Asks
<1>21. ASSUME NEW t \in Threads, NEW v \in PromptHooks, Malformed(t, v) PROVE Goal
  BY <1>21, <1>a, <1>d DEF Malformed, Asks, PostUser, Post
<1>22. ASSUME NEW t \in Threads, EmitInvalid(t) PROVE Goal
  <2> DEFINE n == lastAction + 1
             l == Append(log, Event("invalid", n))
  <2>1. n \in Nat /\ n \in 1 .. n /\ lastAction <= n /\ {"invalid", "error"} \subseteq Kinds
    BY <1>a, <1>b
  <2> HIDE DEF n
  <2>2. l \in Seq(Events) /\ Known(l, n)
    BY <1>a, <2>1, PostTyped
  <2> HIDE DEF l
  <2>3. Append(l, Event("error", n)) \in Seq(Events) /\ Known(Append(l, Event("error", n)), n)
    BY <2>1, <2>2, PostTyped
  <2>4. log' = Append(l, Event("error", n)) /\ lastAction' = n
    <3>1. /\ log' = log \o <<Event("invalid", n), Event("error", n)>>
          /\ lastAction' = n /\ Event("invalid", n) \in Events /\ Event("error", n) \in Events
      BY <1>22, <2>1, EventTyped DEF EmitInvalid, n
    <3> QED BY <1>a, <3>1 DEF l
  <2> QED BY <2>3, <2>4 DEF Goal
<1>23. ASSUME NEW t \in Threads, NEW v \in ActionHooks, Emit(t, v) PROVE Goal
  <2>1. PICK k \in Executable : log' = Append(log, Event(k, lastAction + 1))
    BY <1>23 DEF Emit, Post
  <2>2. /\ lastAction + 1 \in Nat /\ lastAction + 1 \in 1 .. lastAction + 1
        /\ lastAction <= lastAction + 1 /\ k \in Kinds /\ lastAction' = lastAction + 1
    BY <1>23, <1>a, <1>b DEF Emit, Executable
  <2> QED BY <1>a, <2>1, <2>2, PostTyped DEF Goal
<1>24. ASSUME NEW t \in Threads, AskConfirm(t) PROVE Goal
  BY <1>24, <1>c DEF AskConfirm
<1>25. ASSUME NEW t \in Threads, GoAhead(t) PROVE Goal
  BY <1>25, <1>c DEF GoAhead
<1>26. ASSUME NEW t \in Threads, Unmark(t) PROVE Goal
  BY <1>26, <1>c DEF Unmark, NextAction
<1>27. ASSUME NEW t \in Threads, RejectBlocked(t) PROVE Goal
  <2>1. First(todo[t]) \in 1 .. lastAction
    BY <1>27, CurrentKnown DEF RejectBlocked, ConvInv, ThreadsInv, ThreadInv
  <2> QED BY <1>27, <1>e, <2>1 DEF RejectBlocked, Write, NextAction, Post
<1>28. ASSUME NEW t \in Threads, CallTool(t) PROVE Goal
  BY <1>28, <1>c DEF CallTool, RaiseOut, AfterRaise, NextAction
<1>29. ASSUME NEW t \in Threads, Observe(t) PROVE Goal
  <2>1. First(todo[t]) \in 1 .. lastAction
    BY <1>29, CurrentKnown DEF Observe, ConvInv, ThreadsInv, ThreadInv
  <2> QED BY <1>29, <1>e, <2>1 DEF Observe, Write, NextAction, Post
<1>30. ASSUME NEW t \in Threads, ReportError(t) PROVE Goal
  <2>1. First(todo[t]) \in 1 .. lastAction
    BY <1>30, CurrentKnown DEF ReportError, ConvInv, ThreadsInv, ThreadInv
  <2> QED BY <1>30, <1>e, <2>1 DEF ReportError, Write, NextAction, Post
<1>31. ASSUME NEW t \in Threads, Finish(t) PROVE Goal
  BY <1>31, <1>c DEF Finish, AfterFinish
<1>32. ASSUME NEW t \in Threads, AllExecuted(t) PROVE Goal
  BY <1>32, <1>c DEF AllExecuted
<1>33. ASSUME NEW t \in Threads, EndStep(t) PROVE Goal
  BY <1>33, <1>c DEF EndStep, AtLimit
<1>34. ASSUME NEW t \in Threads, Raised(t) PROVE Goal
  BY <1>34, <1>c DEF Raised
<1>35. ASSUME UNCHANGED vars PROVE Goal
  BY <1>35, <1>c DEF vars
<1>36. Goal
  BY <1>1, <1>2, <1>3, <1>4, <1>5, <1>6, <1>7, <1>8, <1>9, <1>10, <1>11, <1>12, <1>13, <1>14,
     <1>15, <1>16, <1>17, <1>18, <1>19, <1>20, <1>21, <1>22, <1>23, <1>24, <1>25, <1>26,
     <1>27, <1>28, <1>29, <1>30, <1>31, <1>32, <1>33, <1>34, <1>35 DEF Next, Loop, Ask,
     Collect, Execute, Step, Threads
<1> QED BY <1>36 DEF Goal

\* The other threads are as they were...
Others(t) == \A s \in Threads \ {t} : pc'[s] = pc[s] /\ todo'[s] = todo[s] /\ calls'[s] = calls[s]

\* ... which is all they need of a step under the lock ...
LEMMA LockedFrame ==
  ASSUME ConvInv, NEW t \in Threads, Others(t), lock = NoThread \/ lock = t,
         lastAction' \in Nat, lastAction <= lastAction', ThreadInv(t)'
  PROVE  ThreadsInv'
<1> SUFFICES ASSUME NEW s \in Threads PROVE ThreadInv(s)'
  BY DEF ThreadsInv
<1>1. CASE s = t
  BY <1>1
<1>2. CASE s # t
  <2>1. pc'[s] = pc[s] /\ todo'[s] = todo[s] /\ pc[s] \notin Inside /\ ThreadInv(s)
    BY <1>2, BoundsAreNat DEF Others, ConvInv, ThreadsInv, ThreadInv
  <2>2. todo[s] \subseteq 1 .. lastAction'
    <3>1. lastAction \in Nat
      BY DEF ConvInv, TypeOK
    <3> QED BY <2>1, <3>1 DEF ThreadInv
  <2> QED BY <2>1, <2>2 DEF ThreadInv, Inside, InStep
<1> QED BY <1>1, <1>2

\* ... and of a step without it, if it settles nothing and makes no action.
LEMMA UnlockedFrame ==
  ASSUME ConvInv, NEW t \in Threads, Others(t), lock' = lock, lastAction' = lastAction,
         Unmatched(log) \subseteq Unmatched(log'), ThreadInv(t)'
  PROVE  ThreadsInv'
<1> SUFFICES ASSUME NEW s \in Threads PROVE ThreadInv(s)'
  BY DEF ThreadsInv
<1>1. CASE s = t
  BY <1>1
<1>2. CASE s # t
  <2>1. pc'[s] = pc[s] /\ todo'[s] = todo[s] /\ calls'[s] = calls[s] /\ ThreadInv(s)
    BY <1>2 DEF Others, ConvInv, ThreadsInv
  <2> QED BY <2>1 DEF ThreadInv
<1> QED BY <1>1, <1>2

\* Every step keeps what the place of a thread says of its variables.
LEMMA ThreadsStep == ASSUME ConvInv, [Next]_vars PROVE ThreadsInv'
<1> USE BoundsAreNat DEF durable, ids, locals, counters, history, Goto, Others
<1>a. /\ pc \in [Threads -> Outside \cup Inside] /\ todo \in [Threads -> SUBSET ActionIds]
      /\ calls \in [Threads -> Seq(CallKinds)] /\ lastAction \in Nat /\ log \in Seq(Events)
      /\ \A t \in Threads : ThreadInv(t)
  BY DEF ConvInv, TypeOK, ThreadsInv
<1>b. Unmatched(log) \subseteq 1 .. lastAction
  BY <1>a, PendingKnown DEF ConvInv
<1>1. ASSUME NEW v \in PromptHooks, SendMessage(v) PROVE ThreadsInv'
  <2>1. /\ lock = NoThread /\ pc' = pc /\ todo' = todo /\ lastAction' = lastAction
    BY <1>1 DEF SendMessage, PostUser, StatusOnMessage, Free
  <2>2. \A t \in Threads : pc[t] \notin Inside
    BY <1>a, <2>1 DEF ThreadInv
  <2> QED BY <1>a, <2>1, <2>2 DEF ThreadsInv, ThreadInv, Collecting, Inside, InStep
<1>2. ASSUME Pause PROVE ThreadsInv'
  <2>1. /\ lock = NoThread /\ pc' = pc /\ todo' = todo /\ lastAction' = lastAction
    BY <1>2 DEF Pause, Free
  <2>2. \A t \in Threads : pc[t] \notin Inside
    BY <1>a, <2>1 DEF ThreadInv
  <2> QED BY <1>a, <2>1, <2>2 DEF ThreadsInv, ThreadInv, Collecting, Inside, InStep
<1>3. ASSUME CrashRestart PROVE ThreadsInv'
  <2>1. \A t \in Threads : pc'[t] = "out" /\ todo'[t] = {}
    BY <1>3 DEF CrashRestart
  <2> QED BY <2>1 DEF ThreadsInv, ThreadInv, Collecting, Inside, InStep
<1>4. ASSUME NEW t \in Threads, RejectRead(t) PROVE ThreadsInv'
  <2>1. Others(t) /\ lock' = lock /\ lastAction' = lastAction
    BY <1>4, <1>a DEF RejectRead, Pending
  <2>2. Unmatched(log) \subseteq Unmatched(log')
    BY <1>4 DEF RejectRead
  <2>3. ThreadInv(t)'
    BY <1>4, <1>a, <1>b DEF RejectRead, Pending, ThreadInv, Collecting, Inside, InStep
  <2> QED BY <2>1, <2>2, <2>3, UnlockedFrame
<1>5. ASSUME NEW t \in Threads, RejectEnter(t) PROVE ThreadsInv'
  <2>1. Others(t) /\ (lock = NoThread \/ lock = t) /\ lastAction' = lastAction
    BY <1>5, <1>a DEF RejectEnter, StatusOnReject, Free, AtTop, ThreadInv, Inside, InStep
  <2>2. ThreadInv(t)'
    BY <1>5, <1>a, <1>b DEF RejectEnter, StatusOnReject, AtTop, ThreadInv, Collecting, Inside, InStep, Outside
  <2> QED BY <1>a, <2>1, <2>2, LockedFrame
<1>6. ASSUME NEW t \in Threads, RejectNext(t) PROVE ThreadsInv'
  <2>1. Others(t) /\ (lock = NoThread \/ lock = t) /\ lastAction' = lastAction
    BY <1>6, <1>a DEF RejectNext, Free, AtTop, ThreadInv, Inside, InStep
  <2>2. ThreadInv(t)'
    BY <1>6, <1>a, <1>b DEF RejectNext, AtTop, ThreadInv, Collecting, Inside, InStep, Outside
  <2> QED BY <1>a, <2>1, <2>2, LockedFrame
<1>7. ASSUME NEW t \in Threads, RequestCondensation(t) PROVE ThreadsInv'
  <2>1. Others(t) /\ lock' = lock /\ lastAction' = lastAction
    BY <1>7, <1>a DEF RequestCondensation
  <2>2. Unmatched(log) \subseteq Unmatched(log')
    <3>1. /\ log' = Append(log, Event("request", 0))
          /\ Event("request", 0) \in Events /\ Event("request", 0).kind \notin Results
      BY <1>7, EventTyped DEF RequestCondensation, Post, Kinds, Results
    <3> QED BY <1>a, <3>1, AppendKeepsPending
  <2>3. ThreadInv(t)'
    BY <1>7, <1>a, <1>b DEF RequestCondensation, ThreadInv, Collecting, Inside, InStep
  <2> QED BY <2>1, <2>2, <2>3, UnlockedFrame
<1>8. ASSUME NEW t \in Threads, CondenseStep(t) PROVE ThreadsInv'
  <2>1. Others(t) /\ (lock = NoThread \/ lock = t) /\ lastAction' = lastAction
    BY <1>8, <1>a DEF CondenseStep, EnterStep, Pending, Free, AtTop, ThreadInv, Inside, InStep
  <2>2. ThreadInv(t)'
    BY <1>8, <1>a, <1>b DEF CondenseStep, EnterStep, Pending, AtTop, ThreadInv, Collecting, Inside, InStep, Outside
  <2> QED BY <1>a, <2>1, <2>2, LockedFrame
<1>9. ASSUME NEW t \in Threads, RunCall(t) PROVE ThreadsInv'
  <2>1. Others(t) /\ (lock = NoThread \/ lock = t) /\ lastAction' = lastAction
    BY <1>9, <1>a DEF RunCall, Free, AtTop, ThreadInv, Inside, InStep
  <2>2. ThreadInv(t)'
    BY <1>9, <1>a, <1>b DEF RunCall, AtTop, ThreadInv, Collecting, Inside, InStep, Outside
  <2> QED BY <1>a, <2>1, <2>2, LockedFrame
<1>10. ASSUME NEW t \in Threads, Leave(t) PROVE ThreadsInv'
  <2>1. Others(t) /\ (lock = NoThread \/ lock = t) /\ lastAction' = lastAction
    BY <1>10, <1>a DEF Leave, Free, AtTop, ThreadInv, Inside, InStep
  <2>2. ThreadInv(t)'
    BY <1>10, <1>a, <1>b DEF Leave, AtTop, ThreadInv, Collecting, Inside, InStep, Outside
  <2> QED BY <1>a, <2>1, <2>2, LockedFrame
<1>11. ASSUME NEW t \in Threads, DetectStuck(t) PROVE ThreadsInv'
  <2>1. Others(t) /\ (lock = NoThread \/ lock = t) /\ lastAction' = lastAction
    BY <1>11, <1>a DEF DetectStuck, Free, AtTop, ThreadInv, Inside, InStep
  <2>2. ThreadInv(t)'
    BY <1>11, <1>a, <1>b DEF DetectStuck, AtTop, ThreadInv, Collecting, Inside, InStep, Outside
  <2> QED BY <1>a, <2>1, <2>2, LockedFrame
<1>12. ASSUME NEW t \in Threads, StartStep(t) PROVE ThreadsInv'
  <2>1. Others(t) /\ (lock = NoThread \/ lock = t) /\ lastAction' = lastAction
    BY <1>12, <1>a DEF StartStep, EnterStep, Pending, Free, AtTop, ThreadInv, Inside, InStep
  <2>2. ThreadInv(t)'
    BY <1>12, <1>a, <1>b DEF StartStep, EnterStep, Pending, AtTop, ThreadInv, Collecting, Inside, InStep, Outside
  <2> QED BY <1>a, <2>1, <2>2, LockedFrame
<1>13. ASSUME NEW t \in Threads, NEW v \in PromptHooks, StopDenied(t, v) PROVE ThreadsInv'
  <2>1. Others(t) /\ (lock = NoThread \/ lock = t) /\ lastAction' = lastAction
    BY <1>13, <1>a DEF StopDenied, NoFeedback, PostUser, Free, AtTop, ThreadInv, Inside, InStep
  <2>2. ThreadInv(t)'
    BY <1>13, <1>a, <1>b DEF StopDenied, NoFeedback, PostUser, AtTop, ThreadInv, Collecting, Inside, InStep, Outside
  <2> QED BY <1>a, <2>1, <2>2, LockedFrame
<1>14. ASSUME NEW t \in Threads, FinishBlocked(t) PROVE ThreadsInv'
  <2>1. Others(t) /\ (lock = NoThread \/ lock = t) /\ lastAction' = lastAction
    BY <1>14, <1>a DEF FinishBlocked, Free, AtTop, ThreadInv, Inside, InStep
  <2>2. ThreadInv(t)'
    BY <1>14, <1>a, <1>b DEF FinishBlocked, AtTop, ThreadInv, Collecting, Inside, InStep, Outside
  <2> QED BY <1>a, <2>1, <2>2, LockedFrame
<1>15. ASSUME NEW t \in Threads, Condense(t) PROVE ThreadsInv'
  <2>1. Others(t) /\ (lock = NoThread \/ lock = t) /\ lastAction' = lastAction
    BY <1>15, <1>a DEF Condense, Write, Free, AtTop, ThreadInv, Inside, InStep
  <2>2. ThreadInv(t)'
    BY <1>15, <1>a, <1>b DEF Condense, Write, AtTop, ThreadInv, Collecting, Inside, InStep, Outside
  <2> QED BY <1>a, <2>1, <2>2, LockedFrame
<1>16. ASSUME NEW t \in Threads, CondenserRaises(t) PROVE ThreadsInv'
  <2>1. Others(t) /\ (lock = NoThread \/ lock = t) /\ lastAction' = lastAction
    BY <1>16, <1>a DEF CondenserRaises, RaiseOut, AfterRaise, Free, AtTop, ThreadInv, Inside, InStep
  <2>2. ThreadInv(t)'
    BY <1>16, <1>a, <1>b DEF CondenserRaises, RaiseOut, AfterRaise, AtTop, ThreadInv, Collecting, Inside, InStep, Outside
  <2> QED BY <1>a, <2>1, <2>2, LockedFrame
<1>17. ASSUME NEW t \in Threads, Answer(t) PROVE ThreadsInv'
  <2>1. Others(t) /\ (lock = NoThread \/ lock = t) /\ lastAction' = lastAction
    BY <1>17, <1>a DEF Answer, Asks, Write, Free, AtTop, ThreadInv, Inside, InStep
  <2>2. ThreadInv(t)'
    BY <1>17, <1>a, <1>b DEF Answer, Asks, Write, AtTop, ThreadInv, Collecting, Inside, InStep, Outside
  <2> QED BY <1>a, <2>1, <2>2, LockedFrame
<1>18. ASSUME NEW t \in Threads, TooLong(t) PROVE ThreadsInv'
  <2>1. Others(t) /\ (lock = NoThread \/ lock = t) /\ lastAction' = lastAction
    BY <1>18, <1>a DEF TooLong, Asks, Write, Free, AtTop, ThreadInv, Inside, InStep
  <2>2. ThreadInv(t)'
    BY <1>18, <1>a, <1>b DEF TooLong, Asks, Write, AtTop, ThreadInv, Collecting, Inside, InStep, Outside
  <2> QED BY <1>a, <2>1, <2>2, LockedFrame
<1>19. ASSUME NEW t \in Threads, LLMRaises(t) PROVE ThreadsInv'
  <2>1. Others(t) /\ (lock = NoThread \/ lock = t) /\ lastAction' = lastAction
    BY <1>19, <1>a DEF LLMRaises, Asks, RaiseOut, AfterRaise, Free, AtTop, ThreadInv, Inside, InStep
  <2>2. ThreadInv(t)'
    BY <1>19, <1>a, <1>b DEF LLMRaises, Asks, RaiseOut, AfterRaise, AtTop, ThreadInv, Collecting, Inside, InStep, Outside
  <2> QED BY <1>a, <2>1, <2>2, LockedFrame
<1>20. ASSUME NEW t \in Threads, NEW b \in Batches, Respond(t, b) PROVE ThreadsInv'
  <2>1. Others(t) /\ (lock = NoThread \/ lock = t) /\ lastAction' = lastAction
    BY <1>20, <1>a DEF Respond, Asks, Free, AtTop, ThreadInv, Inside, InStep
  <2>2. ThreadInv(t)'
    BY <1>20, <1>a, <1>b DEF Respond, Asks, AtTop, ThreadInv, Collecting, Inside, InStep, Outside
  <2> QED BY <1>a, <2>1, <2>2, LockedFrame
<1>21. ASSUME NEW t \in Threads, NEW v \in PromptHooks, Malformed(t, v) PROVE ThreadsInv'
  <2>1. Others(t) /\ (lock = NoThread \/ lock = t) /\ lastAction' = lastAction
    BY <1>21, <1>a DEF Malformed, Asks, PostUser, Free, AtTop, ThreadInv, Inside, InStep
  <2>2. ThreadInv(t)'
    BY <1>21, <1>a, <1>b DEF Malformed, Asks, PostUser, AtTop, ThreadInv, Collecting, Inside, InStep, Outside
  <2> QED BY <1>a, <2>1, <2>2, LockedFrame
<1>22. ASSUME NEW t \in Threads, EmitInvalid(t) PROVE ThreadsInv'
  <2>1. /\ Others(t) /\ lock = t /\ lastAction' = lastAction + 1 /\ lock' = lock
        /\ pc' = pc /\ pc[t] = "emit" /\ calls'[t] = Tail(calls[t]) /\ calls[t] # <<>>
        /\ todo' = todo
    BY <1>22, <1>a DEF EmitInvalid, ThreadInv, Inside, InStep
  <2>2. todo'[t] \subseteq Unmatched(log')
    <3> DEFINE e == Event("invalid", lastAction + 1)
               f == Event("error", lastAction + 1)
    <3>1. e \in Events /\ e.kind \notin Results /\ f \in Events /\ f.kind \notin Results
      BY <1>a, EventTyped DEF Kinds, Results
    <3>2. log' = log \o <<e, f>>
      BY <1>22 DEF EmitInvalid
    <3> HIDE DEF e, f
    <3>3. log' = Append(Append(log, e), f) /\ Append(log, e) \in Seq(Events)
      BY <1>a, <3>1, <3>2
    <3>4. Unmatched(log) \subseteq Unmatched(log')
      BY <1>a, <3>1, <3>3, AppendKeepsPending
    <3>5. todo[t] \subseteq Unmatched(log)
      BY <1>a, <2>1 DEF ThreadInv, InStep
    <3> QED BY <2>1, <3>4, <3>5
  <2>3. todo'[t] \subseteq 1 .. lastAction' /\ Len(calls'[t]) <= MaxActions - lastAction'
    BY <1>a, <2>1, EmitRoom DEF ThreadInv
  <2>4. ThreadInv(t)'
    BY <2>1, <2>2, <2>3 DEF ThreadInv, Collecting, Inside, InStep
  <2> QED BY <1>a, <2>1, <2>4, LockedFrame
<1>23. ASSUME NEW t \in Threads, NEW v \in ActionHooks, Emit(t, v) PROVE ThreadsInv'
  <2>1. /\ Others(t) /\ lock = t /\ lastAction' = lastAction + 1 /\ lock' = lock
        /\ pc' = pc /\ pc[t] = "emit" /\ calls'[t] = Tail(calls[t]) /\ calls[t] # <<>>
        /\ todo'[t] = todo[t] \cup {lastAction + 1}
    BY <1>23, <1>a DEF Emit, ThreadInv, Inside, InStep
  <2>2. todo'[t] \subseteq Unmatched(log')
    <3>1. PICK k \in Executable : log' = Append(log, Event(k, lastAction + 1))
      BY <1>23 DEF Emit, Post
    <3> DEFINE e == Event(k, lastAction + 1)
    <3>2. e \in Events /\ e.kind \in Executable /\ e.id = lastAction + 1 /\ e.kind \notin Results
      BY <1>a, EventTyped DEF Executable, Kinds, Results
    <3> HIDE DEF e
    <3>3. log' = Append(log, e)
      BY <3>1 DEF e
    <3>4. lastAction + 1 \in Unmatched(log') /\ Unmatched(log) \subseteq Unmatched(log')
      BY <1>a, <3>2, <3>3, NewIsPending, AppendKeepsPending DEF ConvInv
    <3>5. todo[t] \subseteq Unmatched(log)
      BY <1>a, <2>1 DEF ThreadInv, InStep
    <3> QED BY <2>1, <3>4, <3>5
  <2>3. todo'[t] \subseteq 1 .. lastAction' /\ Len(calls'[t]) <= MaxActions - lastAction'
    BY <1>a, <2>1, EmitRoom DEF ThreadInv
  <2>4. ThreadInv(t)'
    BY <2>1, <2>2, <2>3 DEF ThreadInv, Collecting, Inside, InStep
  <2> QED BY <1>a, <2>1, <2>4, LockedFrame
<1>24. ASSUME NEW t \in Threads, AskConfirm(t) PROVE ThreadsInv'
  <2>1. Others(t) /\ (lock = NoThread \/ lock = t) /\ lastAction' = lastAction
    BY <1>24, <1>a DEF AskConfirm, Free, AtTop, ThreadInv, Inside, InStep
  <2>2. ThreadInv(t)'
    BY <1>24, <1>a, <1>b DEF AskConfirm, AtTop, ThreadInv, Collecting, Inside, InStep, Outside
  <2> QED BY <1>a, <2>1, <2>2, LockedFrame
<1>25. ASSUME NEW t \in Threads, GoAhead(t) PROVE ThreadsInv'
  <2>1. Others(t) /\ (lock = NoThread \/ lock = t) /\ lastAction' = lastAction
    BY <1>25, <1>a DEF GoAhead, Free, AtTop, ThreadInv, Inside, InStep
  <2>2. ThreadInv(t)'
    BY <1>25, <1>a, <1>b DEF GoAhead, AtTop, ThreadInv, Collecting, Inside, InStep, Outside
  <2> QED BY <1>a, <2>1, <2>2, LockedFrame
<1>26. ASSUME NEW t \in Threads, Unmark(t) PROVE ThreadsInv'
  <2>1. Others(t) /\ (lock = NoThread \/ lock = t) /\ lastAction' = lastAction
    BY <1>26, <1>a DEF Unmark, NextAction, Free, AtTop, ThreadInv, Inside, InStep
  <2>2. ThreadInv(t)'
    BY <1>26, <1>a, <1>b DEF Unmark, NextAction, AtTop, ThreadInv, Collecting, Inside, InStep, Outside
  <2> QED BY <1>a, <2>1, <2>2, LockedFrame
<1>27. ASSUME NEW t \in Threads, RejectBlocked(t) PROVE ThreadsInv'
  <2>1. Others(t) /\ lock = t /\ lastAction' = lastAction /\ lock' = lock
    BY <1>27, <1>a DEF RejectBlocked, Write, NextAction, ThreadInv, Inside, InStep
  <2>2. todo'[t] \subseteq Unmatched(log')
    <3> DEFINE e == Event("rejection", First(todo[t]))
    <3>1. First(todo[t]) \in Nat
      BY <1>27, <1>a, CurrentKnown DEF RejectBlocked, ThreadInv
    <3>2. e \in Events /\ e.id = First(todo[t])
      BY <3>1, EventTyped DEF Kinds
    <3> HIDE DEF e
    <3>3. log' = Append(log, e) /\ todo'[t] = todo[t] \ {e.id}
      BY <1>27, <1>a, <3>2 DEF RejectBlocked, Write, NextAction, Post, e
    <3>4. todo[t] \subseteq Unmatched(log)
      BY <1>27, <1>a DEF RejectBlocked, ThreadInv, InStep
    <3> QED BY <1>a, <3>2, <3>3, <3>4, ResultKeepsOthers
  <2>3. ThreadInv(t)'
    BY <1>27, <1>a, <2>1, <2>2 DEF RejectBlocked, Write, NextAction, ThreadInv, Collecting, Inside, InStep
  <2> QED BY <1>a, <2>1, <2>3, LockedFrame
<1>28. ASSUME NEW t \in Threads, CallTool(t) PROVE ThreadsInv'
  <2>1. Others(t) /\ (lock = NoThread \/ lock = t) /\ lastAction' = lastAction
    BY <1>28, <1>a DEF CallTool, RaiseOut, AfterRaise, NextAction, Free, AtTop, ThreadInv, Inside, InStep
  <2>2. ThreadInv(t)'
    BY <1>28, <1>a, <1>b DEF CallTool, RaiseOut, AfterRaise, NextAction, AtTop, ThreadInv, Collecting, Inside, InStep, Outside
  <2> QED BY <1>a, <2>1, <2>2, LockedFrame
<1>29. ASSUME NEW t \in Threads, Observe(t) PROVE ThreadsInv'
  <2>1. Others(t) /\ lock = t /\ lastAction' = lastAction /\ lock' = lock
    BY <1>29, <1>a DEF Observe, Write, NextAction, ThreadInv, Inside, InStep
  <2>2. todo'[t] \subseteq Unmatched(log')
    <3> DEFINE e == Event("observation", First(todo[t]))
    <3>1. First(todo[t]) \in Nat
      BY <1>29, <1>a, CurrentKnown DEF Observe, ThreadInv
    <3>2. e \in Events /\ e.id = First(todo[t])
      BY <3>1, EventTyped DEF Kinds
    <3> HIDE DEF e
    <3>3. log' = Append(log, e) /\ todo'[t] = todo[t] \ {e.id}
      BY <1>29, <1>a, <3>2 DEF Observe, Write, NextAction, Post, e
    <3>4. todo[t] \subseteq Unmatched(log)
      BY <1>29, <1>a DEF Observe, ThreadInv, InStep
    <3> QED BY <1>a, <3>2, <3>3, <3>4, ResultKeepsOthers
  <2>3. ThreadInv(t)'
    BY <1>29, <1>a, <2>1, <2>2 DEF Observe, Write, NextAction, ThreadInv, Collecting, Inside, InStep
  <2> QED BY <1>a, <2>1, <2>3, LockedFrame
<1>30. ASSUME NEW t \in Threads, ReportError(t) PROVE ThreadsInv'
  <2>1. Others(t) /\ lock = t /\ lastAction' = lastAction /\ lock' = lock
    BY <1>30, <1>a DEF ReportError, Write, NextAction, ThreadInv, Inside, InStep
  <2>2. todo'[t] \subseteq Unmatched(log')
    <3> DEFINE e == Event("error", First(todo[t]))
    <3>1. First(todo[t]) \in Nat
      BY <1>30, <1>a, CurrentKnown DEF ReportError, ThreadInv
    <3>2. e \in Events /\ e.id = First(todo[t])
      BY <3>1, EventTyped DEF Kinds
    <3> HIDE DEF e
    <3>3. log' = Append(log, e) /\ todo'[t] = todo[t] \ {e.id}
      BY <1>30, <1>a, <3>2 DEF ReportError, Write, NextAction, Post, e
    <3>4. todo[t] \subseteq Unmatched(log)
      BY <1>30, <1>a DEF ReportError, ThreadInv, InStep
    <3> QED BY <1>a, <3>2, <3>3, <3>4, ResultKeepsOthers
  <2>3. ThreadInv(t)'
    BY <1>30, <1>a, <2>1, <2>2 DEF ReportError, Write, NextAction, ThreadInv, Collecting, Inside, InStep
  <2> QED BY <1>a, <2>1, <2>3, LockedFrame
<1>31. ASSUME NEW t \in Threads, Finish(t) PROVE ThreadsInv'
  <2>1. Others(t) /\ (lock = NoThread \/ lock = t) /\ lastAction' = lastAction
    BY <1>31, <1>a DEF Finish, AfterFinish, Free, AtTop, ThreadInv, Inside, InStep
  <2>2. ThreadInv(t)'
    BY <1>31, <1>a, <1>b DEF Finish, AfterFinish, AtTop, ThreadInv, Collecting, Inside, InStep, Outside
  <2> QED BY <1>a, <2>1, <2>2, LockedFrame
<1>32. ASSUME NEW t \in Threads, AllExecuted(t) PROVE ThreadsInv'
  <2>1. Others(t) /\ (lock = NoThread \/ lock = t) /\ lastAction' = lastAction
    BY <1>32, <1>a DEF AllExecuted, Free, AtTop, ThreadInv, Inside, InStep
  <2>2. ThreadInv(t)'
    BY <1>32, <1>a, <1>b DEF AllExecuted, AtTop, ThreadInv, Collecting, Inside, InStep, Outside
  <2> QED BY <1>a, <2>1, <2>2, LockedFrame
<1>33. ASSUME NEW t \in Threads, EndStep(t) PROVE ThreadsInv'
  <2>1. Others(t) /\ (lock = NoThread \/ lock = t) /\ lastAction' = lastAction
    BY <1>33, <1>a DEF EndStep, AtLimit, Free, AtTop, ThreadInv, Inside, InStep
  <2>2. ThreadInv(t)'
    BY <1>33, <1>a, <1>b DEF EndStep, AtLimit, AtTop, ThreadInv, Collecting, Inside, InStep, Outside
  <2> QED BY <1>a, <2>1, <2>2, LockedFrame
<1>34. ASSUME NEW t \in Threads, Raised(t) PROVE ThreadsInv'
  <2>1. Others(t) /\ lock' = lock /\ lastAction' = lastAction
    BY <1>34, <1>a DEF Raised
  <2>2. Unmatched(log) \subseteq Unmatched(log')
    BY <1>34 DEF Raised
  <2>3. ThreadInv(t)'
    BY <1>34, <1>a, <1>b DEF Raised, ThreadInv, Collecting, Inside, InStep
  <2> QED BY <2>1, <2>2, <2>3, UnlockedFrame
<1>35. CASE UNCHANGED vars
  BY <1>a, <1>35 DEF vars, ThreadsInv, ThreadInv
<1> QED
  BY <1>1, <1>2, <1>3, <1>4, <1>5, <1>6, <1>7, <1>8, <1>9, <1>10, <1>11, <1>12, <1>13, <1>14,
     <1>15, <1>16, <1>17, <1>18, <1>19, <1>20, <1>21, <1>22, <1>23, <1>24, <1>25, <1>26,
     <1>27, <1>28, <1>29, <1>30, <1>31, <1>32, <1>33, <1>34, <1>35 DEF Next, Loop, Ask,
     Collect, Execute, Step, Threads
-----------------------------------------------------------------------------
(* The theorems.                                                           *)

\* The first invariant holds at the start.
LEMMA ConvInvInit == Init => ConvInv
<1> SUFFICES ASSUME Init PROVE ConvInv
  OBVIOUS
<1>1. log = <<>> /\ log \in Seq(Events) /\ Known(log, lastAction)
  BY EmptySeq DEF Init, Known
<1>2. /\ iteration \in [Threads -> 0 .. MaxIteration - 1] /\ calls \in [Threads -> Seq(CallKinds)]
      /\ lastAction \in 0 .. MaxActions /\ lastMessage \in 0 .. MaxMessages
      /\ runs \in 0 .. MaxRuns /\ crashes \in 0 .. MaxCrashes
      /\ executed \in [ActionIds -> Nat] /\ todo \in [Threads -> SUBSET ActionIds]
  BY BoundsAreNat DEF Init
<1>4. TypeOK
  BY <1>1, <1>2 DEF Init, TypeOK, Statuses, Outside
<1>3. ThreadsInv
  BY DEF Init, ThreadsInv, ThreadInv, Inside, InStep, Collecting
<1> QED BY <1>1, <1>3, <1>4 DEF ConvInv

\* Every step keeps the first invariant.
LEMMA ConvInvStep == ConvInv /\ [Next]_vars => ConvInv'
BY LogStep, TypeStep, ThreadsStep DEF ConvInv

\* The types of the state of a conversation hold in every reachable state: in particular
\* no run() begins a step beyond max_iteration_per_run, and the lock has one owner.
THEOREM ConversationTyped == Spec => []TypeOK
<1>1. ConvInv => TypeOK
  BY DEF ConvInv
<1> QED BY <1>1, ConvInvInit, ConvInvStep, PTL DEF Spec

\* The only step that calls a tool, and what it calls it for.
LEMMA OnlyCallTool ==
  ASSUME ConvInv, [Next]_vars, executed' # executed
  PROVE  \E t \in Threads : CallTool(t) /\ executed' = [executed EXCEPT ![First(todo[t])] = @ + 1]
<1> USE DEF history
<1>1. ASSUME NEW v \in PromptHooks, SendMessage(v) PROVE FALSE
  BY <1>1 DEF SendMessage, PostUser, StatusOnMessage
<1>2. ASSUME Pause PROVE FALSE
  BY <1>2 DEF Pause
<1>3. ASSUME CrashRestart PROVE FALSE
  BY <1>3 DEF CrashRestart
<1>4. ASSUME NEW t \in Threads, RejectRead(t) PROVE FALSE
  BY <1>4 DEF RejectRead, Pending
<1>5. ASSUME NEW t \in Threads, RejectEnter(t) PROVE FALSE
  BY <1>5 DEF RejectEnter, StatusOnReject
<1>6. ASSUME NEW t \in Threads, RejectNext(t) PROVE FALSE
  BY <1>6 DEF RejectNext
<1>7. ASSUME NEW t \in Threads, RequestCondensation(t) PROVE FALSE
  BY <1>7 DEF RequestCondensation
<1>8. ASSUME NEW t \in Threads, CondenseStep(t) PROVE FALSE
  BY <1>8 DEF CondenseStep, EnterStep, Pending
<1>9. ASSUME NEW t \in Threads, RunCall(t) PROVE FALSE
  BY <1>9 DEF RunCall
<1>10. ASSUME NEW t \in Threads, Leave(t) PROVE FALSE
  BY <1>10 DEF Leave
<1>11. ASSUME NEW t \in Threads, DetectStuck(t) PROVE FALSE
  BY <1>11 DEF DetectStuck
<1>12. ASSUME NEW t \in Threads, StartStep(t) PROVE FALSE
  BY <1>12 DEF StartStep, EnterStep, Pending
<1>13. ASSUME NEW t \in Threads, NEW v \in PromptHooks, StopDenied(t, v) PROVE FALSE
  BY <1>13 DEF StopDenied, NoFeedback, PostUser
<1>14. ASSUME NEW t \in Threads, FinishBlocked(t) PROVE FALSE
  BY <1>14 DEF FinishBlocked
<1>15. ASSUME NEW t \in Threads, Condense(t) PROVE FALSE
  BY <1>15 DEF Condense, Write
<1>16. ASSUME NEW t \in Threads, CondenserRaises(t) PROVE FALSE
  BY <1>16 DEF CondenserRaises, RaiseOut, AfterRaise
<1>17. ASSUME NEW t \in Threads, Answer(t) PROVE FALSE
  BY <1>17 DEF Answer, Asks, Write
<1>18. ASSUME NEW t \in Threads, TooLong(t) PROVE FALSE
  BY <1>18 DEF TooLong, Asks, Write
<1>19. ASSUME NEW t \in Threads, LLMRaises(t) PROVE FALSE
  BY <1>19 DEF LLMRaises, Asks, RaiseOut, AfterRaise
<1>20. ASSUME NEW t \in Threads, NEW b \in Batches, Respond(t, b) PROVE FALSE
  BY <1>20 DEF Respond, Asks
<1>21. ASSUME NEW t \in Threads, NEW v \in PromptHooks, Malformed(t, v) PROVE FALSE
  BY <1>21 DEF Malformed, Asks, PostUser
<1>22. ASSUME NEW t \in Threads, EmitInvalid(t) PROVE FALSE
  BY <1>22 DEF EmitInvalid
<1>23. ASSUME NEW t \in Threads, NEW v \in ActionHooks, Emit(t, v) PROVE FALSE
  BY <1>23 DEF Emit
<1>24. ASSUME NEW t \in Threads, AskConfirm(t) PROVE FALSE
  BY <1>24 DEF AskConfirm
<1>25. ASSUME NEW t \in Threads, GoAhead(t) PROVE FALSE
  BY <1>25 DEF GoAhead
<1>26. ASSUME NEW t \in Threads, Unmark(t) PROVE FALSE
  BY <1>26 DEF Unmark, NextAction
<1>27. ASSUME NEW t \in Threads, RejectBlocked(t) PROVE FALSE
  BY <1>27 DEF RejectBlocked, Write, NextAction
<1>29. ASSUME NEW t \in Threads, Observe(t) PROVE FALSE
  BY <1>29 DEF Observe, Write, NextAction
<1>30. ASSUME NEW t \in Threads, ReportError(t) PROVE FALSE
  BY <1>30 DEF ReportError, Write, NextAction
<1>31. ASSUME NEW t \in Threads, Finish(t) PROVE FALSE
  BY <1>31 DEF Finish, AfterFinish
<1>32. ASSUME NEW t \in Threads, AllExecuted(t) PROVE FALSE
  BY <1>32 DEF AllExecuted
<1>33. ASSUME NEW t \in Threads, EndStep(t) PROVE FALSE
  BY <1>33 DEF EndStep, AtLimit
<1>34. ASSUME NEW t \in Threads, Raised(t) PROVE FALSE
  BY <1>34 DEF Raised
<1>28. ASSUME NEW t \in Threads, CallTool(t)
      PROVE  executed' = [executed EXCEPT ![First(todo[t])] = @ + 1]
  BY <1>28 DEF CallTool, NextAction
<1>35. CASE UNCHANGED vars
  BY <1>35 DEF vars
<1> QED
  BY <1>1, <1>2, <1>3, <1>4, <1>5, <1>6, <1>7, <1>8, <1>9, <1>10, <1>11, <1>12, <1>13, <1>14,
     <1>15, <1>16, <1>17, <1>18, <1>19, <1>20, <1>21, <1>22, <1>23, <1>24, <1>25, <1>26,
     <1>27, <1>29, <1>30, <1>31, <1>32, <1>33, <1>34, <1>28, <1>35 DEF Next, Loop, Ask,
     Collect, Execute, Step, Threads

\* ResultIsFinal for every number of concurrent runs, rejecters and condensers, with
\* crashes at any point: an action whose observation or rejection is in the log is not
\* executed (again).
THEOREM ResultsAreFinal == Spec => ResultIsFinal
<1> DEFINE A == \A a \in ActionIds : executed'[a] # executed[a] =>
                                         ~ Has(log, {"observation", "rejection"}, a)
<1>1. ASSUME ConvInv, [Next]_vars PROVE [A]_vars
  <2> SUFFICES ASSUME NEW a \in ActionIds, executed'[a] # executed[a]
               PROVE  ~ Has(log, {"observation", "rejection"}, a)
    OBVIOUS
  <2>1. PICK t \in Threads : /\ CallTool(t)
                             /\ executed' = [executed EXCEPT ![First(todo[t])] = @ + 1]
    BY <1>1, OnlyCallTool
  <2>2. a = First(todo[t])
    BY <1>1, <2>1 DEF ConvInv, TypeOK
  <2>3. First(todo[t]) \in Unmatched(log)
    BY <1>1, <2>1, CurrentKnown DEF CallTool, ConvInv, ThreadsInv, ThreadInv, InStep
  <2> QED BY <2>2, <2>3 DEF Unmatched, Settled, Results
<1> QED BY <1>1, ConvInvInit, ConvInvStep, PTL DEF Spec, ResultIsFinal
-----------------------------------------------------------------------------
(* What a step does to the log, and to the pending actions.                *)

Plain == Kinds \ (Executable \cup Results)

Emits(t) == \E v \in ActionHooks : Emit(t, v)
Settles(t) == (t \in Rejecters /\ RejectNext(t)) \/ RejectBlocked(t) \/ Observe(t)

\* Only an event that is neither a call nor a result leaves the pending actions as they
\* are; the result of an action takes it off, a new call adds its action.
LEMMA AppendPlain ==
  ASSUME NEW l \in Seq(Events), NEW k \in Plain, NEW n \in Nat
  PROVE  /\ Append(l, Event(k, n)) \in Seq(Events)
         /\ Unmatched(Append(l, Event(k, n))) = Unmatched(l)
<1> DEFINE e == Event(k, n)
<1>1. e \in Events /\ e.kind \notin Executable \cup Results
  BY EventTyped DEF Plain
<1> HIDE DEF e
<1>2. /\ Len(Append(l, e)) = Len(l) + 1
      /\ \A i \in 1 .. Len(l) : Append(l, e)[i] = l[i]
      /\ Append(l, e)[Len(l) + 1] = e
      /\ Len(l) \in Nat /\ Append(l, e) \in Seq(Events)
  BY <1>1, AppendProperties, LenProperties
<1>3. 1 .. Len(l) + 1 = 1 .. Len(l) \cup {Len(l) + 1}
  BY <1>2
<1>4. \A ks, m : ks \subseteq Executable \cup Results => (Has(Append(l, e), ks,
   m) <=> Has(l, ks, m))
  BY <1>1, <1>2, <1>3 DEF Has
<1>5. /\ \A m : Has(Append(l, e), Executable, m) <=> Has(l, Executable, m)
      /\ \A m : Settled(Append(l, e), m) <=> Settled(l, m)
  BY <1>4 DEF Settled
<1>6. \A m : Has(l, Executable, m) => m \in {l[i].id : i \in 1 .. Len(l)}
  BY DEF Has
<1>7. \A m : Has(Append(l, e), Executable, m)
                => m \in {Append(l, e)[i].id : i \in 1 .. Len(Append(l, e))}
  BY DEF Has
<1>8. Unmatched(Append(l, e)) = Unmatched(l)
  BY <1>5, <1>6, <1>7 DEF Unmatched
<1> QED BY <1>2, <1>8 DEF e

\* A result that is appended settles its action and no other.
LEMMA AppendResult ==
  ASSUME NEW l \in Seq(Events), NEW k \in Results, NEW n \in Nat
  PROVE  Unmatched(Append(l, Event(k, n))) = Unmatched(l) \ {n}
<1> DEFINE e == Event(k, n)
<1>1. e \in Events /\ e.kind \in Results /\ e.kind \notin Executable /\ e.id = n
  BY EventTyped DEF Kinds, Results, Executable
<1> HIDE DEF e
<1>2. /\ Len(Append(l, e)) = Len(l) + 1
      /\ \A i \in 1 .. Len(l) : Append(l, e)[i] = l[i]
      /\ Append(l, e)[Len(l) + 1] = e
      /\ Len(l) \in Nat
  BY <1>1, AppendProperties, LenProperties
<1>3. 1 .. Len(l) + 1 = 1 .. Len(l) \cup {Len(l) + 1}
  BY <1>2
<1>4. \A m : Has(Append(l, e), Executable, m) <=> Has(l, Executable, m)
  BY <1>1, <1>2, <1>3 DEF Has
<1>5. \A m : Settled(Append(l, e), m) <=> Settled(l, m) \/ m = n
  BY <1>1, <1>2, <1>3 DEF Has, Settled
<1>6. \A m : Has(l, Executable, m) => m \in {l[i].id : i \in 1 .. Len(l)}
  BY DEF Has
<1>7. \A m : Has(Append(l, e), Executable, m)
                => m \in {Append(l, e)[i].id : i \in 1 .. Len(Append(l, e))}
  BY DEF Has
<1>8. Unmatched(Append(l, e)) = Unmatched(l) \ {n}
  BY <1>4, <1>5, <1>6, <1>7 DEF Unmatched
<1> QED BY <1>8 DEF e

\* A call that is appended is left to settle.
LEMMA AppendCall ==
  ASSUME NEW l \in Seq(Events), NEW n \in Nat, Known(l, n), NEW k \in Executable
  PROVE  Unmatched(Append(l, Event(k, n + 1))) = Unmatched(l) \cup {n + 1}
<1> DEFINE e == Event(k, n + 1)
<1>1. e \in Events /\ e.kind \in Executable /\ e.kind \notin Results /\ e.id = n + 1
  BY EventTyped DEF Kinds, Results, Executable
<1> HIDE DEF e
<1>2. /\ Len(Append(l, e)) = Len(l) + 1
      /\ \A i \in 1 .. Len(l) : Append(l, e)[i] = l[i]
      /\ Append(l, e)[Len(l) + 1] = e
      /\ Len(l) \in Nat
  BY <1>1, AppendProperties, LenProperties
<1>3. 1 .. Len(l) + 1 = 1 .. Len(l) \cup {Len(l) + 1}
  BY <1>2
<1>4. \A m : Has(Append(l, e), Executable, m) <=> Has(l, Executable, m) \/ m = n + 1
  BY <1>1, <1>2, <1>3 DEF Has
<1>5. \A m : Settled(Append(l, e), m) <=> Settled(l, m)
  BY <1>1, <1>2, <1>3 DEF Has, Settled
<1>6. ~ Settled(l, n + 1)
  BY DEF Settled, Has, Known, ActionKinds
<1>7. \A m : Has(l, Executable, m) => m \in {l[i].id : i \in 1 .. Len(l)}
  BY DEF Has
<1>8. \A m : Has(Append(l, e), Executable, m)
                => m \in {Append(l, e)[i].id : i \in 1 .. Len(Append(l, e))}
  BY DEF Has
<1>9. Unmatched(Append(l, e)) = Unmatched(l) \cup {n + 1}
  BY <1>4, <1>5, <1>6, <1>7, <1>8 DEF Unmatched
<1> QED BY <1>9 DEF e

\* A step leaves the log alone, appends events that are neither calls nor results, the
\* call of a new action, or the result of an action it holds.
LogEffect ==
  \/ log' = log /\ lastAction' = lastAction
  \/ \E k \in Plain, n \in Nat : log' = Append(log, Event(k, n)) /\ lastAction' = lastAction
  \/ \E j, k \in Plain, n \in Nat :
       /\ log' = Append(Append(log, Event(j, n)), Event(k,
          n)) /\ lastAction' = lastAction + 1
  \/ \E t \in Threads, k \in Executable :
       Emits(t) /\ lastAction' = lastAction + 1 /\ log' = Append(log, Event(k,
          lastAction + 1))
  \/ \E t \in Threads, k \in Results :
       /\ Settles(t) /\ todo[t] # {} /\ lastAction' = lastAction
       /\ Observe(t) \/ k = "rejection"
       /\ log' = Append(log, Event(k, First(todo[t])))

\* Every step of the log is one of these.
LEMMA LogGrows == ASSUME ConvInv, [Next]_vars PROVE LogEffect
<1>a. log \in Seq(Events) /\ lastAction \in Nat /\ lastMessage + 1 \in Nat
  BY BoundsAreNat DEF ConvInv, TypeOK
<1>b. {"user", "agent", "request", "condensation", "error", "invalid"} \subseteq Plain
  BY DEF Plain, Kinds, Executable, Results
<1>c. ASSUME log' = log, lastAction' = lastAction PROVE LogEffect
  BY <1>c DEF LogEffect
<1>d. ASSUME NEW k \in {"user", "agent", "request", "condensation", "error", "invalid"},
             NEW n \in Nat, log' = Append(log, Event(k, n)), lastAction' = lastAction
      PROVE  LogEffect
  BY <1>b, <1>d DEF LogEffect
<1>e. \A t \in Threads : todo[t] # {} => First(todo[t]) \in Nat
  BY CurrentKnown
<1>f. ASSUME NEW t \in Threads, NEW k \in {"rejection", "observation"}, Settles(t),
             Observe(t) \/ k = "rejection",
             todo[t] # {}, lastAction' = lastAction,
             log' = Append(log, Event(k, First(todo[t])))
      PROVE  LogEffect
  BY <1>f DEF LogEffect, Results
<1> USE DEF durable, ids
<1>1. ASSUME NEW v \in PromptHooks, SendMessage(v) PROVE LogEffect
  BY <1>1, <1>d, <1>a DEF SendMessage, PostUser, StatusOnMessage, Post
<1>2. ASSUME Pause PROVE LogEffect
  BY <1>2, <1>c DEF Pause
<1>3. ASSUME CrashRestart PROVE LogEffect
  <2>1. CASE status = "RUNNING" /\ Pending # {}
    <3>1. Pending \subseteq Nat
      BY <1>a, PendingKnown DEF Pending, ConvInv
    <3>2. First(Pending) \in Nat
      BY <2>1, <3>1, FirstProperties
    <3> QED BY <1>3, <1>d, <2>1, <3>2 DEF CrashRestart
  <2>2. CASE ~ (status = "RUNNING" /\ Pending # {})
    BY <1>3, <1>c, <2>2 DEF CrashRestart
  <2> QED BY <2>1, <2>2
<1>4. ASSUME NEW t \in Threads, RejectRead(t) PROVE LogEffect
  BY <1>4, <1>c DEF RejectRead, Pending
<1>5. ASSUME NEW t \in Threads, RejectEnter(t) PROVE LogEffect
  BY <1>5, <1>c DEF RejectEnter, StatusOnReject, Free
<1>6. ASSUME NEW t \in Rejecters, RejectNext(t) PROVE LogEffect
  <2>1. CASE todo[t] = {}
    BY <1>6, <1>c, <2>1 DEF RejectNext
  <2>2. CASE todo[t] # {}
    BY <1>6, <1>f, <2>2 DEF RejectNext, Post, Settles, Threads
  <2> QED BY <2>1, <2>2
<1>7. ASSUME NEW t \in Threads, RequestCondensation(t) PROVE LogEffect
  BY <1>7, <1>d DEF RequestCondensation, Post
<1>8. ASSUME NEW t \in Threads, CondenseStep(t) PROVE LogEffect
  BY <1>8, <1>c DEF CondenseStep, EnterStep, Free, Pending
<1>9. ASSUME NEW t \in Threads, RunCall(t) PROVE LogEffect
  BY <1>9, <1>c DEF RunCall, Free
<1>10. ASSUME NEW t \in Threads, Leave(t) PROVE LogEffect
  BY <1>10, <1>c DEF Leave, AtTop, Stops
<1>11. ASSUME NEW t \in Threads, DetectStuck(t) PROVE LogEffect
  BY <1>11, <1>c DEF DetectStuck, AtTop, Active, Stops, Free
<1>12. ASSUME NEW t \in Threads, StartStep(t) PROVE LogEffect
  BY <1>12, <1>c DEF StartStep, AtTop, Active, Stops, Free, EnterStep, Pending
<1>13. ASSUME NEW t \in Threads, NEW v \in PromptHooks, StopDenied(t, v) PROVE LogEffect
  BY <1>13, <1>a, <1>c, <1>d DEF StopDenied, NoFeedback, AtTop, PostUser, Free, Post
<1>14. ASSUME NEW t \in Threads, FinishBlocked(t) PROVE LogEffect
  BY <1>14, <1>c DEF FinishBlocked
<1>15. ASSUME NEW t \in Threads, Condense(t) PROVE LogEffect
  BY <1>15, <1>d DEF Condense, Write, Post
<1>16. ASSUME NEW t \in Threads, CondenserRaises(t) PROVE LogEffect
  BY <1>16, <1>c DEF CondenserRaises, RaiseOut, AfterRaise
<1>17. ASSUME NEW t \in Threads, Answer(t) PROVE LogEffect
  BY <1>17, <1>d DEF Answer, Asks, Write, Post
<1>18. ASSUME NEW t \in Threads, TooLong(t) PROVE LogEffect
  BY <1>18, <1>d DEF TooLong, Asks, Write, Post
<1>19. ASSUME NEW t \in Threads, LLMRaises(t) PROVE LogEffect
  BY <1>19, <1>c DEF LLMRaises, Asks, RaiseOut, AfterRaise
<1>20. ASSUME NEW t \in Threads, NEW b \in Batches, Respond(t, b) PROVE LogEffect
  BY <1>20, <1>c DEF Respond, Asks
<1>21. ASSUME NEW t \in Threads, NEW v \in PromptHooks, Malformed(t, v) PROVE LogEffect
  BY <1>21, <1>d, <1>a DEF Malformed, Asks, PostUser, Post
<1>22. ASSUME NEW t \in Threads, EmitInvalid(t) PROVE LogEffect
  <2> DEFINE n == lastAction + 1
             e == Event("invalid", n)
             f == Event("error", n)
  <2>1. n \in Nat /\ e \in Events /\ f \in Events
    BY <1>a, EventTyped DEF Kinds
  <2>2. log' = log \o <<e, f>>
    BY <1>22 DEF EmitInvalid
  <2> HIDE DEF n
  <2>3. log' = Append(Append(log, e), f)
    <3> HIDE DEF e, f
    <3> QED BY <1>a, <2>1, <2>2
  <2>4. lastAction' = lastAction + 1
    BY <1>22 DEF EmitInvalid
  <2> QED BY <1>b, <2>1, <2>3, <2>4 DEF LogEffect
<1>23. ASSUME NEW t \in Threads, NEW v \in ActionHooks, Emit(t, v) PROVE LogEffect
  <2>1. PICK k \in Executable : log' = Append(log, Event(k, lastAction + 1))
    BY <1>23 DEF Emit, Post
  <2>2. Emits(t) /\ lastAction' = lastAction + 1
    BY <1>23 DEF Emit, Emits
  <2> QED BY <2>1, <2>2 DEF LogEffect
<1>24. ASSUME NEW t \in Threads, AskConfirm(t) PROVE LogEffect
  BY <1>24, <1>c DEF AskConfirm
<1>25. ASSUME NEW t \in Threads, GoAhead(t) PROVE LogEffect
  BY <1>25, <1>c DEF GoAhead
<1>26. ASSUME NEW t \in Threads, Unmark(t) PROVE LogEffect
  BY <1>26, <1>c DEF Unmark, NextAction
<1>27. ASSUME NEW t \in Threads, RejectBlocked(t) PROVE LogEffect
  <2>1. todo[t] # {}
    BY <1>27 DEF RejectBlocked, ConvInv, ThreadsInv, ThreadInv
  <2> QED BY <1>27, <2>1, <1>f DEF RejectBlocked, Write, NextAction, Post, Settles
<1>28. ASSUME NEW t \in Threads, CallTool(t) PROVE LogEffect
  BY <1>28, <1>c DEF CallTool, RaiseOut, AfterRaise, NextAction
<1>29. ASSUME NEW t \in Threads, Observe(t) PROVE LogEffect
  <2>1. todo[t] # {}
    BY <1>29 DEF Observe, ConvInv, ThreadsInv, ThreadInv
  <2> QED BY <1>29, <2>1, <1>f DEF Observe, Write, NextAction, Post, Settles
<1>30. ASSUME NEW t \in Threads, ReportError(t) PROVE LogEffect
  <2>1. First(todo[t]) \in Nat
    BY <1>30, <1>e DEF ReportError, ConvInv, ThreadsInv, ThreadInv
  <2> QED BY <1>30, <2>1, <1>d DEF ReportError, Write, NextAction, Post
<1>31. ASSUME NEW t \in Threads, Finish(t) PROVE LogEffect
  BY <1>31, <1>c DEF Finish, AfterFinish
<1>32. ASSUME NEW t \in Threads, AllExecuted(t) PROVE LogEffect
  BY <1>32, <1>c DEF AllExecuted
<1>33. ASSUME NEW t \in Threads, EndStep(t) PROVE LogEffect
  BY <1>33, <1>c DEF EndStep, AwaitsUser, AtLimit
<1>34. ASSUME NEW t \in Threads, Raised(t) PROVE LogEffect
  BY <1>34, <1>c DEF Raised
<1>35. CASE UNCHANGED vars
  BY <1>35, <1>c DEF vars
<1> QED
  BY <1>1, <1>2, <1>3, <1>4, <1>5, <1>6, <1>7, <1>8, <1>9, <1>10, <1>11, <1>12, <1>13,
     <1>14, <1>15, <1>16, <1>17, <1>18, <1>19, <1>20, <1>21, <1>22, <1>23, <1>24, <1>25,
     <1>26, <1>27, <1>28, <1>29, <1>30, <1>31, <1>32, <1>33, <1>34, <1>35 DEF Next, Loop,
        Ask, Collect, Execute,
     Step, Threads

\* Who changes the pending actions.
LEMMA PendingEffect ==
  ASSUME ConvInv, [Next]_vars
  PROVE  \/ Unmatched(log') = Unmatched(log)
         \/ \E t \in Threads : /\ Emits(t) /\ lastAction' = lastAction + 1
                               /\ Unmatched(log') = Unmatched(log) \cup {lastAction + 1}
         \/ \E t \in Threads : /\ Settles(t) /\ todo[t] # {} /\ lastAction' = lastAction
                               /\ Unmatched(log') = Unmatched(log) \ {First(todo[t])}
<1>a. log \in Seq(Events) /\ lastAction \in Nat /\ Known(log, lastAction)
  BY BoundsAreNat DEF ConvInv, TypeOK
<1>b. \A t \in Threads : todo[t] # {} => First(todo[t]) \in Nat
  BY CurrentKnown
<1>1. CASE \E k \in Plain, n \in Nat : log' = Append(log, Event(k, n))
  BY <1>a, <1>1, AppendPlain
<1>2. CASE \E j, k \in Plain, n \in Nat : log' = Append(Append(log, Event(j, n)), Event(k,
   n))
  <2>1. PICK j \in Plain, k \in Plain, n \in Nat :
               log' = Append(Append(log, Event(j, n)), Event(k, n))
    BY <1>2
  <2> DEFINE l == Append(log, Event(j, n))
  <2>2. l \in Seq(Events) /\ Unmatched(l) = Unmatched(log)
    BY <1>a, AppendPlain
  <2>3. log' = Append(l, Event(k, n))
    BY <2>1
  <2> HIDE DEF l
  <2>4. Unmatched(log') = Unmatched(l)
    BY <2>2, <2>3, AppendPlain
  <2> QED BY <2>2, <2>4
<1>3. CASE \E t \in Threads, k \in Executable :
             /\ Emits(t) /\ lastAction' = lastAction + 1
             /\ log' = Append(log, Event(k, lastAction + 1))
  BY <1>a, <1>3, AppendCall
<1>4. CASE \E t \in Threads, k \in Results :
             /\ Settles(t) /\ todo[t] # {} /\ lastAction' = lastAction
             /\ log' = Append(log, Event(k, First(todo[t])))
  BY <1>a, <1>b, <1>4, AppendResult
<1> QED BY <1>1, <1>2, <1>3, <1>4, LogGrows DEF LogEffect

\* In any step an action becomes pending only when it is made, and what was made stays
\* within the ids given out.
LEMMA PendingGrows ==
  ASSUME ConvInv, [Next]_vars
  PROVE  /\ lastAction' \in Nat /\ lastAction <= lastAction'
         /\ \A a \in Unmatched(log') : a \in Unmatched(log) \/ a > lastAction
<1>1. lastAction \in Nat
  BY BoundsAreNat DEF ConvInv, TypeOK
<1>2. lastAction' \in {lastAction, lastAction + 1}
  BY LogGrows DEF LogEffect
<1> QED BY <1>1, <1>2, PendingEffect
-----------------------------------------------------------------------------
(***************************************************************************)
(* Results are appended for the first action of `todo`.  Inside Agent.step *)
(* that action is pending, since the lock has been held from the moment    *)
(* the pending actions were read; reject_pending_actions() read them       *)
(* before it had the lock, and is the only one that can come late.         *)
(***************************************************************************)
IsResult(l, i, a) == l[i].kind \in Results /\ l[i].id = a

\* The second result of an action is a rejection by reject_pending_actions().
RepeatsRejected(l) ==
  \A i, j \in 1 .. Len(l) :
     (i < j /\ IsResult(l, i, l[j].id) /\ l[j].kind \in Results)
       => l[j].kind = "rejection" /\ Rejecters # {}

\* An event that is appended repeats a result only as a rejection from outside.
LEMMA AppendRepeats ==
  ASSUME NEW l \in Seq(Events), NEW e \in Events, RepeatsRejected(l),
         e.kind \in Results => \/ e.kind = "rejection" /\ Rejecters # {}
                               \/ ~ Settled(l, e.id)
  PROVE  RepeatsRejected(Append(l, e))
<1>1. /\ Len(Append(l, e)) = Len(l) + 1
      /\ \A i \in 1 .. Len(l) : Append(l, e)[i] = l[i]
      /\ Append(l, e)[Len(l) + 1] = e
      /\ Len(l) \in Nat
  BY AppendProperties, LenProperties
<1> SUFFICES ASSUME NEW i \in 1 .. Len(l) + 1, NEW j \in 1 .. Len(l) + 1, i < j,
                    IsResult(Append(l, e), i, Append(l, e)[j].id),
                    Append(l, e)[j].kind \in Results
             PROVE  Append(l, e)[j].kind = "rejection" /\ Rejecters # {}
  BY <1>1 DEF RepeatsRejected
<1>2. i \in 1 .. Len(l) /\ Append(l, e)[i] = l[i]
  BY <1>1
<1>3. CASE j \in 1 .. Len(l)
  BY <1>1, <1>2, <1>3 DEF RepeatsRejected, IsResult
<1>4. CASE j = Len(l) + 1
  BY <1>1, <1>2, <1>4 DEF IsResult, Settled, Has
<1> QED BY <1>1, <1>3, <1>4

\* Every step keeps that a second result is a rejection from outside.
LEMMA RepeatsStep ==
  ASSUME ConvInv, RepeatsRejected(log), [Next]_vars
  PROVE  RepeatsRejected(log')
<1>a. /\ log \in Seq(Events) /\ lastAction \in Nat /\ lastAction + 1 \in Nat
      /\ \A t \in Threads : todo[t] # {} => First(todo[t]) \in Nat
  BY BoundsAreNat, CurrentKnown DEF ConvInv, TypeOK
<1>b. \A k \in Plain \cup Executable : k \in Kinds /\ k \notin Results
  BY DEF Plain, Kinds, Executable, Results
<1>1. ASSUME NEW l \in Seq(Events), RepeatsRejected(l), NEW k \in Plain \cup Executable,
             NEW n \in Nat
      PROVE  Append(l, Event(k, n)) \in Seq(Events) /\ RepeatsRejected(Append(l, Event(k,
         n)))
  <2> DEFINE e == Event(k, n)
  <2>1. e \in Events /\ e.kind \notin Results
    BY <1>b, EventTyped
  <2> HIDE DEF e
  <2>2. Append(l, e) \in Seq(Events) /\ RepeatsRejected(Append(l, e))
    BY <1>1, <2>1, AppendRepeats, AppendProperties
  <2> QED BY <2>2 DEF e
<1>2. CASE \E t \in Threads, k \in Results :
             /\ Settles(t) /\ todo[t] # {}
             /\ Observe(t) \/ k = "rejection"
             /\ log' = Append(log, Event(k, First(todo[t])))
  <2>1. PICK t \in Threads, k \in Results :
               /\ Settles(t) /\ todo[t] # {}
               /\ Observe(t) \/ k = "rejection"
               /\ log' = Append(log, Event(k, First(todo[t])))
    BY <1>2
  <2> DEFINE e == Event(k, First(todo[t]))
  <2>0. k \in Kinds /\ First(todo[t]) \in Nat
    BY <1>a, <2>1 DEF Results, Kinds
  <2>2. e \in Events /\ e.kind = k /\ e.id = First(todo[t])
    BY <2>0, EventTyped
  <2> HIDE DEF e
  <2>3. (k = "rejection" /\ Rejecters # {}) \/ ~ Settled(log, e.id)
    <3>1. CASE t \in Rejecters /\ k = "rejection"
      BY <3>1
    <3>2. CASE ~ (t \in Rejecters /\ k = "rejection")
      <4>1. RejectBlocked(t) \/ Observe(t)
        BY <2>1, <3>2 DEF Settles
      <4>2. First(todo[t]) \in Unmatched(log)
        BY <2>1, <4>1, CurrentKnown
           DEF RejectBlocked, Observe, ConvInv, ThreadsInv, ThreadInv, InStep
      <4> QED BY <2>2, <4>2 DEF Unmatched
    <3> QED BY <3>1, <3>2
  <2>4. log' = Append(log, e)
    BY <2>1 DEF e
  <2> QED BY <1>a, <2>2, <2>3, <2>4, AppendRepeats
<1>3. CASE \E j, k \in Plain, n \in Nat : log' = Append(Append(log, Event(j, n)), Event(k,
   n))
  <2>1. PICK j \in Plain, k \in Plain, n \in Nat :
               log' = Append(Append(log, Event(j, n)), Event(k, n))
    BY <1>3
  <2> DEFINE l == Append(log, Event(j, n))
  <2>2. l \in Seq(Events) /\ RepeatsRejected(l)
    BY <1>a, <1>1
  <2>3. log' = Append(l, Event(k, n))
    BY <2>1
  <2> HIDE DEF l
  <2> QED BY <2>2, <2>3, <1>1
<1>4. CASE \E k \in Plain \cup Executable, n \in Nat : log' = Append(log, Event(k, n))
  BY <1>a, <1>1, <1>4
<1>5. CASE log' = log
  BY <1>5
<1> QED BY <1>a, <1>2, <1>3, <1>4, <1>5, LogGrows DEF LogEffect

\* The exact shape of the race of reject_pending_actions() with a run: whoever else
\* settles an action, executing or rejecting it inside Agent.step, is the first to do so,
\* for any number of concurrent calls and with crashes at any point.
THEOREM RepeatsAreRejections == Spec => []RepeatsRejected(log)
<1>1. Init => RepeatsRejected(log)
  BY DEF Init, RepeatsRejected
<1>2. ConvInv /\ RepeatsRejected(log) /\ [Next]_vars => RepeatsRejected(log)'
  BY RepeatsStep
<1> QED BY <1>1, <1>2, ConvInvInit, ConvInvStep, PTL DEF Spec

\* OneResult where nobody calls reject_pending_actions(): the log never holds two
\* observations, or an observation and a rejection, of one action.
THEOREM ResultsAreUnique == ASSUME Rejecters = {} PROVE Spec => []OneResult
<1>1. ConvInv /\ RepeatsRejected(log) => OneResult
  <2> SUFFICES ASSUME ConvInv, RepeatsRejected(log),
                      NEW i \in 1 .. Len(log), NEW j \in 1 .. Len(log),
                      {log[i].kind, log[j].kind} \subseteq {"observation", "rejection"},
                      log[i].id = log[j].id
               PROVE  i = j
    BY DEF OneResult
  <2>1. Len(log) \in Nat
    BY LenProperties DEF ConvInv, TypeOK
  <2>2. ~ (i < j) /\ ~ (j < i)
    BY DEF RepeatsRejected, IsResult, Results
  <2> QED BY <2>1, <2>2
<1>2. Spec => []ConvInv
  BY ConvInvInit, ConvInvStep, PTL DEF Spec
<1> QED BY <1>1, <1>2, RepeatsAreRejections, PTL
-----------------------------------------------------------------------------
(***************************************************************************)
(* What the state lock buys: while a thread is inside Agent.step, or       *)
(* writing rejections, the others do nothing to what it reads.             *)
(***************************************************************************)

\* A step of the agent is taken inside it, apart from the handling of an exception.
LEMMA StepIsInside ==
  ASSUME NEW t \in Threads, Step(t), ~ Raised(t)
  PROVE  pc[t] \in InStep
<1>1. CASE FinishBlocked(t) \/ EndStep(t)
  BY <1>1 DEF FinishBlocked, EndStep, InStep
<1>2. CASE Ask(t)
  BY <1>2 DEF Ask, Condense, CondenserRaises, Answer, TooLong, LLMRaises, Respond,
     Malformed,
              Asks, InStep
<1>3. CASE Collect(t)
  BY <1>3 DEF Collect, EmitInvalid, AskConfirm, GoAhead, Emit, InStep
<1>4. CASE Execute(t)
  BY <1>4 DEF Execute, Unmark, RejectBlocked, CallTool, Observe, ReportError, Finish,
              AllExecuted, InStep
<1> QED BY <1>1, <1>2, <1>3, <1>4 DEF Step

\* What a step of the agent may do to the rest of the state.
StepFacts(t) ==
  /\ held' = held /\ (unconfirmed' = unconfirmed \/ AskConfirm(t))
  /\ status' \in {status, "FINISHED", "ERROR"} \/ AskConfirm(t)
  /\ \A s \in Threads \ {t} : pc'[s] = pc[s]
  /\ pc'[t] \in InStep \cup {"loop", "out", "raised"}
  /\ pc[t] = "ended" /\ status = "WAITING" => log' = log /\ status' = status /\ pc'[t] =
     "out"

\* A step of the agent by t does to the others what StepFacts says.
LEMMA AgentStep == ASSUME ConvInv, NEW t \in Threads, Step(t) PROVE StepFacts(t)
<1>a. pc \in [Threads -> Outside \cup Inside]
  BY DEF ConvInv, TypeOK
<1> USE DEF Goto, durable, locals, history
<1>1. ASSUME FinishBlocked(t) PROVE StepFacts(t)
  BY <1>1, <1>a DEF FinishBlocked, StepFacts, InStep
<1>2. ASSUME Condense(t) PROVE StepFacts(t)
  BY <1>2, <1>a DEF Condense, Write, StepFacts, InStep
<1>3. ASSUME CondenserRaises(t) PROVE StepFacts(t)
  BY <1>3, <1>a DEF CondenserRaises, RaiseOut, AfterRaise, StepFacts, InStep
<1>4. ASSUME Answer(t) PROVE StepFacts(t)
  BY <1>4, <1>a DEF Answer, Asks, Write, StepFacts, InStep
<1>5. ASSUME TooLong(t) PROVE StepFacts(t)
  BY <1>5, <1>a DEF TooLong, Asks, Write, StepFacts, InStep
<1>6. ASSUME LLMRaises(t) PROVE StepFacts(t)
  BY <1>6, <1>a DEF LLMRaises, Asks, RaiseOut, AfterRaise, StepFacts, InStep
<1>7. ASSUME NEW b \in Batches, Respond(t, b) PROVE StepFacts(t)
  BY <1>7, <1>a DEF Respond, Asks, StepFacts, InStep
<1>8. ASSUME NEW v \in PromptHooks, Malformed(t, v) PROVE StepFacts(t)
  BY <1>8, <1>a DEF Malformed, Asks, PostUser, StepFacts, InStep
<1>9. ASSUME EmitInvalid(t) PROVE StepFacts(t)
  BY <1>9, <1>a DEF EmitInvalid, StepFacts, InStep
<1>10. ASSUME NEW v \in ActionHooks, Emit(t, v) PROVE StepFacts(t)
  BY <1>10, <1>a DEF Emit, StepFacts, InStep
<1>11. ASSUME AskConfirm(t) PROVE StepFacts(t)
  BY <1>11, <1>a DEF AskConfirm, StepFacts, InStep
<1>12. ASSUME GoAhead(t) PROVE StepFacts(t)
  BY <1>12, <1>a DEF GoAhead, StepFacts, InStep
<1>13. ASSUME Unmark(t) PROVE StepFacts(t)
  BY <1>13, <1>a DEF Unmark, NextAction, StepFacts, InStep
<1>14. ASSUME RejectBlocked(t) PROVE StepFacts(t)
  BY <1>14, <1>a DEF RejectBlocked, Write, NextAction, StepFacts, InStep
<1>15. ASSUME CallTool(t) PROVE StepFacts(t)
  BY <1>15, <1>a DEF CallTool, RaiseOut, AfterRaise, NextAction, StepFacts, InStep
<1>16. ASSUME Observe(t) PROVE StepFacts(t)
  BY <1>16, <1>a DEF Observe, Write, NextAction, StepFacts, InStep
<1>17. ASSUME ReportError(t) PROVE StepFacts(t)
  BY <1>17, <1>a DEF ReportError, Write, NextAction, StepFacts, InStep
<1>18. ASSUME Finish(t) PROVE StepFacts(t)
  BY <1>18, <1>a DEF Finish, AfterFinish, StepFacts, InStep
<1>19. ASSUME AllExecuted(t) PROVE StepFacts(t)
  BY <1>19, <1>a DEF AllExecuted, StepFacts, InStep
<1>20. ASSUME EndStep(t) PROVE StepFacts(t)
  BY <1>20, <1>a DEF EndStep, AwaitsUser, AtLimit, StepFacts, InStep
<1>21. ASSUME Raised(t) PROVE StepFacts(t)
  BY <1>21, <1>a DEF Raised, StepFacts, InStep
<1> QED
  BY <1>1, <1>2, <1>3, <1>4, <1>5, <1>6, <1>7, <1>8, <1>9, <1>10, <1>11, <1>12, <1>13,
     <1>14, <1>15, <1>16, <1>17, <1>18, <1>19, <1>20, <1>21 DEF Step, Ask, Collect, Execute

\* The steps of everybody else: an exception handled, pending actions read, a condensation
\* asked for.
LEMMA HolderAlone ==
  ASSUME ConvInv, [Next]_vars, NEW s \in Threads, pc[s] \in Inside,
         ~ CrashRestart, ~ Step(s), ~ RejectNext(s)
  PROVE  /\ pc'[s] = pc[s] /\ todo'[s] = todo[s] /\ lock' = lock
         /\ UNCHANGED <<lastAction, blockedActions, deniedActions, executed, unconfirmed>>
         /\ Unmatched(log') = Unmatched(log)
         /\ status' \in {status, "ERROR"}
<1> DEFINE Frame == /\ pc'[s] = pc[s] /\ todo'[s] = todo[s] /\ lock' = lock
                    /\ UNCHANGED <<lastAction, blockedActions, deniedActions, executed,
                       unconfirmed>>
                    /\ Unmatched(log') = Unmatched(log)
                    /\ status' \in {status, "ERROR"}
<1>a. /\ lock = s /\ lock # NoThread /\ pc[s] \notin Outside
      /\ \A t \in Threads : pc[t] \in Inside => t = s
      /\ log \in Seq(Events) /\ pc \in [Threads -> Outside \cup Inside]
      /\ todo \in [Threads -> SUBSET ActionIds]
  BY BoundsAreNat DEF ConvInv, TypeOK, ThreadsInv, ThreadInv, Inside, InStep, Outside
<1>1. ASSUME NEW t \in Threads, RejectRead(t) PROVE Frame
  BY <1>1, <1>a DEF RejectRead, Goto, Outside, durable, ids, history
<1>2. ASSUME NEW t \in Threads, RequestCondensation(t) PROVE Frame
  <2>1. log' = Append(log, Event("request", 0)) /\ "request" \in Plain
    BY <1>2 DEF RequestCondensation, Post, Plain, Kinds, Executable, Results
  <2>2. Unmatched(log') = Unmatched(log)
    BY <1>a, <2>1, AppendPlain
  <2> QED BY <1>2, <1>a, <2>2 DEF RequestCondensation, Goto, Outside, ids, history
<1>3. ASSUME NEW t \in Threads, Raised(t) PROVE Frame
  BY <1>3, <1>a DEF Raised, Goto, Outside, ids, history
<1>4. ASSUME NEW t \in Threads, Step(t), ~ Raised(t) PROVE FALSE
  BY <1>4, <1>a, StepIsInside DEF Inside
<1>5. ASSUME NEW t \in Threads, RejectNext(t) PROVE FALSE
  BY <1>5, <1>a DEF RejectNext, Inside
<1>6. ASSUME Free PROVE FALSE
  BY <1>6, <1>a DEF Free
<1>7. ASSUME NEW t \in Threads, Loop(t) PROVE FALSE
  BY <1>6, <1>7 DEF Loop, Leave, DetectStuck, StartStep, StopDenied, NoFeedback, AtTop
<1>8. ASSUME NEW t \in Threads, RejectEnter(t) \/ CondenseStep(t) \/ RunCall(t) PROVE FALSE
  BY <1>6, <1>8 DEF RejectEnter, CondenseStep, RunCall
<1>9. ASSUME Pause \/ \E v \in PromptHooks : SendMessage(v) PROVE FALSE
  BY <1>6, <1>9 DEF Pause, SendMessage
<1>10. ASSUME UNCHANGED vars PROVE Frame
  BY <1>10 DEF vars, durable, locals, ids, history
<1> HIDE DEF Frame
<1>11. ASSUME NEW t \in Threads, Step(t) PROVE Frame
  BY <1>3, <1>4, <1>11
<1>12. ASSUME Next PROVE Frame
  <2>1. CASE \E t \in Rejecters : RejectRead(t) \/ RejectEnter(t) \/ RejectNext(t)
    BY <2>1, <1>1, <1>5, <1>8 DEF Threads
  <2>2. CASE \E t \in Condensers : RequestCondensation(t) \/ CondenseStep(t)
    BY <2>2, <1>2, <1>8 DEF Threads
  <2>3. CASE \E t \in Runners : RunCall(t) \/ Loop(t)
    BY <2>3, <1>7, <1>8 DEF Threads
  <2>4. CASE \E t \in Runners \cup Condensers : Step(t)
    BY <2>4, <1>11 DEF Threads
  <2> QED BY <1>12, <2>1, <2>2, <2>3, <2>4, <1>9 DEF Next
<1>13. Frame
  BY <1>10, <1>12
<1> QED BY <1>13 DEF Frame

\* Between the call of a tool and the event of its result, and between the taking of a
\* mark and the rejection it stands for, the action stays the first of `todo`.
LEMMA CurrentStays ==
  ASSUME ConvInv, [Next]_vars, ~ CrashRestart,
         NEW s \in Threads, pc[s] \in {"returned", "unmarked_action"}
  PROVE  \/ pc'[s] = pc[s] /\ todo'[s] = todo[s]
         \/ First(todo[s]) \notin Unmatched(log')
<1>1. pc[s] \in Inside /\ pc[s] \in InStep
  BY DEF Inside, InStep
<1>2. ASSUME Step(s) PROVE Observe(s) \/ RejectBlocked(s)
  BY <1>2 DEF Step, Ask, Collect, Execute, FinishBlocked, EndStep, Raised, Condense,
       CondenserRaises, Answer, TooLong, LLMRaises, Respond, Malformed, Asks, EmitInvalid,
       AskConfirm, GoAhead, Emit, Unmark, CallTool, ReportError, Finish, AllExecuted
<1>3. ASSUME RejectNext(s) PROVE FALSE
  BY <1>3 DEF RejectNext
<1>4. ASSUME Observe(s) \/ RejectBlocked(s) PROVE First(todo[s]) \notin Unmatched(log')
  <2>1. /\ First(todo[s]) \in Nat /\ log \in Seq(Events)
    BY CurrentKnown DEF ConvInv, TypeOK, ThreadsInv, ThreadInv
  <2>2. \E k \in Results : log' = Append(log, Event(k, First(todo[s])))
    BY <1>4 DEF Observe, RejectBlocked, Write, Post, NextAction, Results
  <2> QED BY <2>1, <2>2, AppendResult
<1> QED BY <1>1, <1>2, <1>3, <1>4, HolderAlone
-----------------------------------------------------------------------------
(***************************************************************************)
(* At most one execution, where nothing crashes and no tool fails: an      *)
(* action that was executed is settled, or about to be by the thread that  *)
(* executed it.                                                            *)
(***************************************************************************)
ExecutedInv ==
  \A a \in ActionIds : executed[a] # 0 =>
     /\ executed[a] = 1
     /\ a <= lastAction
     /\ \/ a \notin Unmatched(log)
        \/ \E t \in Threads : pc[t] = "returned" /\ a = First(todo[t])

NoCrashes == MaxCrashes = 0
NoFailures == ToolResults \subseteq {"ok"}

\* Without crashes there is none.
LEMMA NothingCrashes == ASSUME NoCrashes, ConvInv PROVE ~ CrashRestart
<1>1. crashes = 0 /\ MaxCrashes = 0
  BY DEF NoCrashes, ConvInv, TypeOK
<1> QED BY <1>1 DEF CrashRestart

\* What a thread that calls a tool knows of the action.
LEMMA CallToolKnows ==
  ASSUME ConvInv, NEW t \in Threads, CallTool(t)
  PROVE  /\ lock = t /\ pc[t] = "exec" /\ log' = log /\ lastAction' = lastAction
         /\ First(todo[t]) \in Unmatched(log) /\ First(todo[t]) \in 1 .. lastAction
         /\ \A s \in Threads : pc[s] \in Inside => s = t
<1>1. pc[t] = "exec" /\ todo[t] # {} /\ log' = log /\ lastAction' = lastAction
  BY DEF CallTool, RaiseOut, durable, ids
<1>2. First(todo[t]) \in todo[t] /\ First(todo[t]) \in 1 .. lastAction
  BY <1>1, CurrentKnown
<1>3. lock = t /\ todo[t] \subseteq Unmatched(log) /\ \A s \in Threads : pc[s] \in Inside
   => s = t
  BY <1>1 DEF ConvInv, ThreadsInv, ThreadInv, Inside, InStep
<1> QED BY <1>1, <1>2, <1>3

\* Every step keeps that an action is executed once.
LEMMA ExecutedStep ==
  ASSUME NoCrashes, NoFailures, ConvInv, ExecutedInv, [Next]_vars
  PROVE  ExecutedInv'
<1> SUFFICES ASSUME NEW a \in ActionIds, executed'[a] # 0
             PROVE  /\ executed'[a] = 1 /\ a <= lastAction'
                    /\ \/ a \notin Unmatched(log')
                       \/ \E t \in Threads : pc'[t] = "returned" /\ a = First(todo'[t])
  BY DEF ExecutedInv
<1>a. ~ CrashRestart
  BY NothingCrashes
<1>b. /\ lastAction \in Nat /\ lastAction' \in Nat /\ lastAction <= lastAction' /\ a \in Nat
      /\ executed \in [ActionIds -> Nat]
  BY BoundsAreNat, PendingGrows DEF ConvInv, TypeOK, ActionIds
<1>1. CASE executed' = executed
  <2>1. executed[a] = 1 /\ a <= lastAction
    BY <1>1 DEF ExecutedInv
  <2>2. CASE a \notin Unmatched(log)
    <3>1. a \notin Unmatched(log')
      BY <1>b, <2>1, <2>2, PendingGrows
    <3> QED BY <1>1, <1>b, <2>1, <3>1
  <2>3. CASE \E t \in Threads : pc[t] = "returned" /\ a = First(todo[t])
    <3>1. PICK t \in Threads : pc[t] = "returned" /\ a = First(todo[t])
      BY <2>3
    <3>2. (pc'[t] = "returned" /\ todo'[t] = todo[t]) \/ a \notin Unmatched(log')
      BY <1>a, <3>1, CurrentStays
    <3> QED BY <1>1, <1>b, <2>1, <3>1, <3>2
  <2> QED BY <1>1, <2>2, <2>3 DEF ExecutedInv
<1>2. CASE executed' # executed
  <2>1. PICK t \in Threads :
               CallTool(t) /\ executed' = [executed EXCEPT ![First(todo[t])] = @ + 1]
    BY <1>2, OnlyCallTool
  <2>2. /\ pc[t] = "exec" /\ log' = log /\ lastAction' = lastAction
        /\ First(todo[t]) \in Unmatched(log) /\ First(todo[t]) \in 1 .. lastAction
        /\ \A s \in Threads : pc[s] # "returned"
    BY <2>1, CallToolKnows DEF Inside, InStep
  <2>3. CASE a = First(todo[t])
    <3>1. executed[a] = 0
      BY <2>2, <2>3 DEF ExecutedInv
    <3>2. executed'[a] = 1
      BY <1>b, <2>1, <2>3, <3>1
    <3>3. pc'[t] = "returned" /\ todo'[t] = todo[t]
      BY <2>1 DEF CallTool, NoFailures, Goto, locals, ConvInv, TypeOK
    <3> QED BY <1>b, <2>2, <2>3, <3>2, <3>3
  <2>4. CASE a # First(todo[t])
    <3>1. executed'[a] = executed[a]
      BY <1>b, <2>1, <2>4
    <3> QED BY <2>2, <3>1 DEF ExecutedInv
  <2> QED BY <2>3, <2>4
<1> QED BY <1>1, <1>2

\* ExecutedOnce for any number of concurrent run(), condense() and
\* reject_pending_actions() calls, where no tool fails and the server does not crash: the
\* lock is all that keeps two of them from executing one pending action.
THEOREM ActionsExecuteOnce == ASSUME NoCrashes, NoFailures PROVE Spec => []ExecutedOnce
<1>1. Init => ExecutedInv
  BY DEF Init, ExecutedInv
<1>2. ConvInv /\ ExecutedInv /\ [Next]_vars => ExecutedInv'
  BY ExecutedStep
<1>3. ConvInv /\ ExecutedInv => ExecutedOnce
  BY DEF ExecutedInv, ExecutedOnce, ConvInv, TypeOK
<1> QED BY <1>1, <1>2, <1>3, ConvInvInit, ConvInvStep, PTL DEF Spec
-----------------------------------------------------------------------------
(***************************************************************************)
(* What a hook blocked is not executed, where nothing crashes: until the   *)
(* rejection is in the log, the mark is there or the thread that took it   *)
(* holds the lock.                                                         *)
(***************************************************************************)
NothingEarly == \A a \in ActionIds : executed[a] # 0 => a <= lastAction

BlockedInv ==
  /\ NothingEarly
  /\ \A a \in deniedActions :
       /\ a <= lastAction /\ executed[a] = 0
       /\ \/ a \in blockedActions
          \/ a \notin Unmatched(log)
          \/ \E t \in Threads : pc[t] = "unmarked_action" /\ a = First(todo[t])

marks == <<blockedActions, deniedActions>>

\* Who changes the marks of the hooks, and their record.
LEMMA MarksStep ==
  ASSUME ConvInv, [Next]_vars
  PROVE  \/ UNCHANGED marks
         \/ \E t \in Threads : Unmark(t)
         \/ \E t \in Threads, v \in ActionHooks : Emit(t, v)
<1> USE DEF durable, history, marks
<1>1. ASSUME NEW v \in PromptHooks, SendMessage(v) PROVE UNCHANGED marks
  BY <1>1 DEF SendMessage, PostUser, StatusOnMessage
<1>2. ASSUME Pause PROVE UNCHANGED marks
  BY <1>2 DEF Pause
<1>3. ASSUME CrashRestart PROVE UNCHANGED marks
  BY <1>3 DEF CrashRestart
<1>4. ASSUME NEW t \in Threads, RejectRead(t) PROVE UNCHANGED marks
  BY <1>4 DEF RejectRead, Pending
<1>5. ASSUME NEW t \in Threads, RejectEnter(t) PROVE UNCHANGED marks
  BY <1>5 DEF RejectEnter, StatusOnReject, Free
<1>6. ASSUME NEW t \in Threads, RejectNext(t) PROVE UNCHANGED marks
  BY <1>6 DEF RejectNext
<1>7. ASSUME NEW t \in Threads, RequestCondensation(t) PROVE UNCHANGED marks
  BY <1>7 DEF RequestCondensation
<1>8. ASSUME NEW t \in Threads, CondenseStep(t) PROVE UNCHANGED marks
  BY <1>8 DEF CondenseStep, EnterStep, Free, Pending
<1>9. ASSUME NEW t \in Threads, RunCall(t) PROVE UNCHANGED marks
  BY <1>9 DEF RunCall, Free
<1>10. ASSUME NEW t \in Threads, Leave(t) PROVE UNCHANGED marks
  BY <1>10 DEF Leave, AtTop, Stops
<1>11. ASSUME NEW t \in Threads, DetectStuck(t) PROVE UNCHANGED marks
  BY <1>11 DEF DetectStuck, AtTop, Active, Stops, Free
<1>12. ASSUME NEW t \in Threads, StartStep(t) PROVE UNCHANGED marks
  BY <1>12 DEF StartStep, AtTop, Active, Stops, Free, EnterStep, Pending
<1>13. ASSUME NEW t \in Threads, NEW v \in PromptHooks, StopDenied(t,
   v) PROVE UNCHANGED marks
  BY <1>13 DEF StopDenied, NoFeedback, AtTop, PostUser, Free
<1>14. ASSUME NEW t \in Threads, FinishBlocked(t) PROVE UNCHANGED marks
  BY <1>14 DEF FinishBlocked
<1>15. ASSUME NEW t \in Threads, Condense(t) PROVE UNCHANGED marks
  BY <1>15 DEF Condense, Write
<1>16. ASSUME NEW t \in Threads, CondenserRaises(t) PROVE UNCHANGED marks
  BY <1>16 DEF CondenserRaises, RaiseOut, AfterRaise
<1>17. ASSUME NEW t \in Threads, Answer(t) PROVE UNCHANGED marks
  BY <1>17 DEF Answer, Asks, Write
<1>18. ASSUME NEW t \in Threads, TooLong(t) PROVE UNCHANGED marks
  BY <1>18 DEF TooLong, Asks, Write
<1>19. ASSUME NEW t \in Threads, LLMRaises(t) PROVE UNCHANGED marks
  BY <1>19 DEF LLMRaises, Asks, RaiseOut, AfterRaise
<1>20. ASSUME NEW t \in Threads, NEW b \in Batches, Respond(t, b) PROVE UNCHANGED marks
  BY <1>20 DEF Respond, Asks
<1>21. ASSUME NEW t \in Threads, NEW v \in PromptHooks, Malformed(t,
   v) PROVE UNCHANGED marks
  BY <1>21 DEF Malformed, Asks, PostUser
<1>22. ASSUME NEW t \in Threads, EmitInvalid(t) PROVE UNCHANGED marks
  BY <1>22 DEF EmitInvalid
<1>24. ASSUME NEW t \in Threads, AskConfirm(t) PROVE UNCHANGED marks
  BY <1>24 DEF AskConfirm
<1>25. ASSUME NEW t \in Threads, GoAhead(t) PROVE UNCHANGED marks
  BY <1>25 DEF GoAhead
<1>27. ASSUME NEW t \in Threads, RejectBlocked(t) PROVE UNCHANGED marks
  BY <1>27 DEF RejectBlocked, Write, NextAction
<1>28. ASSUME NEW t \in Threads, CallTool(t) PROVE UNCHANGED marks
  BY <1>28 DEF CallTool, RaiseOut, AfterRaise, NextAction
<1>29. ASSUME NEW t \in Threads, Observe(t) PROVE UNCHANGED marks
  BY <1>29 DEF Observe, Write, NextAction
<1>30. ASSUME NEW t \in Threads, ReportError(t) PROVE UNCHANGED marks
  BY <1>30 DEF ReportError, Write, NextAction
<1>31. ASSUME NEW t \in Threads, Finish(t) PROVE UNCHANGED marks
  BY <1>31 DEF Finish, AfterFinish
<1>32. ASSUME NEW t \in Threads, AllExecuted(t) PROVE UNCHANGED marks
  BY <1>32 DEF AllExecuted
<1>33. ASSUME NEW t \in Threads, EndStep(t) PROVE UNCHANGED marks
  BY <1>33 DEF EndStep, AwaitsUser, AtLimit
<1>34. ASSUME NEW t \in Threads, Raised(t) PROVE UNCHANGED marks
  BY <1>34 DEF Raised
<1>35. CASE UNCHANGED vars
  BY <1>35 DEF vars, durable, history
<1> QED
  BY <1>1, <1>2, <1>3, <1>4, <1>5, <1>6, <1>7, <1>8, <1>9, <1>10, <1>11, <1>12, <1>13,
     <1>14, <1>15, <1>16, <1>17, <1>18, <1>19, <1>20, <1>21, <1>22, <1>24, <1>25,
     <1>27, <1>28, <1>29, <1>30, <1>31, <1>32, <1>33, <1>34, <1>35 DEF Next, Loop, Ask,
        Collect, Execute,
     Step, Threads

\* Every step keeps that a blocked action is not executed.
LEMMA BlockedStep ==
  ASSUME NoCrashes, ConvInv, BlockedInv, [Next]_vars
  PROVE  BlockedInv'
<1>a. ~ CrashRestart
  BY NothingCrashes
<1>b. /\ lastAction \in Nat /\ lastAction' \in Nat /\ lastAction <= lastAction'
      /\ executed \in [ActionIds -> Nat] /\ deniedActions \subseteq ActionIds
      /\ ActionIds \subseteq Nat
  <2>1. lastAction \in Nat /\ lastAction' \in Nat /\ lastAction <= lastAction'
    BY BoundsAreNat, PendingGrows DEF ConvInv, TypeOK
  <2>2. executed \in [ActionIds -> Nat] /\ deniedActions \subseteq ActionIds
    BY DEF ConvInv, TypeOK
  <2>3. ActionIds \subseteq Nat
    BY BoundsAreNat DEF ActionIds
  <2> QED BY <2>1, <2>2, <2>3
\* The executions: none of an action that a hook blocked.
<1>1. \A a \in ActionIds : executed'[a] # executed[a] =>
                              a <= lastAction' /\ a \notin deniedActions'
  <2> SUFFICES ASSUME NEW a \in ActionIds, executed'[a] # executed[a]
               PROVE  a <= lastAction' /\ a \notin deniedActions'
    OBVIOUS
  <2>1. PICK t \in Threads :
               CallTool(t) /\ executed' = [executed EXCEPT ![First(todo[t])] = @ + 1]
    BY OnlyCallTool
  <2>2. a = First(todo[t])
    BY <1>b, <2>1
  <2>3. /\ pc[t] = "exec" /\ lastAction' = lastAction /\ a \in 1 .. lastAction
        /\ a \in Unmatched(log) /\ \A s \in Threads : pc[s] # "unmarked_action"
    BY <2>1, <2>2, CallToolKnows DEF Inside, InStep
  <2>4. a \notin blockedActions /\ deniedActions' = deniedActions
    BY <2>1, <2>2 DEF CallTool, MayCall, NextAction, RaiseOut
  <2> QED BY <2>3, <2>4 DEF BlockedInv
<1>2. NothingEarly'
  <2> SUFFICES ASSUME NEW a \in ActionIds, executed'[a] # 0 PROVE a <= lastAction'
    BY DEF NothingEarly
  <2>1. CASE executed'[a] = executed[a]
    <3>1. a <= lastAction /\ a \in Nat
      BY <1>b, <2>1 DEF BlockedInv, NothingEarly
    <3> QED BY <1>b, <3>1
  <2> QED BY <1>1, <2>1
\* The marks: what was settled stays settled.
<1>3. ASSUME NEW a \in deniedActions
      PROVE  /\ a <= lastAction'
             /\ \/ a \in blockedActions'
                \/ a \notin Unmatched(log')
                \/ \E t \in Threads : pc'[t] = "unmarked_action" /\ a = First(todo'[t])
  <2>0. a <= lastAction /\ a \in Nat
    BY <1>b DEF BlockedInv
  <2>1. CASE a \notin Unmatched(log)
    BY <1>b, <2>0, <2>1, PendingGrows
  <2>2. CASE \E t \in Threads : pc[t] = "unmarked_action" /\ a = First(todo[t])
    <3>1. PICK t \in Threads : pc[t] = "unmarked_action" /\ a = First(todo[t])
      BY <2>2
    <3>2. (pc'[t] = "unmarked_action" /\ todo'[t] = todo[t]) \/ a \notin Unmatched(log')
      BY <1>a, <3>1, CurrentStays
    <3> QED BY <1>b, <2>0, <3>1, <3>2
  <2>3. CASE a \in blockedActions
    <3>1. CASE \E t \in Threads : Unmark(t)
      <4>1. PICK t \in Threads : Unmark(t)
        BY <3>1
      <4>2. /\ blockedActions' = blockedActions \ {First(todo[t])}
            /\ pc'[t] = "unmarked_action" /\ todo'[t] = todo[t]
        BY <4>1 DEF Unmark, NextAction, Goto, ConvInv, TypeOK
      <4> QED BY <1>b, <2>0, <2>3, <4>2
    <3>2. CASE blockedActions' = blockedActions
      BY <1>b, <2>0, <2>3, <3>2
    <3>3. CASE \E t \in Threads, v \in ActionHooks : Emit(t, v)
      <4>1. blockedActions \subseteq blockedActions'
        BY <3>3 DEF Emit
      <4> QED BY <1>b, <2>0, <2>3, <4>1
    <3> QED BY <3>1, <3>2, <3>3, MarksStep DEF marks
  <2> QED BY <2>1, <2>2, <2>3 DEF BlockedInv
\* A new verdict: the mark is saved with it, and the action is new.
<1>4. ASSUME NEW a \in deniedActions', a \notin deniedActions
      PROVE  a \in blockedActions' /\ a <= lastAction' /\ executed'[a] = 0
  <2>1. PICK t \in Threads, v \in ActionHooks : Emit(t, v)
    BY <1>4, MarksStep DEF Unmark, history, marks
  <2>2. /\ a = lastAction + 1 /\ a \in blockedActions' /\ lastAction' = lastAction + 1
        /\ executed' = executed /\ calls[t] # <<>> /\ pc[t] = "emit"
    BY <1>4, <2>1 DEF Emit
  <2>3. a \in ActionIds
    BY <2>2, EmitRoom
  <2>4. executed[a] = 0
    BY <1>b, <2>2, <2>3 DEF BlockedInv, NothingEarly
  <2> QED BY <1>b, <2>2, <2>4
<1>5. ASSUME NEW a \in deniedActions
      PROVE  a \in deniedActions' => executed'[a] = 0
  BY <1>b, <1>1 DEF BlockedInv
<1> QED BY <1>2, <1>3, <1>4, <1>5 DEF BlockedInv

\* BlockedNeverExecuted for any number of concurrent callers, tools that fail included,
\* where the server does not crash (ConvBlockCrash shows what a crash does).
THEOREM BlockedStaysUnexecuted == ASSUME NoCrashes PROVE Spec => []BlockedNeverExecuted
<1>1. Init => BlockedInv
  BY DEF Init, BlockedInv, NothingEarly
<1>2. ConvInv /\ BlockedInv /\ [Next]_vars => BlockedInv'
  BY BlockedStep
<1>3. BlockedInv => BlockedNeverExecuted
  BY DEF BlockedInv, BlockedNeverExecuted
<1> QED BY <1>1, <1>2, <1>3, ConvInvInit, ConvInvStep, PTL DEF Spec
-----------------------------------------------------------------------------
(***************************************************************************)
(* A finished conversation has no pending action, where nothing crashes    *)
(* and no tool fails: inside Agent.step what is pending is what the step   *)
(* has still to execute, and FINISHED holds outside it only when nothing   *)
(* is left.                                                                *)
(***************************************************************************)
Working == InStep \ {"ended"}

CleanInv ==
  /\ \A t \in Threads : pc[t] # "failed"
  /\ \A t \in Threads : pc[t] \in Working => Unmatched(log) = todo[t]
  /\ (status = "FINISHED" /\ \A t \in Threads : pc[t] \notin Working) => Unmatched(log) = {}

\* What a step of t, alone inside Agent.step, has to leave behind.
LeavesClean(t) ==
  /\ pc'[t] # "failed"
  /\ pc'[t] \in Working => Unmatched(log') = todo'[t]
  /\ pc'[t] \notin Working /\ status' = "FINISHED" => Unmatched(log') = {}

\* A step inside Agent.step leaves nothing pending behind a finish action.
LEMMA CleanInside ==
  ASSUME NoFailures, ConvInv, CleanInv, NEW s \in Threads, pc[s] \in InStep, Step(s)
  PROVE  LeavesClean(s)
<1>a. /\ pc \in [Threads -> Outside \cup Inside] /\ todo \in [Threads -> SUBSET ActionIds]
      /\ log \in Seq(Events) /\ lastAction \in Nat /\ lastMessage + 1 \in Nat
      /\ Known(log, lastAction)
      /\ todo[s] # {} => First(todo[s]) \in Nat
  BY BoundsAreNat, CurrentKnown DEF ConvInv, TypeOK
<1>b. {"user", "agent", "request", "condensation", "error", "invalid"} \subseteq Plain
  BY DEF Plain, Kinds, Executable, Results
<1>c. \A k \in Plain, n \in Nat : Unmatched(Append(log, Event(k, n))) = Unmatched(log)
  BY <1>a, AppendPlain
<1>d. /\ pc[s] \in Working => Unmatched(log) = todo[s]
      /\ pc[s] \in {"sample", "unmarked_message", "ended"} => todo[s] = {}
      /\ pc[s] = "ended" /\ status = "FINISHED" => Unmatched(log) = {}
  <2>1. \A t \in Threads : pc[t] \in Working => t = s
    BY DEF ConvInv, ThreadsInv, ThreadInv, Inside, InStep, Working
  <2> QED BY <2>1 DEF CleanInv, ConvInv, ThreadsInv, ThreadInv, Collecting, Working, InStep
<1>e. ASSUME pc[s] \in {"returned", "unmarked_action"}, NEW k \in Results,
             log' = Append(log, Event(k, First(todo[s])))
      PROVE  Unmatched(log') = todo[s] \ {First(todo[s])}
  <2>1. todo[s] # {} /\ Unmatched(log) = todo[s]
    BY <1>d, <1>e DEF ConvInv, ThreadsInv, ThreadInv, Working, InStep
  <2>2. log \in Seq(Events) /\ First(todo[s]) \in Nat
    BY <1>a, <2>1
  <2>3. Unmatched(log') = Unmatched(log) \ {First(todo[s])}
    BY <1>e, <2>2, AppendResult
  <2> QED BY <2>1, <2>3
<1> USE DEF Goto, durable, locals
<1>1. ASSUME FinishBlocked(s) PROVE LeavesClean(s)
  BY <1>1, <1>a, <1>d DEF FinishBlocked, LeavesClean, Working, InStep
<1>2. ASSUME Condense(s) PROVE LeavesClean(s)
  BY <1>2, <1>a, <1>b, <1>c, <1>d DEF Condense, Write, LeavesClean, Working, InStep, Post
<1>3. ASSUME CondenserRaises(s) PROVE LeavesClean(s)
  BY <1>3, <1>a, <1>d DEF CondenserRaises, RaiseOut, AfterRaise, LeavesClean, Working,
     InStep
<1>4. ASSUME Answer(s) PROVE LeavesClean(s)
  <2>1. /\ log' = Append(log, Event("agent", 0)) /\ todo' = todo /\ pc[s] = "sample"
        /\ pc'[s] \in {"finish", "ended"}
    BY <1>a, <1>4 DEF Answer, Asks, Write, Post
  <2>2. Unmatched(log') = {} /\ todo'[s] = {}
    BY <1>b, <1>c, <1>d, <2>1 DEF Working, InStep
  <2> QED BY <2>1, <2>2 DEF LeavesClean
<1>5. ASSUME TooLong(s) PROVE LeavesClean(s)
  BY <1>5, <1>a, <1>b, <1>c, <1>d DEF TooLong, Asks, Write, LeavesClean, Working, InStep,
     Post
<1>6. ASSUME LLMRaises(s) PROVE LeavesClean(s)
  BY <1>6, <1>a, <1>d DEF LLMRaises, Asks, RaiseOut, AfterRaise, LeavesClean, Working,
     InStep
<1>7. ASSUME NEW b \in Batches, Respond(s, b) PROVE LeavesClean(s)
  BY <1>7, <1>a, <1>d DEF Respond, Asks, LeavesClean, Working, InStep
<1>8. ASSUME NEW v \in PromptHooks, Malformed(s, v) PROVE LeavesClean(s)
  BY <1>8, <1>a, <1>b, <1>c, <1>d DEF Malformed, Asks, PostUser, LeavesClean, Working,
     InStep, Post
<1>9. ASSUME EmitInvalid(s) PROVE LeavesClean(s)
  <2> DEFINE n == lastAction + 1
             e == Event("invalid", n)
             f == Event("error", n)
  <2>1. n \in Nat /\ e \in Events /\ f \in Events
    BY <1>a, EventTyped DEF Kinds
  <2>2. log' = log \o <<e, f>> /\ pc' = pc /\ todo' = todo /\ pc[s] = "emit"
    BY <1>9 DEF EmitInvalid
  <2> HIDE DEF n
  <2>3. log' = Append(Append(log, e), f)
    <3> HIDE DEF e, f
    <3> QED BY <1>a, <2>1, <2>2
  <2> DEFINE l == Append(log, e)
  <2>4. l \in Seq(Events) /\ Unmatched(l) = Unmatched(log)
    BY <1>a, <1>b, <2>1, AppendPlain
  <2>5. log' = Append(l, f)
    BY <2>3
  <2> HIDE DEF l
  <2>6. Unmatched(log') = Unmatched(log)
    BY <1>b, <2>1, <2>4, <2>5, AppendPlain
  <2> QED BY <1>d, <2>2, <2>6 DEF LeavesClean, Working, InStep
<1>10. ASSUME NEW v \in ActionHooks, Emit(s, v) PROVE LeavesClean(s)
  <2>1. PICK k \in Executable : log' = Append(log, Event(k, lastAction + 1))
    BY <1>10 DEF Emit, Post
  <2>0. log \in Seq(Events) /\ lastAction \in Nat /\ Known(log, lastAction)
    BY <1>a
  <2>2. Unmatched(log') = Unmatched(log) \cup {lastAction + 1}
    BY <2>0, <2>1, AppendCall
  <2>3. /\ pc' = pc /\ pc[s] = "emit" /\ todo'[s] = todo[s] \cup {lastAction + 1}
    BY <1>a, <1>10 DEF Emit
  <2> QED BY <1>d, <2>2, <2>3 DEF LeavesClean, Working, InStep
<1>11. ASSUME AskConfirm(s) PROVE LeavesClean(s)
  BY <1>a, <1>11 DEF AskConfirm, LeavesClean, Working
<1>12. ASSUME GoAhead(s) PROVE LeavesClean(s)
  BY <1>12, <1>a, <1>d DEF GoAhead, LeavesClean, Working, InStep
<1>13. ASSUME Unmark(s) PROVE LeavesClean(s)
  BY <1>13, <1>a, <1>d DEF Unmark, NextAction, LeavesClean, Working, InStep
<1>14. ASSUME RejectBlocked(s) PROVE LeavesClean(s)
  <2>1. /\ \E k \in Results : log' = Append(log, Event(k, First(todo[s])))
        /\ pc[s] \in {"returned",
           "unmarked_action"} /\ todo'[s] = todo[s] \ {First(todo[s])}
        /\ pc'[s] \in Working /\ pc'[s] # "failed"
    BY <1>a, <1>14 DEF RejectBlocked, Write, Post, NextAction, Results, Working, InStep
  <2> QED BY <1>e, <2>1 DEF LeavesClean
<1>15. ASSUME CallTool(s) PROVE LeavesClean(s)
  BY <1>a, <1>d, <1>15 DEF CallTool, NoFailures, LeavesClean, Working, InStep
<1>16. ASSUME Observe(s) PROVE LeavesClean(s)
  <2>1. /\ \E k \in Results : log' = Append(log, Event(k, First(todo[s])))
        /\ pc[s] \in {"returned",
           "unmarked_action"} /\ todo'[s] = todo[s] \ {First(todo[s])}
        /\ pc'[s] \in Working /\ pc'[s] # "failed"
    BY <1>a, <1>16 DEF Observe, Write, Post, NextAction, Results, Working, InStep
  <2> QED BY <1>e, <2>1 DEF LeavesClean
<1>17. ASSUME ReportError(s) PROVE LeavesClean(s)
  BY <1>17 DEF ReportError, CleanInv
<1>18. ASSUME Finish(s) PROVE LeavesClean(s)
  BY <1>18, <1>a, <1>d DEF Finish, AfterFinish, LeavesClean, Working, InStep
<1>19. ASSUME AllExecuted(s) PROVE LeavesClean(s)
  BY <1>19, <1>a, <1>d DEF AllExecuted, LeavesClean, Working, InStep
<1>20. ASSUME EndStep(s) PROVE LeavesClean(s)
  BY <1>20, <1>a, <1>d DEF EndStep, AwaitsUser, AtLimit, LeavesClean, Working, InStep
<1>21. ASSUME Raised(s) PROVE FALSE
  BY <1>21 DEF Raised, InStep
<1> QED BY <1>1, <1>2, <1>3, <1>4, <1>5, <1>6, <1>7, <1>8, <1>9, <1>10, <1>11, <1>12,
   <1>13, <1>14, <1>15, <1>16, <1>17, <1>18, <1>19, <1>20, <1>21 DEF Step, Ask, Collect,
      Execute

\* With nobody inside Agent.step: a step is entered, or nothing becomes pending and nothing
\* finished.
LEMMA CleanOutside ==
  ASSUME NoCrashes, ConvInv, CleanInv, [Next]_vars, \A t \in Threads : pc[t] \notin InStep
  PROVE  CleanInv'
<1> DEFINE Quiet == /\ \A t \in Threads : pc'[t] \notin InStep
                    /\ status' = "FINISHED" => status = "FINISHED"
                    /\ Unmatched(log') \subseteq Unmatched(log)
<1>a. /\ pc \in [Threads -> Outside \cup Inside] /\ todo \in [Threads -> SUBSET ActionIds]
      /\ log \in Seq(Events) /\ lastMessage + 1 \in Nat
      /\ \A t \in Threads : todo[t] # {} => First(todo[t]) \in Nat
      /\ \A t \in Threads : pc[t] \notin InStep
  BY BoundsAreNat, CurrentKnown DEF ConvInv, TypeOK
<1>b. \A k \in {"user", "request"}, n \in Nat :
         Unmatched(Append(log, Event(k, n))) = Unmatched(log)
  <2>1. {"user", "request"} \subseteq Plain
    BY DEF Plain, Kinds, Executable, Results
  <2> QED BY <1>a, <2>1, AppendPlain
<1>c. ASSUME Quiet PROVE CleanInv'
  BY <1>a, <1>c DEF CleanInv, Working, InStep
<1>d. ASSUME NEW t \in Threads, pc[t] \in {"loop", "request"}, EnterStep(t) PROVE CleanInv'
  <2>1. /\ todo[t] = {} /\ log' = log /\ \A s \in Threads \ {t} : pc'[s] \notin Working
        /\ pc'[t] \in Working /\ \A s \in Threads : pc'[s] # "failed"
    BY <1>a, <1>d DEF EnterStep, Goto, ConvInv, ThreadsInv, ThreadInv, Collecting, Working,
                      InStep
  <2>2. Unmatched(log) = todo'[t]
    BY <1>a, <1>d, <2>1 DEF EnterStep, Pending
  <2> QED BY <2>1, <2>2 DEF CleanInv
<1> USE DEF Goto, durable, locals, InStep
<1>1. ASSUME NEW v \in PromptHooks, SendMessage(v) PROVE Quiet
  BY <1>1, <1>a, <1>b DEF SendMessage, PostUser, StatusOnMessage, Post
<1>2. ASSUME Pause PROVE Quiet
  BY <1>2, <1>a DEF Pause
<1>3. ASSUME NEW t \in Threads, RejectRead(t) PROVE Quiet
  BY <1>3, <1>a DEF RejectRead, Pending
<1>4. ASSUME NEW t \in Threads, RejectEnter(t) PROVE Quiet
  BY <1>4, <1>a DEF RejectEnter, StatusOnReject, Free
<1>5. ASSUME NEW t \in Threads, RejectNext(t) PROVE Quiet
  <2>1. CASE todo[t] = {}
    BY <1>a, <1>5, <2>1 DEF RejectNext
  <2>2. CASE todo[t] # {}
    <3>1. log' = Append(log, Event("rejection", First(todo[t]))) /\ "rejection" \in Results
      BY <1>5, <2>2 DEF RejectNext, Post, Results
    <3>2. Unmatched(log') \subseteq Unmatched(log)
      BY <1>a, <2>2, <3>1, AppendResult
    <3> QED BY <1>a, <1>5, <2>2, <3>2 DEF RejectNext
  <2> QED BY <2>1, <2>2
<1>6. ASSUME NEW t \in Threads, RequestCondensation(t) PROVE Quiet
  BY <1>6, <1>a, <1>b DEF RequestCondensation, Post
<1>7. ASSUME NEW t \in Threads, RunCall(t) PROVE Quiet
  BY <1>7, <1>a DEF RunCall, Free
<1>8. ASSUME NEW t \in Threads, Leave(t) PROVE Quiet
  BY <1>8, <1>a DEF Leave, AtTop, Stops
<1>9. ASSUME NEW t \in Threads, DetectStuck(t) PROVE Quiet
  BY <1>9, <1>a DEF DetectStuck, AtTop, Active, Stops, Free
<1>10. ASSUME NEW t \in Threads, NEW v \in PromptHooks, StopDenied(t, v) PROVE Quiet
  BY <1>10, <1>a, <1>b DEF StopDenied, NoFeedback, AtTop, PostUser, Free, Post
<1>11. ASSUME NEW t \in Threads, Raised(t) PROVE Quiet
  BY <1>11, <1>a DEF Raised
<1>12. ASSUME NEW t \in Threads, CondenseStep(t) \/ StartStep(t) PROVE CleanInv'
  BY <1>d, <1>12 DEF CondenseStep, StartStep, AtTop
<1>13. ASSUME NEW t \in Threads, Step(t), ~ Raised(t) PROVE FALSE
  BY <1>a, <1>13, StepIsInside
<1>14. ASSUME UNCHANGED vars PROVE Quiet
  BY <1>a, <1>14 DEF vars
<1> HIDE DEF Quiet
<1> QED
  BY <1>c, NothingCrashes, <1>1, <1>2, <1>3, <1>4, <1>5, <1>6, <1>7, <1>8, <1>9, <1>10,
     <1>11, <1>12, <1>13, <1>14 DEF Next, Loop, Threads

\* Nor does any other step.
LEMMA CleanStep ==
  ASSUME NoCrashes, NoFailures, ConvInv, ConvInv', CleanInv, [Next]_vars
  PROVE  CleanInv'
<1>1. CASE \A t \in Threads : pc[t] \notin InStep
  BY <1>1, CleanOutside
<1>2. CASE \E t \in Threads : pc[t] \in InStep
  <2>1. PICK s \in Threads : pc[s] \in InStep
    BY <1>2
  <2>2. /\ \A t \in Threads : pc[t] \in Inside => t = s
        /\ \A t, u \in Threads : pc'[t] \in Inside /\ pc'[u] \in Inside => t = u
        /\ pc[s] \in Inside /\ lock = s
    BY <2>1 DEF ConvInv, ThreadsInv, ThreadInv, Inside
  <2>3. CASE Step(s)
    <3>1. LeavesClean(s)
      BY <2>1, <2>3, CleanInside
    <3>2. \A t \in Threads \ {s} : pc'[t] \notin Working /\ pc'[t] # "failed"
      <4>1. \A t \in Threads \ {s} : pc'[t] = pc[t]
        BY <2>3, AgentStep DEF StepFacts
      <4> QED BY <2>2, <4>1 DEF Working, Inside, InStep
    <3> QED BY <3>1, <3>2 DEF CleanInv, LeavesClean
  <2>4. CASE ~ Step(s)
    <3>1. /\ pc'[s] = pc[s] /\ todo'[s] = todo[s] /\ Unmatched(log') = Unmatched(log)
          /\ status' \in {status, "ERROR"}
      <4>1. ~ RejectNext(s)
        BY <2>1 DEF RejectNext, InStep
      <4> QED BY <2>2, <2>4, <4>1, HolderAlone, NothingCrashes
    <3>2. \A t \in Threads \ {s} :
             pc'[t] \notin Working /\ pc[t] \notin Working /\ pc'[t] # "failed"
      BY <2>2, <3>1 DEF Working, Inside, InStep
    <3> QED BY <3>1, <3>2 DEF CleanInv
  <2> QED BY <2>3, <2>4
<1> QED BY <1>1, <1>2

\* FinishedIsClean for any batches of calls, any number of concurrent run(), condense()
\* and reject_pending_actions() calls and any verdicts of the hooks and the policy: also
\* the actions behind a finish action are executed before FINISHED is seen.
THEOREM FinishedLeavesNothing ==
  ASSUME NoCrashes, NoFailures PROVE Spec => []FinishedIsClean
<1>1. Init => CleanInv
  BY DEF Init, CleanInv, Working, InStep
<1>2. ConvInv /\ ConvInv' /\ CleanInv /\ [Next]_vars => CleanInv'
  BY CleanStep
<1>3. ConvInv /\ CleanInv => FinishedIsClean
  <2> SUFFICES ASSUME ConvInv, CleanInv, status = "FINISHED", lock = NoThread
               PROVE  Pending = {}
    BY DEF FinishedIsClean
  <2>1. \A t \in Threads : pc[t] \notin Inside
    BY BoundsAreNat DEF ConvInv, ThreadsInv, ThreadInv
  <2> QED BY <2>1 DEF CleanInv, Working, Inside, Pending
<1> QED BY <1>1, <1>2, <1>3, ConvInvInit, ConvInvStep, PTL DEF Spec
-----------------------------------------------------------------------------
(***************************************************************************)
(* Confirmation and pause.  Nothing in the code ties WAITING or PAUSED to  *)
(* the run that is under way: what the user was promised holds as long as  *)
(* one thread at a time drives the conversation, and no longer             *)
(* (ConvTwoRuns).                                                          *)
(***************************************************************************)
NoCondensers == Condensers = {}
NoRejecters == Rejecters = {}
OneRunner == \A r, s \in Runners : r = s

AskedInv ==
  status = "WAITING" => /\ Unmatched(log) # {}
                        /\ \A t \in Threads : pc[t] \in Inside => pc[t] = "ended"

\* Every step keeps that a user is asked about something.
LEMMA AskedStep ==
  ASSUME NoCondensers, ConvInv, AskedInv, [Next]_vars
  PROVE  AskedInv'
<1> DEFINE Goal == /\ Unmatched(log') # {}
                   /\ \A t \in Threads : pc'[t] \in Inside => pc'[t] = "ended"
<1> SUFFICES ASSUME status' = "WAITING" PROVE Goal
  BY DEF AskedInv
<1>a. /\ pc \in [Threads -> Outside \cup Inside] /\ log \in Seq(Events)
      /\ lastMessage + 1 \in Nat
  BY BoundsAreNat DEF ConvInv, TypeOK
<1>b. \A k \in {"user", "request"}, n \in Nat :
         Unmatched(Append(log, Event(k, n))) = Unmatched(log)
  <2>1. {"user", "request"} \subseteq Plain
    BY DEF Plain, Kinds, Executable, Results
  <2> QED BY <1>a, <2>1, AppendPlain
<1>c. status = "WAITING" => /\ Unmatched(log) # {}
                            /\ \A t \in Threads : pc[t] \in Inside => pc[t] = "ended"
  BY DEF AskedInv
<1>1. ASSUME NEW t \in Threads, AskConfirm(t) PROVE Goal
  <2>1. /\ todo[t] # {} /\ log' = log /\ pc'[t] = "ended" /\ pc[t] = "emit"
        /\ \A s \in Threads \ {t} : pc'[s] = pc[s]
    BY <1>1, <1>a DEF AskConfirm, Goto
  <2>2. /\ todo[t] \subseteq Unmatched(log)
        /\ \A s \in Threads \ {t} : pc[s] \notin Inside
    BY <2>1 DEF ConvInv, ThreadsInv, ThreadInv, Inside, InStep
  <2> QED BY <2>1, <2>2
<1>2. ASSUME NEW t \in Threads, Step(t), ~ AskConfirm(t) PROVE Goal
  <2>1. status = "WAITING" /\ \A s \in Threads \ {t} : pc'[s] = pc[s]
    BY <1>2, AgentStep DEF StepFacts
  <2>2. ~ Raised(t)
    BY DEF Raised
  <2>3. pc[t] = "ended"
    BY <1>2, <1>c, <2>1, <2>2, StepIsInside DEF Inside
  <2>4. log' = log /\ pc'[t] = "out"
    BY <1>2, <2>1, <2>3, AgentStep DEF StepFacts
  <2> QED BY <1>c, <2>1, <2>4 DEF Inside, InStep
<1>3. ASSUME CrashRestart PROVE Goal
  BY <1>3, <1>c DEF CrashRestart, Inside, InStep
<1> USE DEF Goto, durable, locals, Inside, InStep
<1>4. ASSUME NEW v \in PromptHooks, SendMessage(v) PROVE Goal
  BY <1>4, <1>a, <1>b, <1>c DEF SendMessage, PostUser, StatusOnMessage, Post
<1>5. ASSUME Pause PROVE Goal
  BY <1>5, <1>a, <1>c DEF Pause
<1>6. ASSUME NEW t \in Threads, RejectRead(t) PROVE Goal
  BY <1>6, <1>a, <1>c DEF RejectRead, Pending
<1>7. ASSUME NEW t \in Threads, RejectEnter(t) PROVE Goal
  BY <1>7, <1>a, <1>c DEF RejectEnter, StatusOnReject, Free
<1>8. ASSUME NEW t \in Threads, RejectNext(t) PROVE Goal
  BY <1>8, <1>a, <1>c DEF RejectNext
<1>9. ASSUME NEW t \in Threads, RequestCondensation(t) PROVE Goal
  BY <1>9, <1>a, <1>b, <1>c DEF RequestCondensation, Post
<1>10. ASSUME NEW t \in Threads, RunCall(t) PROVE Goal
  BY <1>10, <1>a, <1>c DEF RunCall, Free
<1>11. ASSUME NEW t \in Threads, Leave(t) PROVE Goal
  BY <1>11, <1>a, <1>c DEF Leave, AtTop, Stops
<1>12. ASSUME NEW t \in Threads, DetectStuck(t) PROVE Goal
  BY <1>12, <1>a, <1>c DEF DetectStuck, AtTop, Active, Stops, Free
<1>13. ASSUME NEW t \in Threads, StartStep(t) PROVE Goal
  BY <1>13, <1>a, <1>c DEF StartStep, AtTop, Active, Stops, Free, EnterStep, Pending
<1>14. ASSUME NEW t \in Threads, NEW v \in PromptHooks, StopDenied(t, v) PROVE Goal
  BY <1>14, <1>a, <1>b, <1>c DEF StopDenied, NoFeedback, AtTop, PostUser, Free, Post
<1>15. ASSUME UNCHANGED vars PROVE Goal
  BY <1>15, <1>c DEF vars
<1> HIDE DEF Goal
<1>16. Goal
  BY <1>1, <1>2, <1>3, <1>4, <1>5, <1>6, <1>7, <1>8, <1>9, <1>10, <1>11, <1>12, <1>13,
     <1>14, <1>15 DEF Next, Loop, Threads, NoCondensers
<1> QED BY <1>16 DEF Goal

\* AskedAboutPending for any number of concurrent run() and reject_pending_actions()
\* calls, with crashes at any point: a user who is asked has something to accept.
THEOREM AskingIsMeant == ASSUME NoCondensers PROVE Spec => []AskedAboutPending
<1>1. Init => AskedInv
  BY DEF Init, AskedInv
<1>2. ConvInv /\ AskedInv /\ [Next]_vars => AskedInv'
  BY AskedStep
<1>3. AskedInv => AskedAboutPending
  BY DEF AskedInv, AskedAboutPending, Pending
<1> QED BY <1>1, <1>2, <1>3, ConvInvInit, ConvInvStep, PTL DEF Spec

\* While something the user was asked about is pending, the only runner has left, or is
\* about to leave, its loop, and the status says that the user is waited for.
UnconfirmedInv ==
  /\ \A a \in unconfirmed : a <= lastAction
  /\ \A a \in unconfirmed \cap Unmatched(log) :
       status = "WAITING" /\ \A t \in Runners : pc[t] \in {"out", "ended"}

\* Every step keeps that what was asked about waits until it was accepted.
LEMMA UnconfirmedStep ==
  ASSUME NoCondensers, NoRejecters, OneRunner, ConvInv, UnconfirmedInv, [Next]_vars
  PROVE  UnconfirmedInv'
<1>a. /\ pc \in [Threads -> Outside \cup Inside] /\ unconfirmed \subseteq ActionIds
      /\ ActionIds \subseteq Nat /\ lastAction \in Nat /\ lastAction' \in Nat
      /\ lastAction <= lastAction' /\ Threads = Runners
      /\ todo \in [Threads -> SUBSET ActionIds]
      /\ \A t \in Threads : todo[t] \subseteq 1 .. lastAction
  BY BoundsAreNat, PendingGrows
     DEF ConvInv, TypeOK, ActionIds, Threads, NoCondensers, NoRejecters, ThreadsInv,
        ThreadInv
<1>b. \A a \in unconfirmed \cap Unmatched(log') :
         status = "WAITING" /\ \A t \in Runners : pc[t] \in {"out", "ended"}
  BY <1>a, PendingGrows DEF UnconfirmedInv
<1> DEFINE Goal(a) == status' = "WAITING" /\ \A t \in Runners : pc'[t] \in {"out", "ended"}
\* A step that leaves the record alone or shortens it, and the consent to what is pending.
<1>c. ASSUME unconfirmed' \subseteq unconfirmed,
             \A a \in unconfirmed' \cap Unmatched(log') : Goal(a)
      PROVE  UnconfirmedInv'
  <2>1. \A a \in unconfirmed : a <= lastAction /\ a \in Nat
    BY <1>a DEF UnconfirmedInv
  <2> QED BY <1>a, <1>c, <2>1 DEF UnconfirmedInv
<1>1. ASSUME NEW t \in Threads, AskConfirm(t) PROVE UnconfirmedInv'
  <2>1. /\ status' = "WAITING" /\ pc'[t] = "ended" /\ lastAction' = lastAction
        /\ unconfirmed' = unconfirmed \cup todo[t]
    BY <1>1, <1>a DEF AskConfirm, Goto, ids
  <2>2. \A s \in Runners : s = t
    BY <1>a DEF OneRunner
  <2>3. \A a \in unconfirmed' : a <= lastAction'
    BY <1>a, <2>1 DEF UnconfirmedInv
  <2> QED BY <2>1, <2>2, <2>3 DEF UnconfirmedInv
<1>2. ASSUME NEW t \in Threads, Step(t), ~ AskConfirm(t) PROVE UnconfirmedInv'
  <2>1. unconfirmed' = unconfirmed /\ \A s \in Threads \ {t} : pc'[s] = pc[s]
    BY <1>2, AgentStep DEF StepFacts
  <2>2. ASSUME NEW a \in unconfirmed \cap Unmatched(log') PROVE Goal(a)
    <3>1. status = "WAITING" /\ pc[t] \in {"out", "ended"}
      BY <1>a, <1>b, <2>2
    <3>2. ~ Raised(t)
      BY <3>1 DEF Raised
    <3>3. pc[t] = "ended"
      BY <1>2, <3>1, <3>2, StepIsInside DEF InStep
    <3>4. status' = "WAITING" /\ pc'[t] = "out"
      BY <1>2, <3>1, <3>3, AgentStep DEF StepFacts
    <3> QED BY <1>a, <1>b, <2>1, <2>2, <3>4
  <2> QED BY <1>c, <2>1, <2>2
<1>3. ASSUME NEW t \in Threads, RunCall(t) PROVE UnconfirmedInv'
  <2>1. /\ log' = log
        /\ unconfirmed' = IF status = "WAITING" THEN unconfirmed \ Unmatched(log) ELSE
           unconfirmed
    BY <1>3 DEF RunCall, Pending
  <2> QED BY <1>b, <1>c, <2>1
<1>4. ASSUME NEW t \in Threads, Loop(t) PROVE UnconfirmedInv'
  <2>1. pc[t] = "loop" /\ unconfirmed' = unconfirmed
    BY <1>4 DEF Loop, Leave, DetectStuck, StartStep, StopDenied, NoFeedback, AtTop, EnterStep, history
  <2> QED BY <1>a, <1>b, <1>c, <2>1
<1>5. ASSUME CrashRestart PROVE UnconfirmedInv'
  BY <1>5, <1>a, <1>b, <1>c DEF CrashRestart, history
<1>6. ASSUME Pause \/ \E v \in PromptHooks : SendMessage(v) PROVE UnconfirmedInv'
  <2>1. unconfirmed' = unconfirmed /\ pc' = pc
    BY <1>6 DEF Pause, SendMessage, locals
  <2>2. status = "WAITING" => status' = "WAITING"
    BY <1>6 DEF Pause, SendMessage, StatusOnMessage
  <2> QED BY <1>b, <1>c, <2>1, <2>2
<1>7. ASSUME UNCHANGED vars PROVE UnconfirmedInv'
  BY <1>7, <1>b, <1>c DEF vars, durable, locals, history
<1> QED
  BY <1>1, <1>2, <1>3, <1>4, <1>5, <1>6, <1>7 DEF Next, Threads, NoCondensers, NoRejecters

\* ConfirmedOnly for any batches of calls and with crashes at any point, where one run()
\* at a time drives the conversation and only it consents: what the user has not accepted
\* is not executed.
THEOREM OnlyConfirmedRuns ==
  ASSUME NoCondensers, NoRejecters, OneRunner PROVE Spec => ConfirmedOnly
<1> DEFINE A == \A a \in ActionIds : executed'[a] # executed[a] => a \notin unconfirmed
<1>1. Init => UnconfirmedInv
  BY DEF Init, UnconfirmedInv
<1>2. ConvInv /\ UnconfirmedInv /\ [Next]_vars => UnconfirmedInv'
  BY UnconfirmedStep
<1>3. ASSUME ConvInv, UnconfirmedInv, [Next]_vars PROVE [A]_vars
  <2> SUFFICES ASSUME NEW a \in ActionIds, executed'[a] # executed[a]
               PROVE  a \notin unconfirmed
    OBVIOUS
  <2>1. PICK t \in Threads :
               CallTool(t) /\ executed' = [executed EXCEPT ![First(todo[t])] = @ + 1]
    BY <1>3, OnlyCallTool
  <2>2. a = First(todo[t])
    BY <1>3, <2>1 DEF ConvInv, TypeOK
  <2>3. pc[t] = "exec" /\ a \in Unmatched(log) /\ t \in Runners
    BY <1>3, <2>1, <2>2, CallToolKnows DEF Threads, NoCondensers, NoRejecters
  <2> QED BY <1>3, <2>3 DEF UnconfirmedInv
<1> QED BY <1>1, <1>2, <1>3, ConvInvInit, ConvInvStep, PTL DEF Spec, ConfirmedOnly

\* Where a run is while a pause holds.
HeldInv ==
  /\ \A t \in Runners : pc[t] \notin {"request", "reject", "rejecting"}
  /\ held => \A t \in Runners : \/ pc[t] = "out"
                                \/ pc[t] \in {"loop", "raised"} /\ status = "PAUSED"

\* Every step keeps that a pause is held.
LEMMA HeldStep ==
  ASSUME NoCondensers, OneRunner, ConvInv, HeldInv, [Next]_vars
  PROVE  HeldInv'
<1>a. /\ pc \in [Threads -> Outside \cup Inside]
      /\ \A r, s \in Runners : r = s
      /\ \A t \in Rejecters : t \notin Runners
      /\ Runners \subseteq Threads /\ Rejecters \subseteq Threads
      /\ \A t \in Threads : pc[t] \in Inside => lock = t /\ lock # NoThread
  BY ConversationAssumption, BoundsAreNat
     DEF ConvInv, TypeOK, OneRunner, Threads, ThreadsInv, ThreadInv
<1>b. /\ \A t \in Runners : pc[t] \notin {"request", "reject", "rejecting"}
      /\ held => \A t \in Runners : \/ pc[t] = "out"
                                    \/ pc[t] \in {"loop", "raised"} /\ status = "PAUSED"
  BY DEF HeldInv
<1>1. ASSUME NEW t \in Runners, Step(t), ~ Raised(t) PROVE HeldInv'
  <2>1. pc[t] \in InStep /\ held' = held
    BY <1>1, <1>a, StepIsInside, AgentStep DEF StepFacts
  <2>2. ~ held'
    BY <1>b, <2>1 DEF InStep
  <2>3. pc'[t] \notin {"request", "reject", "rejecting"}
    BY <1>1, <1>a, AgentStep DEF StepFacts, InStep
  <2> QED BY <1>a, <2>2, <2>3 DEF HeldInv
<1>2. ASSUME NEW t \in Runners, Raised(t) PROVE HeldInv'
  BY <1>2, <1>a, <1>b DEF Raised, Goto, HeldInv
<1>3. ASSUME Pause PROVE HeldInv'
  BY <1>3, <1>a, <1>b DEF Pause, Free, locals, HeldInv, Outside
<1>4. ASSUME NEW v \in PromptHooks, SendMessage(v) PROVE HeldInv'
  BY <1>4, <1>b DEF SendMessage, StatusOnMessage, locals, HeldInv
<1>5. ASSUME CrashRestart PROVE HeldInv'
  BY <1>5, <1>a DEF CrashRestart, HeldInv
<1>6. ASSUME NEW t \in Rejecters,
   RejectRead(t) \/ RejectEnter(t) \/ RejectNext(t) PROVE HeldInv'
  <2>1. /\ held' = held
        /\ status = "PAUSED" => status' = "PAUSED"
        /\ \A s \in Runners : pc'[s] = pc[s]
    BY <1>6, <1>a DEF RejectRead, RejectEnter, RejectNext, StatusOnReject, Goto, durable,
       history
  <2> QED BY <1>b, <2>1 DEF HeldInv
<1>7. ASSUME NEW t \in Runners, RunCall(t) PROVE HeldInv'
  BY <1>7, <1>a, <1>b DEF RunCall, Goto, HeldInv
<1>8. ASSUME NEW t \in Runners, Loop(t) PROVE HeldInv'
  <2>1. CASE Leave(t)
    BY <2>1, <1>a, <1>b DEF Leave, Goto, durable, history, HeldInv
  <2>2. CASE ~ Leave(t)
    <3>1. /\ status # "PAUSED" /\ pc[t] = "loop" /\ held' = held
          /\ pc'[t] \in {"loop", "exec", "unmarked_message", "sample"}
      BY <1>8, <1>a, <2>2 DEF Loop, DetectStuck, StartStep, StopDenied, NoFeedback, AtTop, Active,
         Stops,
         EnterStep, Goto, locals, history
    <3> QED BY <1>a, <1>b, <3>1 DEF HeldInv
  <2> QED BY <2>1, <2>2
<1>9. ASSUME UNCHANGED vars PROVE HeldInv'
  BY <1>9, <1>b DEF vars, durable, locals, history, HeldInv
<1> QED
  BY <1>1, <1>2, <1>3, <1>4, <1>5, <1>6, <1>7, <1>8, <1>9 DEF Next, NoCondensers

\* PauseHolds for one run() at a time beside any number of reject_pending_actions() calls,
\* with crashes and exceptions at any point: once a pause took effect no step runs before
\* the next run().
THEOREM PausedIsHeld == ASSUME NoCondensers, OneRunner PROVE Spec => []PauseHolds
<1>1. Init => HeldInv
  BY DEF Init, HeldInv, Threads
<1>2. ConvInv /\ HeldInv /\ [Next]_vars => HeldInv'
  BY HeldStep
<1>3. HeldInv => PauseHolds
  BY DEF HeldInv, PauseHolds, InStep
<1> QED BY <1>1, <1>2, <1>3, ConvInvInit, ConvInvStep, PTL DEF Spec
=============================================================================
