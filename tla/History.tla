-------------------------------- MODULE History --------------------------------
(***************************************************************************)
(* The log of a conversation as the agent's steps write it, with tool      *)
(* calls in parallel, confirmation, rejection and LLMSummarizingCondenser, *)
(* and the view of it that the LLM is sent.                                *)
(***************************************************************************)
EXTENDS View, SequencesExt

CONSTANTS MaxSize, KeepFirst,  \* of the condenser
          MaxTokens,           \* 0: no limit
          Sizes,               \* of observations, beyond one token
          Thinking,            \* {FALSE}, or BOOLEAN: the LLM may send thinking blocks
          MaxBatch,            \* tool calls in one response (bound)
          MaxLog               \* events (bound)

\* validate_keep_first_vs_max_size
ASSUME CondenserAssumption == /\ MaxSize \in Nat /\ KeepFirst \in Nat
                              /\ MaxSize \div 2 - KeepFirst - 1 > 0
ASSUME BoundAssumption == /\ MaxTokens \in Nat /\ MaxBatch \in Nat /\ MaxLog \in Nat
                          /\ Sizes \subseteq Nat /\ Thinking \subseteq BOOLEAN

VARIABLES log,   \* EventLog
          going  \* run() calls for steps
vars == <<log, going>>

-----------------------------------------------------------------------------
(* The condenser.                                                          *)

Tokens(seq) ==
  LET sum[n \in 0 .. Len(seq)] == IF n = 0 THEN 0 ELSE sum[n - 1] + 1 + seq[n].content
  IN  sum[Len(seq)]

\* get_shortest_prefix_above_token_count: a binary search between p[1] and p[2].
Search(seq, limit) ==
  LET half(p) == LET mid == (p[1] + p[2]) \div 2
                 IN  IF Tokens(SubSeq(seq, 1, mid)) > limit THEN <<p[1], mid>> ELSE <<mid + 1, p[2]>>
      find[p \in (1 .. Len(seq)) \X (1 .. Len(seq))] == IF p[1] >= p[2] THEN p[1] ELSE find[half(p)]
  IN  IF Tokens(seq) <= limit THEN Len(seq) ELSE find[<<1, Len(seq)>>]

SuffixForReduction(seq, reduction) ==
  IF reduction <= 0 THEN Len(seq) ELSE Len(seq) - Search(seq, reduction)

Reasons(l, view) ==
  {r \in {"request", "tokens", "events"} :
     CASE r = "request" -> UnhandledRequest(l)
       [] r = "tokens" -> MaxTokens > 0 /\ Tokens(view) > MaxTokens
       [] r = "events" -> Len(view) > MaxSize}
Hard(reasons) == "request" \in reasons

\* The events from the tail to keep, by the strictest of the reasons; it can be negative.
TailToKeep(reasons, view) ==
  MinOf({CASE r = "request" -> Len(view) \div 2 - KeepFirst - 1
           [] r = "events" -> MaxSize \div 2 - KeepFirst - 1
           [] r = "tokens" -> SuffixForReduction(SubSeq(view, KeepFirst + 1, Len(view)),
                                                 Tokens(view) - MaxTokens \div 2)
         : r \in reasons})

\* _get_forgotten_events: the slice of the view, as far as it reaches.
ForgetFrom(view) == NextCut(view, KeepFirst)
ForgetTo(reasons, view) == NextCut(view, Len(view) - TailToKeep(reasons, view))
Forgotten(reasons, view) ==
  {view[i].id : i \in {k \in DOMAIN view : /\ ForgetFrom(view) < k
                                           /\ k <= ForgetTo(reasons, view)}}

-----------------------------------------------------------------------------
(* What a step appends.                                                    *)

\* Unmatched actions, in order.
Pending(l) == Only(l, {a \in Actions(Elements(l)) : ResultsOf(a, Elements(l)) = {}})

Numbered(l, events) == [i \in DOMAIN events |-> [events[i] EXCEPT !.id = Len(l) + i]]
Extend(l, events) == l \o Numbered(l, events)
Event(kind) == [Blank EXCEPT !.kind = kind]

Results(acts, kind, size) ==
  [i \in DOMAIN acts |-> [Event(kind) EXCEPT !.call = acts[i].call, !.content = size]]

\* One action for each call of a response, a malformed one with its error at once.  Only
\* the first carries the thinking blocks.
Response(l, n, bad, thinking) ==
  FlattenSeq(
    [i \in 1 .. n |->
       LET a == [Event("action") EXCEPT !.call = Len(l) + i, !.batch = Len(l) + 1,
                                        !.thinking = thinking /\ i = 1]
       IN  IF i \in bad THEN <<a>> \o Results(<<a>>, "error", 0) ELSE <<a>>])

Write(l, events) == /\ Len(l) + Len(events) <= MaxLog
                    /\ log' = Extend(l, events)

\* What is pending is executed first; an exception leaves the rest, and ends the run.
Execute(l) ==
  LET acts == Pending(l)
  IN  /\ acts # <<>>
      /\ \E k \in 0 .. Len(acts), size \in Sizes :
           /\ Write(l, Results(SubSeq(acts, 1, k), "observation", size))
           /\ going' = (going /\ k = Len(acts))

\* RollingCondenser.condense; the summary may come back empty.
Condense(l) ==
  LET view == FromEvents(l)
      reasons == Reasons(l, view)
  IN  /\ Pending(l) = <<>>
      /\ reasons # {}
      /\ Forgotten(reasons, view) # {}
      /\ \E offset \in {ForgetFrom(view), -1} :
           Write(l, <<[Event("condensation") EXCEPT !.forgets = Forgotten(reasons, view),
                                                    !.offset = offset]>>)
      /\ UNCHANGED going

\* NoCondensationAvailableException goes through for a request.
Refuse(l) ==
  LET view == FromEvents(l)
      reasons == Reasons(l, view)
  IN  /\ Pending(l) = <<>>
      /\ Hard(reasons)
      /\ Forgotten(reasons, view) = {}
      /\ Write(l, <<>>)
      /\ going' = FALSE

\* The view goes to the LLM, condensed or not in need of it (or not to be condensed).
Sampling ==
  LET view == FromEvents(log)
      reasons == Reasons(log, view)
  IN  /\ going
      /\ Pending(log) = <<>>
      /\ ~ Hard(reasons)
      /\ reasons # {} => Forgotten(reasons, view) = {}

-----------------------------------------------------------------------------
Init == log = Numbered(<<>>, <<Event("system")>>) /\ going = FALSE

Step(l) == Execute(l) \/ Condense(l) \/ Refuse(l)
StepNoLLM == going /\ Step(log)

CallTools ==
  /\ Sampling
  /\ \E n \in 1 .. MaxBatch, thinking \in Thinking : \E bad \in SUBSET (1 .. n) :
       Write(log, Response(log, n, bad, thinking))
  /\ UNCHANGED going
\* An answer ends the run, reasoning alone does not.
Answer ==
  /\ Sampling
  /\ \E hasContent \in BOOLEAN : going' = ~ hasContent
  /\ Write(log, <<Event("agent")>>)
ContextExceeded ==
  /\ Sampling
  /\ Write(log, <<Event("condensation_request")>>)
  /\ UNCHANGED going

\* The user, at any time between two steps; run() follows.
SendMessage == Write(log, <<Event("user")>>) /\ going' = TRUE
RejectPending ==
  /\ Pending(log) # <<>>
  /\ Write(log, Results(Pending(log), "rejection", 0))
  /\ UNCHANGED going
\* condense(): a request and one step.
CallCondense == Step(Extend(log, <<Event("condensation_request")>>))

Next == \/ SendMessage \/ RejectPending \/ CallCondense
        \/ StepNoLLM \/ CallTools \/ Answer \/ ContextExceeded

Spec == Init /\ [][Next]_vars

-----------------------------------------------------------------------------
(* Properties.                                                             *)

Condensing == Len(log') > Len(log) /\ log'[Len(log')].kind = "condensation"

\* Ids are places in the log, calls belong to one action, results come after it, and a
\* condensation forgets events and summaries from before it.
TypeOK ==
  /\ going \in BOOLEAN
  /\ \A i \in DOMAIN log :
       /\ log[i].id = i
       /\ IsResult(log[i]) => \E j \in 1 .. i - 1 : IsAction(log[j]) /\ log[j].call = log[i].call
       /\ log[i].kind = "condensation" =>
            log[i].forgets \subseteq -(i - 1) .. i - 1

\* The two facts of the log that the filter relies on: a condensation brings no action into
\* a view, and no two actions have one call id.
OutputIsLogged == Actions(Elements(Output(log))) \subseteq Elements(log)
CallsAreDistinct == \A a, b \in Actions(Elements(log)) : a.call = b.call => a = b

\* What the LLM is shown has the action of each result, a result for each action, and of a
\* batch of parallel calls everything or nothing, whatever was pending, rejected, malformed
\* or forgotten.
Matched ==
  LET shown == Shown(log)
  IN  /\ \A a \in Actions(shown) : /\ ResultsOf(a, shown) # {}
                                   /\ BatchOf(a, Elements(log)) \subseteq shown
      /\ \A e \in shown : IsResult(e) => \E a \in Actions(shown) : a.call = e.call

\* No result is shown twice, and none before its action.
OneResultAfter ==
  LET view == FromEvents(log)
  IN  \A i, j \in DOMAIN view :
        /\ IsResult(view[i]) /\ IsResult(view[j]) /\ view[i].call = view[j].call => i = j
        /\ IsAction(view[i]) /\ IsResult(view[j]) /\ view[i].call = view[j].call => i < j

\* Forgetting the events between any two manipulation indices takes away these events and
\* no others, and the summary comes to stand where they were.
Without(view, i, j) == SubSeq(view, 1, i) \o SubSeq(view, j + 1, Len(view))
CutsAreSafe ==
  LET view == FromEvents(log)
  IN  Pending(log) = <<>> =>
        \A i, j \in Cuts(view) :
          i < j =>
            LET c == [Event("condensation") EXCEPT !.id = Len(log) + 1, !.offset = i,
                        !.forgets = {view[k].id : k \in i + 1 .. j}]
            IN  FromEvents(Append(log, c)) = InsertAfter(Without(view, i, j), i, SummaryOf(c))

\* The binary search for the events to drop finds the shortest prefix above the limit.
SearchIsShortest ==
  LET view == FromEvents(log)
  IN  \A limit \in 0 .. Tokens(view) - 1 :
        LET n == Search(view, limit)
        IN  /\ Tokens(SubSeq(view, 1, n)) > limit
            /\ \A m \in 0 .. n - 1 : Tokens(SubSeq(view, 1, m)) <= limit

\* Messages to the LLM: the results of an assistant message's calls follow it directly.
ResultsFollow(msgs) ==
  \A i \in DOMAIN msgs :
    msgs[i].role = "assistant" =>
      /\ i + Cardinality(msgs[i].calls) <= Len(msgs)
      /\ UNION {msgs[k].calls : k \in i + 1 .. i + Cardinality(msgs[i].calls)} = msgs[i].calls
\* ... if in the log nothing else came between them, as a user's message does while actions
\* wait for confirmation, or the error of a malformed call between well-formed ones.
Undisturbed(l) ==
  \A b \in Batches(l) :
    LET unit == FirstAt(l, b) .. LastAt(l, b)
        calls == {l[i].call : i \in Positions(l, b)}
    IN  /\ \A j \in unit : l[j].kind \in Convertible => l[j].call \in calls
        /\ \A i, j \in unit : IsResult(l[i]) /\ IsAction(l[j]) => j < i
ResultsFollowCalls == Undisturbed(log) => ResultsFollow(Messages(FromEvents(log)))

\* The events at the front are never condensed.
FirstKept ==
  [][Condensing => \A i \in DOMAIN FromEvents(log) :
                     i <= KeepFirst => /\ i <= Len(FromEvents(log'))
                                       /\ FromEvents(log')[i] = FromEvents(log)[i]]_vars

\* An action with thinking blocks and the calls that follow it without a message between
\* are forgotten together or not at all.
LoopsWhole ==
  [][Condensing =>
       LET view == FromEvents(log)
           shown == Shown(log')
       IN  \A i, j \in DOMAIN view :
             /\ i < j /\ IsAction(view[i]) /\ view[i].thinking /\ IsAction(view[j])
             /\ \A k \in i .. j : IsAction(view[k]) \/ IsResult(view[k])
             => (view[i] \in shown <=> view[j] \in shown)]_vars

\* A condensation for the size of the view brings it below the limit, so that the next step
\* does not condense again while the agent gets nowhere; as long as no tool loop, which is
\* one unit, fills the view.
CondensedEnough ==
  [][Condensing /\ (\A e \in Elements(log) : ~ e.thinking) => Len(FromEvents(log')) <= MaxSize]_vars

-----------------------------------------------------------------------------
(* What does not hold.                                                     *)

\* view.py:400: "Tool loops ... must remain atomic"; events_to_messages: "reconstruct
\* original LLM response".
AlwaysFollow == ResultsFollow(Messages(FromEvents(log)))

\* llm_summarizing_condenser.py:204: a condensation is to reduce the view ("to ensure all
\* resource constraints are met"); when one event is forgotten its summary takes the place,
\* and the next step condenses again, without end.
CondensationShrinks ==
  [][Condensing /\ Len(log') = Len(log) + 1 /\ ~ UnhandledRequest(log)
       /\ log'[Len(log')].offset # -1
       => Len(FromEvents(log')) < Len(FromEvents(log))]_vars

\* condense() of a conversation too short for it leaves its request behind: the run after
\* the next message of the user fails before the LLM is called.
NeverRefused == [][going /\ ~ going' /\ Pending(log) = <<>> => log' # log]_vars
================================================================================
