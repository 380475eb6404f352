--------------------------------- MODULE View ---------------------------------
(***************************************************************************)
(* What the LLM is shown of an event log (context/view.py, event/          *)
(* condenser.py, event/base.py): condensations applied, incomplete batches *)
(* and unmatched tool calls left out; where a view may be cut; and its     *)
(* conversion to messages.  Definitions only.                              *)
(***************************************************************************)
EXTENDS Integers, FiniteSets, Sequences

\* An action is a tool call, `call` is its id in the action and in its result; the actions
\* of one LLM response have one `batch`.  A condensation forgets the events of the ids in
\* `forgets` and puts a summary at `offset`, -1 if it has none.
Blank == [id |-> 0, kind |-> "other", call |-> 0, batch |-> 0, thinking |-> FALSE,
          content |-> 0, forgets |-> {}, offset |-> -1]

ResultKinds == {"observation", "error", "rejection"}
Convertible == {"system", "user", "agent", "action", "summary"} \cup ResultKinds

IsAction(e) == e.kind = "action"
IsResult(e) == e.kind \in ResultKinds
Actions(S) == {e \in S : IsAction(e)}
ResultsOf(a, S) == {e \in S : IsResult(e) /\ e.call = a.call}
BatchOf(a, S) == {b \in Actions(S) : b.batch = a.batch}

Elements(s) == {s[i] : i \in DOMAIN s}

\* The events of a list that are in S: [event for event in events if ...].  (SelectSeq, which
\* the provers do not know.)
Only(seq, S) ==
  LET only[n \in 0 .. Len(seq)] ==
        IF n = 0 THEN <<>>
        ELSE IF seq[n] \in S THEN Append(only[n - 1], seq[n]) ELSE only[n - 1]
  IN  only[Len(seq)]

-----------------------------------------------------------------------------
(* View.from_events.                                                       *)

\* Condensation.apply.  list.insert puts at the end what is to come after it.
SummaryOf(c) == [Blank EXCEPT !.id = -c.id, !.kind = "summary"]
Forget(seq, ids) == Only(seq, {e \in Elements(seq) : e.id \notin ids})
InsertAfter(seq, k, e) == IF k >= Len(seq) THEN Append(seq, e)
                       ELSE SubSeq(seq, 1, k) \o <<e>> \o SubSeq(seq, k + 1, Len(seq))
Apply(c, seq) ==
  LET kept == Forget(seq, c.forgets)
  IN  IF c.offset = -1 THEN kept ELSE InsertAfter(kept, c.offset, SummaryOf(c))

\* The events in order, each condensation applied to what precedes it.
Output(log) ==
  LET out[n \in 0 .. Len(log)] ==
        IF n = 0 THEN <<>>
        ELSE CASE log[n].kind = "condensation" -> Apply(log[n], out[n - 1])
               [] log[n].kind \in Convertible -> Append(out[n - 1], log[n])
               [] OTHER -> out[n - 1]
  IN  out[Len(log)]

\* _enforce_batch_atomicity: a batch with an action missing goes as a whole.
Whole(shown, all) ==
  {e \in shown : IsAction(e) => BatchOf(e, all) \subseteq shown}

\* _should_keep_event: actions with a result, results with an action.
Paired(shown) ==
  {e \in shown : /\ IsAction(e) => ResultsOf(e, shown) # {}
                 /\ IsResult(e) => \E a \in Actions(shown) : a.call = e.call}

\* Third pass: the results of the actions that went with their batch.
MutWithoutOrphans(shown, all) == shown  \* mutant: it is missing
WithoutOrphans(shown, all) ==
  {e \in shown : IsResult(e) => \A a \in Actions(all) : a.call = e.call => a \in shown}

\* _filter_unmatched_tool_calls.
Filtered(shown, all) == WithoutOrphans(Whole(Paired(shown), all), all)

Shown(log) ==
  LET all == Elements(log)
  IN  Filtered(Whole(Elements(Output(log)), all), all)
FromEvents(log) == Only(Output(log), Shown(log))

\* unhandled_condensation_request_exists
UnhandledRequest(log) ==
  \E i \in DOMAIN log :
    /\ log[i].kind = "condensation_request"
    /\ \A j \in i + 1 .. Len(log) : log[j].kind # "condensation"

-----------------------------------------------------------------------------
(* manipulation_indices: the places a view may be cut at.                  *)

MaxOf(S) == CHOOSE x \in S : \A y \in S : y <= x
MinOf(S) == CHOOSE x \in S : \A y \in S : x <= y

\* The positions a batch spans, results included.
Batches(view) == {e.batch : e \in Actions(Elements(view))}
Positions(view, b) == {i \in DOMAIN view : IsAction(view[i]) /\ view[i].batch = b}
FirstAt(view, b) == MinOf(Positions(view, b))
MutLastAt(view, b) == MaxOf(Positions(view, b))  \* mutant: results are not in the unit
LastAt(view, b) ==
  MaxOf(Positions(view, b) \cup
        {j \in DOMAIN view : /\ IsResult(view[j])
                             /\ \E i \in Positions(view, b) : view[i].call = view[j].call})

\* A tool loop: a batch with thinking and the batches after it, as long as nothing but
\* actions and results lies between one and the next.
InLoop(view, b, c) ==
  /\ FirstAt(view, b) <= FirstAt(view, c)
  /\ \A d \in Batches(view) :
       FirstAt(view, b) < FirstAt(view, d) /\ FirstAt(view, d) <= FirstAt(view, c) =>
         LET before == {x \in Batches(view) : /\ FirstAt(view, b) <= FirstAt(view, x)
                                              /\ FirstAt(view, x) < FirstAt(view, d)}
             end == MaxOf({LastAt(view, x) : x \in before})
         IN  \A k \in end + 1 .. FirstAt(view, d) - 1 : IsAction(view[k]) \/ IsResult(view[k])

MutThinks(view, b) == FALSE  \* mutant: tool loops are not recognised
Thinks(view, b) == view[FirstAt(view, b)].thinking
Units(view) ==
  LET batches == Batches(view)
  IN  {<<FirstAt(view, b), LastAt(view, b)>> : b \in batches} \cup
      {<<FirstAt(view, b), MaxOf({LastAt(view, c) : c \in {x \in batches : InLoop(view, b, x)}})>> :
         b \in {x \in batches : Thinks(view, x)}}

\* A cut after i events must not lie inside a unit.
Cuts(view) ==
  LET units == Units(view)
  IN  {i \in 0 .. Len(view) : \A u \in units : ~ (u[1] <= i /\ i < u[2])}
NextCut(view, threshold) ==
  LET after == {i \in Cuts(view) : i >= threshold}
  IN  IF after = {} THEN threshold ELSE MinOf(after)

-----------------------------------------------------------------------------
(* events_to_messages.                                                     *)

\* Consecutive actions of one response become one message.
Starts(view, i) == \/ ~ IsAction(view[i])
                   \/ i = 1
                   \/ ~ IsAction(view[i - 1])
                   \/ view[i - 1].batch # view[i].batch
Message(view, i) ==
  LET last == MaxOf({j \in i .. Len(view) : \A k \in i + 1 .. j : ~ Starts(view, k)})
  IN  IF IsAction(view[i])
      THEN [role |-> "assistant", calls |-> {view[k].call : k \in i .. last}]
      ELSE [role |-> CASE IsResult(view[i]) -> "tool"
                       [] view[i].kind = "agent" -> "assistant"
                       [] view[i].kind = "system" -> "system"
                       [] OTHER -> "user",
            calls |-> IF IsResult(view[i]) THEN {view[i].call} ELSE {}]
Messages(view) ==
  LET starts == {i \in DOMAIN view : Starts(view, i)}
      nth(n) == CHOOSE i \in starts : Cardinality({j \in starts : j < i}) = n - 1
  IN  [n \in 1 .. Cardinality(starts) |-> Message(view, nth(n))]
=============================================================================
