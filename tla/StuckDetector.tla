----------------------------- MODULE StuckDetector -----------------------------
(***************************************************************************)
(* StuckDetector.is_stuck over the events that run() and the agent write,  *)
(* run() asking it before each step.  Contents stand for what _event_eq    *)
(* compares: thought and action, observation, error text.                  *)
(***************************************************************************)
EXTENDS View

CONSTANTS ActionObservation, ActionError, Monologue, Alternating,  \* thresholds
          Contents,  \* of actions and observations
          Parallel,  \* calls in one response (bound)
          Confirms,  \* some actions wait for confirmation
          MaxEvents  \* bound

ThresholdAssumption ==
  /\ {ActionObservation, ActionError, Monologue, Alternating} \subseteq Nat \ {0}
  /\ Parallel \in Nat

VARIABLES events,
          status  \* execution_status, as far as the detector is concerned
vars == <<events, status>>

-----------------------------------------------------------------------------
(* The detector.                                                           *)

\* _event_eq; rejections are compared whole, with their ids.
Equal(a, b) == /\ a.kind = b.kind
               /\ a.content = b.content
               /\ a.kind = "rejection" => a.id = b.id

SinceUser(l) ==
  SubSeq(l, 1 + MaxOf({0} \cup {i \in DOMAIN l : l[i].kind = "user"}), Len(l))

OfKinds(l, kinds) == Only(l, {e \in Elements(l) : e.kind \in kinds})

\* The last of some kinds, newest first, at most n.
Newest(l, kinds, n) ==
  LET found == OfKinds(l, kinds)
  IN  [i \in 1 .. MinOf({n, Len(found)}) |-> found[Len(found) + 1 - i]]

AllSame(seq, n) == \A i \in 1 .. n : Equal(seq[1], seq[i])

MutRepeating(acts, obs) ==  \* mutant: the observations are not compared
  /\ Len(acts) >= ActionObservation /\ Len(obs) >= ActionObservation
  /\ AllSame(acts, ActionObservation)
Repeating(acts, obs) ==
  /\ Len(acts) >= ActionObservation /\ Len(obs) >= ActionObservation
  /\ AllSame(acts, ActionObservation) /\ AllSame(obs, ActionObservation)

RepeatingError(acts, obs) ==
  /\ Len(acts) >= ActionError /\ Len(obs) >= ActionError
  /\ AllSame(acts, ActionError)
  /\ \A i \in 1 .. ActionError : obs[i].kind = "error"

\* Agent messages at the end; a Condensation, which is no CondensationSummaryEvent, ends them.
IsMonologue(l) ==
  /\ Len(l) >= Monologue
  /\ \A i \in Len(l) - Monologue + 1 .. Len(l) : l[i].kind = "agent"

IsAlternating(l) ==
  LET acts == Newest(l, {"action"}, Alternating)
      obs == Newest(l, {"observation", "error"}, Alternating)
  IN  /\ Len(l) >= Alternating
      /\ Len(acts) = Alternating /\ Len(obs) = Alternating
      /\ \A i \in 1 .. Alternating - 2 : Equal(acts[i], acts[i + 2]) /\ Equal(obs[i], obs[i + 2])

IsStuck(log) ==
  LET l == SinceUser(log)
      needed == MaxOf({ActionObservation, ActionError})
      acts == Newest(l, {"action"}, needed)
      obs == Newest(l, ResultKinds, needed)
  IN  /\ \E i \in DOMAIN log : log[i].kind = "user"
      /\ Len(l) >= MinOf({ActionObservation, ActionError, Monologue})
      /\ \/ Repeating(acts, obs)
         \/ RepeatingError(acts, obs)
         \/ IsMonologue(l)
         \/ IsAlternating(l)

-----------------------------------------------------------------------------
(* run() and the agent.                                                    *)

Event(l, kind, call, content) ==
  [Blank EXCEPT !.id = Len(l) + 1, !.kind = kind, !.call = call, !.content = content]
Pending == Only(events, {a \in Actions(Elements(events)) : ResultsOf(a, Elements(events)) = {}})

Calls(n, content) ==
  [i \in 1 .. n |-> [Event(events, "action", Len(events) + i, content) EXCEPT
                       !.id = Len(events) + i, !.batch = Len(events) + 1]]
Answers(acts, l, kind, content) ==
  [i \in DOMAIN acts |-> [Event(l, kind, acts[i].call, content) EXCEPT !.id = Len(l) + i]]

Write(l) == Len(l) <= MaxEvents /\ events' = l

Init == events = <<>> /\ status = "idle"

\* send_message() and run(), which leaves again when the status is STUCK.
SendMessage ==
  /\ Write(Append(events, Event(events, "user", 0, 0)))
  /\ status' = IF status = "stuck" THEN status ELSE "running"
Run == /\ status \in {"idle", "waiting"}
       /\ status' = "running"
       /\ UNCHANGED events
Reject ==
  /\ Pending # <<>>
  /\ Write(events \o Answers(Pending, events, "rejection", 0))
  /\ UNCHANGED status

\* Before each step.
Stop == /\ status = "running"
        /\ IsStuck(events)
        /\ status' = "stuck"
        /\ UNCHANGED events

Execute ==
  /\ Pending # <<>>
  /\ \E kind \in {"observation", "error"}, content \in Contents :
       Write(events \o Answers(Pending, events, kind, content))
  /\ UNCHANGED status
CallTools ==
  /\ Pending = <<>>
  /\ \E n \in 1 .. Parallel, act \in Contents :
       \/ \E kind \in {"observation", "error"}, content \in Contents :
            /\ Write(events \o Calls(n, act)
                       \o Answers(Calls(n, act), events \o Calls(n, act), kind, content))
            /\ UNCHANGED status
       \/ /\ Confirms
          /\ Write(events \o Calls(n, act))
          /\ status' = "waiting"
\* Reasoning without content goes on; with content the run is over.
Speak ==
  /\ Pending = <<>>
  /\ Write(Append(events, Event(events, "agent", 0, 0)))
  /\ status' \in {"running", "idle"}
Condense ==
  /\ Pending = <<>>
  /\ Write(Append(events, Event(events, "condensation", 0, 0)))
  /\ UNCHANGED status
Step == /\ status = "running"
        /\ ~ IsStuck(events)
        /\ Execute \/ CallTools \/ Speak \/ Condense

Next == SendMessage \/ Run \/ Reject \/ Stop \/ Step

Spec == Init /\ [][Next]_vars

-----------------------------------------------------------------------------
(* Properties.                                                             *)

TypeOK == /\ status \in {"idle", "running", "waiting", "stuck"}
          /\ \A i \in DOMAIN events : events[i].id = i

\* What repeats, by pairs: the calls since the user's message, each with its result.
Pairs(l) ==
  LET acts == OfKinds(l, {"action"})
  IN  [i \in DOMAIN acts |-> [does |-> acts[i].content,
                              gets |-> {<<r.kind, r.content>> : r \in ResultsOf(acts[i], Elements(l))}]]
LastSame(pairs, n) ==
  /\ Len(pairs) >= n
  /\ \A i \in Len(pairs) - n + 1 .. Len(pairs) : pairs[i] = pairs[Len(pairs)]
LastFail(pairs, n) ==
  /\ Len(pairs) >= n
  /\ \A i \in Len(pairs) - n + 1 .. Len(pairs) :
       /\ pairs[i].does = pairs[Len(pairs)].does
       /\ \A r \in pairs[i].gets : r[1] = "error"
LastAlternate(pairs, n) ==
  /\ Len(pairs) >= n
  /\ \A i \in Len(pairs) - n + 1 .. Len(pairs) - 2 : pairs[i] = pairs[i + 2]
InPairs(l) == \A i \in DOMAIN l :
                IsAction(l[i]) => i < Len(l) /\ IsResult(l[i + 1]) /\ l[i + 1].call = l[i].call
Rejected(l) == \E i \in DOMAIN l : l[i].kind = "rejection"

\* For calls made one at a time and none rejected the detector, which looks at the last
\* actions and the last results separately, says exactly what the pairs say.
Exact ==
  LET l == SinceUser(events)
      pairs == Pairs(l)
  IN  (\E i \in DOMAIN events : events[i].kind = "user") /\ InPairs(l) /\ ~ Rejected(l) =>
        (IsStuck(events) <=> \/ LastSame(pairs, ActionObservation)
                             \/ LastFail(pairs, ActionError)
                             \/ LastAlternate(pairs, Alternating)
                             \/ IsMonologue(l))

\* However often run() is called, an agent that gets the same result for the same call is
\* not let on: the loop stops at the threshold.
NoRunaway ==
  LET l == SinceUser(events)
  IN  (\E i \in DOMAIN events : events[i].kind = "user") /\ InPairs(l) /\ ~ Rejected(l) =>
        /\ ~ LastSame(Pairs(l), ActionObservation + 1)
        /\ ~ LastFail(Pairs(l), ActionError + 1)

-----------------------------------------------------------------------------
(* What does not hold.                                                     *)

\* "Repeating action-observation cycles" (stuck_detector.py:19): actions that wait for
\* the user's approval are counted as repeated, with the results of others.
RepeatsAreDone ==
  status = "stuck" /\ ~ IsMonologue(SinceUser(events)) => Pending = <<>>

\* "Condensation events don't break the monologue pattern" (stuck_detector.py:210).
CondensationIsSkipped ==
  LET l == SelectSeq(SinceUser(events), LAMBDA e : e.kind # "condensation")
  IN  (\E i \in DOMAIN events : events[i].kind = "user") /\ IsMonologue(l) => IsStuck(events)

\* "Only look at history after the last user message" (stuck_detector.py:59): a message
\* after the loop does not take the conversation out of STUCK, neither does run().
StuckIsCurrent == status = "stuck" => IsStuck(events)
================================================================================
