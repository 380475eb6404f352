---------------------------- MODULE AppendOnlyLog ----------------------------
(***************************************************************************)
(* What the persisted history of a conversation promises its readers: one  *)
(* sequence that only grows, holds an event at most once, and of which     *)
(* only the last entry can still be incomplete and change.  Conversation   *)
(* takes its history to be such a log; EventLog is shown to implement it.  *)
(***************************************************************************)
EXTENDS Naturals, Sequences

CONSTANT Events

VARIABLE log  \* [id: the event, whole: whether all of it is written]

Ids == {log[i].id : i \in DOMAIN log}

Init == log = <<>>

\* An event takes the next place.
Reserve(e) == /\ e \notin Ids
              /\ log' = Append(log, [id |-> e, whole |-> FALSE])

\* The last event is completely written.
Finish == /\ log # <<>>
          /\ log' = [log EXCEPT ![Len(log)].whole = TRUE]

Next == Finish \/ \E e \in Events : Reserve(e)

Spec == Init /\ [][Next]_log
==============================================================================
