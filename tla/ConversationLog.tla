--------------------------- MODULE ConversationLog ---------------------------
(***************************************************************************)
(* What the control of a conversation reads from its event log             *)
(* (ConversationState.get_unmatched_actions, the scan of Agent.step for    *)
(* the last user message, View.unhandled_condensation_request_exists).     *)
(*                                                                         *)
(* An event keeps its kind and the id it is about: the id of an action for *)
(* "tool" and "finish" (ActionEvents that can be executed), "invalid" (an  *)
(* ActionEvent with action=None), "observation", "rejection" and "error"   *)
(* (an AgentErrorEvent), that of a message for "user"; 0 for the others.   *)
(* Events no decision of the conversation reads (system prompt, pause,     *)
(* state updates, conversation errors, token ids) are not recorded.        *)
(***************************************************************************)
EXTENDS Integers, Sequences

Kinds == {"user", "agent", "tool", "finish", "invalid", "observation",
          "rejection", "error", "request", "condensation"}

Event(k, n) == [kind |-> k, id |-> n]
Events == [kind : Kinds, id : Nat]

Executable == {"tool", "finish"}

\* Some event of the log is of one of the kinds ks and about n.
Has(log, ks, n) == \E i \in 1 .. Len(log) : log[i].kind \in ks /\ log[i].id = n

\* An observation or a rejection: what takes an action off the pending list.  An
\* AgentErrorEvent does not: it names the tool call, not the action.
MutResults == {"observation"}               \* mutant: a rejection does not count
Results == {"observation", "rejection"}

Settled(log, n) == Has(log, Results, n)

\* get_unmatched_actions: ids grow along the log, so their order is the log's.
Unmatched(log) ==
  {n \in {log[i].id : i \in 1 .. Len(log)} : Has(log, Executable, n) /\ ~ Settled(log, n)}

IsLast(log, k, i) ==
  /\ log[i].kind = k
  /\ \A j \in i + 1 .. Len(log) : log[j].kind # k

\* The message of the last user event, 0 when there is none.
LastUserMessage(log) ==
  IF \E i \in 1 .. Len(log) : IsLast(log, "user", i)
    THEN log[CHOOSE i \in 1 .. Len(log) : IsLast(log, "user", i)].id
    ELSE 0

\* A condensation request that no condensation follows.
UnhandledRequest(log) ==
  \E i \in 1 .. Len(log) : /\ IsLast(log, "request", i)
                           /\ \A j \in i + 1 .. Len(log) : log[j].kind # "condensation"
=============================================================================
