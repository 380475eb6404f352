-------------------------- MODULE WebhookSubscriber --------------------------
(***************************************************************************)
(* The webhook subscriber of the agent server (conversation_service.py):   *)
(* it buffers the events of a conversation and posts them in batches, when *)
(* the buffer is full, when its flush timer fires and when it is closed.   *)
(*                                                                         *)
(* Everything runs on one event loop, so the code between two awaits is    *)
(* one action; what interleaves are the coroutines: one call of the        *)
(* subscriber per event, the timer tasks, and close().  A call becomes a   *)
(* poster or starts a timer or neither, so coroutines are named by the     *)
(* event they were started for; 0 is close().                              *)
(*                                                                         *)
(* The webhook server is external: a request succeeds, fails unseen, or    *)
(* fails after the server has taken the batch (its answer is lost).        *)
(***************************************************************************)
EXTENDS Naturals, FiniteSets, SequencesExt

CONSTANTS MaxEvents,   \* bound: events published
          BufferSize,  \* spec.event_buffer_size
          Retries,     \* spec.num_retries
          MaxFailures  \* bound: requests that fail

ASSUME WebhookAssumption == /\ MaxEvents \in Nat /\ MaxFailures \in Nat
                            /\ BufferSize \in Nat \ {0}
                            /\ Retries \in Nat

Events == 1 .. MaxEvents
Close == 0
Coroutines == Events \cup {Close}
NoTimer == 0

VARIABLES published,  \* the events 1 .. published have been handed to the subscriber
          queue,      \* `queue`
          timer,      \* `_flush_timer`, named by the event that started it
          at,         \* where each coroutine is
          timed,      \* the coroutines that are timer tasks (_flush_after_delay)
          batch,      \* events_to_post of each
          attempt,    \* its retry counter
          removed,    \* PubSub.close() has dropped the subscriber
          failures,   \* failed requests so far (MaxFailures)
          received,   \* what the server has taken
          unclear,    \* what it took in a request that failed
          cancelled   \* what was in the hands of a timer task when it was cancelled

local == <<at, timed, batch, attempt>>
server == <<failures, received, unclear>>
vars == <<published, queue, timer, local, removed, server, cancelled>>

\* sleep: waits for flush_delay; post: awaits the request; backoff: waits for
\* retry_delay; cancel: has a CancelledError coming
Places == {"none", "sleep", "post", "backoff", "cancel", "done"}

\* A coroutine between taking a batch and having it posted or put back.
Posting == {"post", "backoff"}

TypeOK == /\ published \in 0 .. MaxEvents
          /\ queue \in Seq(Events)
          /\ timer \in Events \cup {NoTimer}
          /\ at \in [Coroutines -> Places]
          /\ timed \subseteq Events
          /\ batch \in [Coroutines -> Seq(Events)]
          /\ attempt \in [Coroutines -> 0 .. Retries]
          /\ removed \in BOOLEAN
          /\ failures \in 0 .. MaxFailures
          /\ received \subseteq Events
          /\ unclear \subseteq received
          /\ cancelled \subseteq Events

Init == /\ published = 0
        /\ queue = <<>>
        /\ timer = NoTimer
        /\ at = [c \in Coroutines |-> "none"]
        /\ timed = {}
        /\ batch = [c \in Coroutines |-> <<>>]
        /\ attempt = [c \in Coroutines |-> 0]
        /\ removed = FALSE
        /\ failures = 0 /\ received = {} /\ unclear = {} /\ cancelled = {}

-----------------------------------------------------------------------------
(* _post_events takes all of the queue; _cancel_flush_timer.  `where` is at *)
(* as the caller leaves it.                                                 *)
Taken == <<>>

Post(c, where, events) ==
  /\ at' = [where EXCEPT ![c] = "post"]
  /\ batch' = [batch EXCEPT ![c] = events]
  /\ attempt' = [attempt EXCEPT ![c] = 0]
  /\ queue' = Taken

\* A timer task that is cancelled gets its CancelledError where it waits; the batch
\* it holds then is in no other place.
Cancel(where) ==
  IF timer = NoTimer THEN where ELSE [where EXCEPT ![timer] = "cancel"]
CancelTimer ==
  /\ timer' = NoTimer
  /\ cancelled' = cancelled \cup (IF timer # NoTimer /\ at[timer] \in Posting
                                  THEN ToSet(batch[timer]) ELSE {})

-----------------------------------------------------------------------------
\* __call__: the next event.
Full == Len(queue) + 1 >= BufferSize

CallPosts ==
  LET e == published + 1
  IN  /\ published < MaxEvents /\ ~ removed
      /\ Full
      /\ published' = e
      /\ CancelTimer
      /\ Post(e, Cancel(at), Append(queue, e))
      /\ UNCHANGED <<timed, removed, server>>

NeedsTimer == timer = NoTimer

CallBuffers ==
  LET e == published + 1
  IN  /\ published < MaxEvents /\ ~ removed
      /\ ~ Full
      /\ published' = e
      /\ queue' = Append(queue, e)
      /\ IF NeedsTimer
         THEN timer' = e /\ at' = [at EXCEPT ![e] = "sleep"] /\ timed' = timed \cup {e}
         ELSE UNCHANGED <<timer, at, timed>>
      /\ UNCHANGED <<batch, attempt, removed, server, cancelled>>

\* close(), called by PubSub.close().
CloseCall ==
  /\ at[Close] = "none"
  /\ CancelTimer
  /\ IF queue # <<>>
     THEN Post(Close, Cancel(at), queue)
     ELSE /\ at' = [Cancel(at) EXCEPT ![Close] = "done"]
          /\ UNCHANGED <<batch, attempt, queue>>
  /\ UNCHANGED <<published, timed, removed, server>>

\* All close() calls have returned: _subscribers.clear().
Unsubscribe ==
  /\ at[Close] = "done" /\ ~ removed
  /\ removed' = TRUE
  /\ UNCHANGED <<published, queue, timer, local, server, cancelled>>

-----------------------------------------------------------------------------
\* The coroutine c ends; a timer task clears `_flush_timer`, whatever it holds by now.
MutCleared(c) == timer  \* mutant: no finally clause
Cleared(c) == IF c \in timed THEN NoTimer ELSE timer

End(c) == /\ at' = [at EXCEPT ![c] = "done"]
          /\ batch' = [batch EXCEPT ![c] = <<>>]
          /\ attempt' = [attempt EXCEPT ![c] = 0]
          /\ timer' = Cleared(c)

\* flush_delay has passed.
MutWake(c) ==  \* mutant: the timer only ends
  at[c] = "sleep" /\ End(c) /\ UNCHANGED <<published, queue, timed, removed, server, cancelled>>
Wake(c) ==
  /\ at[c] = "sleep"
  /\ IF queue # <<>>
     THEN Post(c, at, queue) /\ UNCHANGED timer
     ELSE End(c) /\ UNCHANGED queue
  /\ UNCHANGED <<published, timed, removed, server, cancelled>>

\* except asyncio.CancelledError.  _post_events does not catch it: a request is
\* aborted, whether or not the server has taken it, and its batch is dropped.
Unwind(c) ==
  /\ at[c] = "cancel"
  /\ \E taken \in {{}, ToSet(batch[c])} : received' = received \cup taken
  /\ End(c)
  /\ UNCHANGED <<published, queue, timed, removed, failures, unclear, cancelled>>

Succeed(c) ==
  /\ at[c] = "post"
  /\ received' = received \cup ToSet(batch[c])
  /\ End(c)
  /\ UNCHANGED <<published, queue, timed, removed, failures, unclear, cancelled>>

\* What a request that failed leaves at the server.
Lost(taken) == /\ failures < MaxFailures
               /\ failures' = failures + 1
               /\ received' = received \cup taken
               /\ unclear' = unclear \cup taken

\* if attempt < self.spec.num_retries
MayRetry(c) == attempt[c] < Retries

Fail(c) ==
  /\ at[c] = "post" /\ MayRetry(c)
  /\ \E taken \in {{}, ToSet(batch[c])} : Lost(taken)
  /\ at' = [at EXCEPT ![c] = "backoff"]
  /\ attempt' = [attempt EXCEPT ![c] = @ + 1]
  /\ UNCHANGED <<published, queue, timer, timed, batch, removed, cancelled>>

Retry(c) ==
  /\ at[c] = "backoff"
  /\ at' = [at EXCEPT ![c] = "post"]
  /\ UNCHANGED <<published, queue, timer, timed, batch, attempt, removed, server, cancelled>>

\* The last attempt failed: the batch goes back, behind what has arrived meanwhile.
MutPutBack(c) == queue  \* mutant: not re-queued
PutBack(c) == queue \o batch[c]

GiveUp(c) ==
  /\ at[c] = "post" /\ ~ MayRetry(c)
  /\ \E taken \in {{}, ToSet(batch[c])} : Lost(taken)
  /\ queue' = PutBack(c)
  /\ End(c)
  /\ UNCHANGED <<published, timed, removed, cancelled>>

Step(c) == Wake(c) \/ Unwind(c) \/ Succeed(c) \/ Fail(c) \/ Retry(c) \/ GiveUp(c)

Next == CallPosts \/ CallBuffers \/ CloseCall \/ Unsubscribe \/ \E c \in Coroutines : Step(c)

Spec == Init /\ [][Next]_vars

\* The event loop runs what is ready and httpx times out: every coroutine goes on.
\* Nothing says that another event arrives or that the server is closed.
FairSpec == Spec /\ \A c \in Coroutines : WF_vars(Step(c))

-----------------------------------------------------------------------------
\* Where an event is on its way: the queue or the batch of a live coroutine.
Holders(e) == {c \in Coroutines : e \in ToSet(batch[c])}
Queued(e) == e \in ToSet(queue)

\* Whatever fails and however the coroutines interleave, an event handed to the
\* subscriber is queued, in a batch, at the server, or was with a cancelled timer.
Accounted == \A e \in 1 .. published :
               Queued(e) \/ Holders(e) # {} \/ e \in received \/ e \in cancelled

\* An event is in one place, so it is posted again only after a request for it failed:
\* the queue or one batch, and nowhere once the server has it.
InOnePlace ==
  /\ IsInjective(queue)
  /\ \A c \in Coroutines : IsInjective(batch[c])
  /\ \A e \in 1 .. published :
       /\ Cardinality(Holders(e)) + (IF Queued(e) THEN 1 ELSE 0) <= 1
       /\ e \in received \ unclear => ~ Queued(e) /\ Holders(e) = {}

\* `_flush_timer` is a task that will still run: a new event is never buffered on the
\* strength of a timer that has ended.
TimerIsAlive == timer # NoTimer => timer \in timed /\ at[timer] \in {"sleep"} \cup Posting

\* What is queued while the timer sleeps gets out of the queue, by the timer, by a
\* full buffer or by close().
SleepingTimerFlushes ==
  \A e \in Events : (Queued(e) /\ timer # NoTimer /\ at[timer] = "sleep") ~> ~ Queued(e)

-----------------------------------------------------------------------------
(* What the repository says and the code does not do. *)

\* "Re-queue events for potential retry later" (conversation_service.py:613): an event
\* the server did not get is still somewhere.
NothingLost == \A e \in 1 .. published : Queued(e) \/ Holders(e) # {} \/ e \in received

\* flush_delay: "The delay in seconds after which buffered events will be flushed to the
\* webhook, even if the buffer is not full" (config.py:69).
BufferedIsFlushed == \A e \in Events : Queued(e) ~> ~ Queued(e)

\* "Timer is reset on each new event." (config.py:70)
TimerIsReset == [][published' > published /\ timer # NoTimer => timer' # timer]_vars
=============================================================================
