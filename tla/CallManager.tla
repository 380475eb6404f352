----------------------------- MODULE CallManager -----------------------------
(***************************************************************************)
(* The call manager of the app (app/backend/llm_call_manager.py): threads  *)
(* that call one LLM provider pass a circuit breaker, a semaphore and a    *)
(* pacing slot, then try up to MaxAttempts times.  Times are relative to   *)
(* the present: what is left until a deadline, or the age of an answer, so *)
(* that no bound on the clock is needed.                                   *)
(***************************************************************************)
EXTENDS Integers, Sequences, FiniteSets, SequencesExt

CONSTANTS
    Callers,      \* threads that call llm.completion() through the manager
    Concurrency,  \* LLM_MAX_CONCURRENCY_<provider>
    MinInterval,  \* LLM_MIN_INTERVAL_MS_<provider>, in ticks
    Threshold,    \* LLM_CIRCUIT_429_THRESHOLD
    Window,       \* LLM_CIRCUIT_WINDOW_SECONDS, in ticks
    OpenFor,      \* LLM_CIRCUIT_OPEN_SECONDS, in ticks
    MaxAttempts,  \* num_retries of the retry configuration
    Delays,       \* how long a retry may wait (backoff, jitter, Retry-After)
    MaxCalls      \* bound: calls made in all

ASSUME CallAssumption ==
    /\ IsFiniteSet(Callers)
    /\ {Concurrency, MaxAttempts, Threshold, Window, MaxCalls} \subseteq Nat \ {0}
    /\ {MinInterval, OpenFor} \cup Delays \subseteq Nat
    /\ Delays # {}

VARIABLES
    pc,        \* where each caller is
    left,      \* what remains of its sleep
    attempt,   \* the number of its attempt
    calls,     \* calls made so far
    permits,   \* value of the provider's semaphore
    nextIn,    \* next_allowed_at, as the time until it (0: passed)
    recent,    \* recent_429: ages, oldest first
    openIn,    \* circuit_open_until, as the time until it (0: closed)
    hits,      \* history: ages of every 429 not older than Window
    slips,     \* history: trims begun beside another one, none for a Window: 0
    slipped,   \* history: how long ago the last of them was
    level      \* history: MinInterval per first attempt, less the time passed

caller == <<pc, left, attempt, calls>>
provider == <<permits, nextIn, recent, openIn>>
history == <<hits, slips, slipped, level>>
vars == <<pc, left, attempt, calls, permits, nextIn, recent, openIn,
          hits, slips, slipped, level>>

Outside == {"idle", "refused", "done", "failed"}
Inside == {"sleeping", "trying", "recording", "popping", "retrying"}

Init ==
    /\ pc = [c \in Callers |-> "idle"]
    /\ left = [c \in Callers |-> 0]
    /\ attempt = [c \in Callers |-> 0]
    /\ calls = 0
    /\ permits = Concurrency
    /\ nextIn = 0
    /\ recent = <<>>
    /\ openIn = 0
    /\ hits = <<>>
    /\ slips = 0
    /\ slipped = Window + 1
    /\ level = 0

Goes(c, place) == pc' = [pc EXCEPT ![c] = place]

\* With the circuit open the call is refused at the door, once, before the
\* semaphore: it is not looked at again.
Call(c) ==
    /\ pc[c] \in Outside
    /\ calls < MaxCalls
    /\ calls' = calls + 1
    /\ Goes(c, IF openIn > 0 THEN "refused" ELSE "queued")
    /\ UNCHANGED <<left, attempt, provider, history>>

MayEnter == permits > 0

\* The permit, and under interval_lock the next slot.  (The lock is held for
\* these two assignments only, so taking it is part of the step.)
MutReserve(c) ==
    /\ pc[c] = "queued"
    /\ MayEnter
    /\ permits' = permits - 1
    /\ left' = [left EXCEPT ![c] = nextIn]
    /\ nextIn' = MinInterval
    /\ attempt' = [attempt EXCEPT ![c] = 1]
    /\ Goes(c, "sleeping")
    /\ UNCHANGED <<calls, recent, openIn, history>>

Reserve(c) ==
    /\ pc[c] = "queued"
    /\ MayEnter
    /\ permits' = permits - 1
    /\ left' = [left EXCEPT ![c] = nextIn]
    /\ nextIn' = nextIn + MinInterval
    /\ attempt' = [attempt EXCEPT ![c] = 1]
    /\ Goes(c, "sleeping")
    /\ UNCHANGED <<calls, recent, openIn, history>>

\* The slot has come: fn() is called.
Start(c) ==
    /\ pc[c] = "sleeping"
    /\ left[c] = 0
    /\ level' = level + MinInterval
    /\ Goes(c, "trying")
    /\ UNCHANGED <<left, attempt, calls, provider, hits, slips, slipped>>

Wake(c) ==
    /\ pc[c] = "retrying"
    /\ left[c] = 0
    /\ attempt' = [attempt EXCEPT ![c] = @ + 1]
    /\ Goes(c, "trying")
    /\ UNCHANGED <<left, calls, provider, history>>

\* Leaving the with-block gives the permit back, whatever the outcome.
Leave(c, outcome) == Goes(c, outcome) /\ permits' = permits + 1

Answered(c) ==
    /\ pc[c] = "trying"
    /\ \E outcome \in {"done", "failed"} : Leave(c, outcome)
    /\ UNCHANGED <<left, attempt, calls, nextIn, recent, openIn, history>>

\* A transient failure: the last attempt raises, an earlier one sleeps with
\* its permit in hand.
Again(c) ==
    IF attempt[c] >= MaxAttempts
      THEN Leave(c, "failed") /\ UNCHANGED left
      ELSE /\ \E d \in Delays : left' = [left EXCEPT ![c] = d]
           /\ Goes(c, "retrying")
           /\ UNCHANGED permits

Transient(c) ==
    /\ pc[c] = "trying"
    /\ Again(c)
    /\ UNCHANGED <<attempt, calls, nextIn, recent, openIn, history>>

\* A 429 is recorded; the head of the record is dropped while it is too old.
RateLimited(c) ==
    /\ pc[c] = "trying"
    /\ recent' = Append(recent, 0)
    /\ hits' = Append(hits, 0)
    /\ Goes(c, "recording")
    /\ UNCHANGED <<left, attempt, calls, permits, nextIn, openIn, slips, slipped, level>>

MutTooOld(age) == age >= Window
TooOld(age) == age > Window
Popping == {c \in Callers : pc[c] = "popping"}

\* popleft(): whatever is the head by now.  (There is one: each thread in here
\* has appended a 429 that only another's popleft can take.)
Prune(c) ==
    /\ pc[c] = "popping"
    /\ recent' = SubSeq(recent, 2, Len(recent))
    /\ Goes(c, "recording")
    /\ UNCHANGED <<left, attempt, calls, permits, nextIn, openIn, history>>

\* There is no lock: two threads may both find the same head too old, and the
\* second then drops the next one, which may be none too old.
Check(c) ==
    /\ pc[c] = "recording"
    /\ recent # <<>>
    /\ TooOld(Head(recent))
    /\ Goes(c, "popping")
    /\ IF Popping = {} THEN UNCHANGED <<slips, slipped>> ELSE slips' = slips + 1 /\ slipped' = 0
    /\ UNCHANGED <<left, attempt, calls, provider, hits, level>>

\* Enough of them: the circuit opens and the call ends.  Otherwise the failure
\* is retried like any other, or raised where only its status code says 429.
Count(c) ==
    /\ pc[c] = "recording"
    /\ recent # <<>> => ~TooOld(Head(recent))
    /\ IF Len(recent) >= Threshold
         THEN /\ openIn' = OpenFor
              /\ Leave(c, "failed")
              /\ UNCHANGED left
         ELSE /\ Again(c) \/ (Leave(c, "failed") /\ UNCHANGED left)
              /\ UNCHANGED openIn
    /\ UNCHANGED <<attempt, calls, nextIn, recent, history>>

\* The history is oldest first: its first n are the ones of at least that age.
Splits(n, age) == \A i \in 1..Len(hits) : hits[i] >= age <=> i <= n
\* The history a tick later, without its first n.
Later(n) == [i \in 1..(Len(hits) - n) |-> hits[i + n] + 1]

\* One tick of time.monotonic(); nobody has to be awake for it, but it does not
\* fall inside _open_circuit, which reads the clock once and takes no time to
\* speak of.  Ages above Window + 1 are told apart by nothing.
Tick ==
    /\ \A c \in Callers : pc[c] \notin {"recording", "popping"}
    /\ left' = [c \in Callers |-> IF left[c] > 0 THEN left[c] - 1 ELSE 0]
    /\ nextIn' = IF nextIn > 0 THEN nextIn - 1 ELSE 0
    /\ openIn' = IF openIn > 0 THEN openIn - 1 ELSE 0
    /\ recent' = [i \in DOMAIN recent |-> IF recent[i] > Window THEN recent[i] ELSE recent[i] + 1]
    /\ \E gone \in 0..Len(hits) : Splits(gone, Window) /\ hits' = Later(gone)
    /\ slipped' = IF slipped > Window THEN slipped ELSE slipped + 1
    /\ slips' = IF slipped >= Window THEN 0 ELSE slips
    /\ level' = IF level > 0 THEN level - 1 ELSE 0
    /\ UNCHANGED <<pc, attempt, calls, permits>>

Step(c) == \/ Reserve(c) \/ Start(c) \/ Wake(c) \/ Answered(c) \/ Transient(c)
           \/ RateLimited(c) \/ Check(c) \/ Prune(c) \/ Count(c)

Next == Tick \/ \E c \in Callers : Call(c) \/ Step(c)

\* Time passes, an attempt is answered or times out, and a thread that can go
\* on does.
Fairness == WF_vars(Tick) /\ \A c \in Callers : WF_vars(Step(c))

Spec == Init /\ [][Next]_vars /\ Fairness
-------------------------------------------------------------------------------
(* Types, and the ledger of the semaphore: a permit is either free or held  *)
(* by a thread between Reserve and Leave.                                    *)
TypeOK ==
    /\ pc \in [Callers -> Outside \cup Inside \cup {"queued"}]
    /\ left \in [Callers -> Nat]
    /\ attempt \in [Callers -> 0..MaxAttempts]
    /\ calls \in 0..MaxCalls
    /\ permits \in 0..Concurrency
    /\ {nextIn, openIn, level} \subseteq Nat
    /\ recent \in Seq(Nat)
    /\ hits \in Seq(0..Window)
    /\ slips \in Nat /\ slipped \in 0..(Window + 1)

(* No permit is ever lost or made up: every way out of call() gives it back *)
(* exactly once.                                                             *)
PermitsKept == permits + Cardinality({c \in Callers : pc[c] \in Inside}) = Concurrency

(* Pacing: over any period, the first attempts are at most one per           *)
(* MinInterval and one more, plus those already due that start late (one per *)
(* permit).  The slots are handed out under a lock and slept for outside it. *)
RateBound == level <= MinInterval * (Concurrency + 1)

(* The breaker works, though nothing locks the record: threads that trim it  *)
(* together may drop a 429 that still counts, but never more than one for     *)
(* each that began while another was at it.  So where a thread has finished   *)
(* with a 429 and the last Window has seen the Threshold and one more for     *)
(* each of these, the circuit is open.                                        *)
CircuitTrips ==
    [][\A c \in Callers :
         pc[c] = "recording" /\ pc'[c] \notin {"recording", "popping"}
           /\ Len(hits) >= Threshold + slips
           => openIn' = OpenFor]_vars

(* Every call comes back, even when every answer is a failure.               *)
CallReturns == \A c \in Callers : pc[c] \notin Outside ~> pc[c] \in Outside

(* "Rate limit circuit breaker is open. Please retry later."  Not so for the *)
(* calls that were past the check: no attempt is begun while it is open.     *)
QuietWhileOpen ==
    [][openIn > 0 => \A c \in Callers : pc[c] # "trying" => pc'[c] # "trying"]_vars
===============================================================================
