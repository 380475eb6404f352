------------------------------- MODULE FIFOLock -------------------------------
(***************************************************************************)
(* The reentrant first-in-first-out lock every conversation is guarded by  *)
(* (conversation/fifo_lock.py).  All its fields are protected by one       *)
(* internal mutex, so each stretch of code between two waits is one        *)
(* action.  A thread waits on a condition variable of its own, queued in   *)
(* `_waiters`; the owner that leaves notifies the condition at the front.  *)
(*                                                                         *)
(* The non-blocking call that fails and the release by a thread that is    *)
(* not the owner change nothing and have no action.                        *)
(***************************************************************************)
EXTENDS Integers, FiniteSets, Sequences, SequencesExt

CONSTANTS Threads,        \* the threads that use the lock
          Interruptible,  \* those an asynchronous exception may hit in wait()
          NoThread,       \* `_owner` is None; also a queue entry nobody waits on
          MaxDepth,       \* bound: nested acquisitions by one thread
          MaxAbandoned    \* bound: conditions abandoned in the queue

ASSUME LockAssumption == /\ NoThread \notin Threads
                         /\ Interruptible \subseteq Threads
                         /\ MaxDepth \in Nat \ {0}
                         /\ MaxAbandoned \in Nat

VARIABLES owner,    \* `_owner`
          count,    \* `_count`
          waiters,  \* `_waiters`, each condition named by the thread it belongs to
          pc,       \* where a thread is in acquire()
          timed     \* whether the call a thread is in has a timeout

vars == <<owner, count, waiters, pc, timed>>

\* out: in no acquire(); waiting: inside wait(); woken: notified, on its way
\* back to the loop; expired: its timeout elapsed, on its way back
Places == {"out", "waiting", "woken", "expired"}

TypeOK == /\ owner \in Threads \cup {NoThread}
          /\ count \in 0 .. MaxDepth
          /\ waiters \in Seq(Threads \cup {NoThread})
          /\ pc \in [Threads -> Places]
          /\ timed \in [Threads -> BOOLEAN]

Init == /\ owner = NoThread
        /\ count = 0
        /\ waiters = <<>>
        /\ pc = [t \in Threads |-> "out"]
        /\ timed = [t \in Threads |-> FALSE]

-----------------------------------------------------------------------------
\* if self._waiters[0] is me and self._owner is None
MutMayTake(t) == waiters # <<>> /\ owner = NoThread  \* mutant: not only the front
MayTake(t) == waiters # <<>> /\ Head(waiters) = t /\ owner = NoThread

AcquireReentrant(t) ==
  /\ pc[t] = "out" /\ owner = t /\ count < MaxDepth
  /\ count' = count + 1
  /\ UNCHANGED <<owner, waiters, pc, timed>>

AcquireFree(t) ==
  /\ pc[t] = "out" /\ owner = NoThread /\ waiters = <<>>
  /\ owner' = t
  /\ count' = 1
  /\ UNCHANGED <<waiters, pc, timed>>

\* The first test of the loop always fails here, so the thread goes straight
\* to wait(); `d` says whether the call has a timeout.
Enqueue(t, d) ==
  /\ pc[t] = "out" /\ owner # t
  /\ ~ (owner = NoThread /\ waiters = <<>>)
  /\ waiters' = Append(waiters, t)
  /\ pc' = [pc EXCEPT ![t] = "waiting"]
  /\ timed' = [timed EXCEPT ![t] = d]
  /\ UNCHANGED <<owner, count>>

Take(t) ==
  /\ pc[t] \in {"woken", "expired"} /\ MayTake(t)
  /\ waiters' = Tail(waiters)
  /\ owner' = t
  /\ count' = 1
  /\ pc' = [pc EXCEPT ![t] = "out"]
  /\ UNCHANGED timed

\* The deadline passes: wait(remaining) returns, or is about to after a notify.
Expire(t) ==
  /\ pc[t] \in {"waiting", "woken"} /\ timed[t]
  /\ pc' = [pc EXCEPT ![t] = "expired"]
  /\ UNCHANGED <<owner, count, waiters, timed>>

\* Back in the loop with nothing remaining: the lock is tried first, then given up.
GiveUp(t) ==
  /\ pc[t] = "expired" /\ ~ MayTake(t)
  /\ \E i \in 1 .. Len(waiters) : waiters[i] = t /\ waiters' = RemoveAt(waiters, i)
  /\ pc' = [pc EXCEPT ![t] = "out"]
  /\ UNCHANGED <<owner, count, timed>>

\* release(): the front condition is notified; a notify finds nobody when its
\* thread is no longer in wait().
MayRelease(t) == owner = t

LastRelease == count <= 1

MutNotified(u) == FALSE          \* mutant: nobody is notified
Notified(u) == waiters # <<>> /\ Head(waiters) = u /\ pc[u] = "waiting"

Release(t) ==
  /\ MayRelease(t)
  /\ count' = count - 1
  /\ IF LastRelease
       THEN /\ owner' = NoThread
            /\ pc' = [u \in Threads |-> IF Notified(u) THEN "woken" ELSE pc[u]]
       ELSE UNCHANGED <<owner, pc>>
  /\ UNCHANGED <<waiters, timed>>

\* A KeyboardInterrupt raised inside wait() leaves acquire() through the `with`
\* of the mutex; nothing removes the condition from the queue.
Abandoned == {i \in 1 .. Len(waiters) : waiters[i] = NoThread}

Interrupt(t) ==
  /\ t \in Interruptible /\ pc[t] \in {"waiting", "woken"}
  /\ Cardinality(Abandoned) < MaxAbandoned
  /\ \E i \in 1 .. Len(waiters) :
       waiters[i] = t /\ waiters' = [waiters EXCEPT ![i] = NoThread]
  /\ pc' = [pc EXCEPT ![t] = "out"]
  /\ UNCHANGED <<owner, count, timed>>

Step(t) == \/ AcquireReentrant(t)
           \/ AcquireFree(t)
           \/ \E d \in BOOLEAN : Enqueue(t, d)
           \/ Take(t)
           \/ Expire(t)
           \/ GiveUp(t)
           \/ Release(t)
           \/ Interrupt(t)

Next == \E t \in Threads : Step(t)

Spec == Init /\ [][Next]_vars

\* Threads that returned from wait() run; timers fire; every critical section
\* (a `with self._state` block) ends: its last release eventually happens.
Fairness == \A t \in Threads : /\ WF_vars(Take(t))
                               /\ WF_vars(GiveUp(t))
                               /\ WF_vars(Expire(t))
                               /\ WF_vars(Release(t))
                               /\ SF_vars(Release(t) /\ count = 1)

FairSpec == Spec /\ Fairness
-----------------------------------------------------------------------------
\* The lock is held exactly while its count is positive: what the assertion in
\* release() relies on, whatever the nesting of acquisitions.
OwnerCount == (owner = NoThread) <=> (count = 0)

\* The owner and the threads still queueing are different threads, nobody is
\* queued twice, and the queue holds exactly the threads inside acquire():
\* what makes a notify reach the thread it is meant for.
QueueIsWaiters ==
  /\ \A i, j \in 1 .. Len(waiters) :
       (waiters[i] = waiters[j] /\ waiters[i] # NoThread) => i = j
  /\ \A t \in Threads :
       pc[t] # "out" <=> \E i \in 1 .. Len(waiters) : waiters[i] = t
  /\ \A t \in Threads : pc[t] # "out" => owner # t

\* A free lock with a queue is on its way to the thread at the front: no wake-up is
\* lost between a release, a timeout and a fresh acquire(), until an interrupted thread
\* leaves a condition behind that nobody waits on.
NoLostWakeup ==
  (owner = NoThread /\ waiters # <<>> /\ Abandoned = {}) =>
    \E t \in Threads : Head(waiters) = t /\ pc[t] \in {"woken", "expired"}

\* A notified thread finds the lock free and itself in front, so the loop in
\* acquire() never goes around a second time: nobody barges in between.
WokenMayTake == \A t \in Threads : pc[t] = "woken" => MayTake(t)

\* The lock goes to a thread only when every thread that is still queueing
\* asked for it later ("threads acquire the lock in the exact order they
\* requested it").
Before(t, u) == \E i, j \in 1 .. Len(waiters) :
                   i < j /\ waiters[i] = t /\ waiters[j] = u

FIFOOrder ==
  [][\A t, u \in Threads :
       /\ (owner # t /\ owner' = t /\ u # t /\ pc[u] # "out") => Before(t, u)
       /\ (Before(t, u) /\ pc'[t] # "out" /\ pc'[u] # "out") => Before(t, u)']_vars

\* A thread that waits without a timeout gets the lock in the end, if no thread is
\* interrupted in wait().  (The condition such a thread leaves in the queue stops
\* everybody behind it.)
NoStarvation ==
  [](Abandoned = {}) =>
    \A t \in Threads : (pc[t] = "waiting" /\ ~ timed[t]) ~> (owner = t)
=============================================================================
