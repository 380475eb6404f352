---------------------------- MODULE FIFOLockProofs ----------------------------
(***************************************************************************)
(* Theorems about FIFOLock, for any set of threads and any bounds.         *)
(***************************************************************************)
EXTENDS FIFOLock, SequenceTheorems, TLAPS

\* Removing one entry keeps the others, in their order.
LEMMA RemoveAtProperties ==
  ASSUME NEW S, NEW s \in Seq(S), NEW i \in 1 .. Len(s)
  PROVE  /\ RemoveAt(s, i) \in Seq(S)
         /\ Len(RemoveAt(s, i)) = Len(s) - 1
         /\ \A j \in 1 .. Len(s) - 1 :
              RemoveAt(s, i)[j] = IF j < i THEN s[j] ELSE s[j + 1]
<1> DEFINE a == SubSeq(s, 1, i - 1)
           b == SubSeq(s, i + 1, Len(s))
<1>1. /\ a \in Seq(S) /\ Len(a) = i - 1
      /\ \A j \in 1 .. i - 1 : a[j] = s[j]
  BY SubSeqProperties
<1>2. /\ b \in Seq(S) /\ Len(b) = Len(s) - i
      /\ \A j \in 1 .. Len(s) - i : b[j] = s[i + j]
  BY SubSeqProperties
<1>3. /\ a \o b \in Seq(S) /\ Len(a \o b) = Len(a) + Len(b)
      /\ \A j \in 1 .. Len(a) + Len(b) :
           (a \o b)[j] = IF j <= Len(a) THEN a[j] ELSE b[j - Len(a)]
  BY <1>1, <1>2, ConcatProperties
<1>4. RemoveAt(s, i) = a \o b
  BY DEF RemoveAt
<1>5. Len(s) \in Nat
  BY LenProperties
<1> HIDE DEF a, b
<1>6. ASSUME NEW j \in 1 .. Len(s) - 1
      PROVE  (a \o b)[j] = IF j < i THEN s[j] ELSE s[j + 1]
  <2>1. (a \o b)[j] = IF j < i THEN a[j] ELSE b[j - (i - 1)]
    BY <1>1, <1>2, <1>3, <1>5
  <2>2. CASE j < i
    <3>1. j \in 1 .. i - 1
      BY <2>2, <1>5
    <3> QED BY <3>1, <2>1, <2>2, <1>1
  <2>3. CASE ~ (j < i)
    <3> DEFINE k == j - (i - 1)
    <3>1. k \in 1 .. Len(s) - i /\ i + k = j + 1
      BY <2>3, <1>5
    <3>2. b[k] = s[i + k]
      <4> HIDE DEF k
      <4> QED BY <3>1, <1>2
    <3> QED BY <3>1, <3>2, <2>1, <2>3
  <2> QED BY <2>2, <2>3
<1>7. Len(a \o b) = Len(s) - 1 /\ a \o b \in Seq(S)
  BY <1>1, <1>2, <1>3, <1>5
<1> QED BY <1>4, <1>6, <1>7

-----------------------------------------------------------------------------
(***************************************************************************)
(* The inductive invariant.  TypeOK alone is not inductive: that release() *)
(* leaves a count in range needs OwnerCount, and that a notify reaches the *)
(* thread in front needs the queue and the places to agree.                *)
(***************************************************************************)
LockInv == TypeOK /\ OwnerCount /\ QueueIsWaiters /\ WokenMayTake

\* The invariant holds for a new lock.
LEMMA LockInvInit == Init => LockInv
BY LockAssumption
DEF Init, LockInv, TypeOK, Places, OwnerCount, QueueIsWaiters, WokenMayTake

\* A step keeps the types.
LEMMA TypeStep == ASSUME LockInv, [Next]_vars PROVE TypeOK'
<1> USE LockAssumption DEF LockInv, TypeOK, OwnerCount, Places
<1>1. ASSUME NEW t \in Threads, AcquireReentrant(t) PROVE TypeOK'
  BY <1>1 DEF AcquireReentrant
<1>2. ASSUME NEW t \in Threads, AcquireFree(t) PROVE TypeOK'
  BY <1>2 DEF AcquireFree
<1>3. ASSUME NEW t \in Threads, NEW d \in BOOLEAN, Enqueue(t, d) PROVE TypeOK'
  BY <1>3 DEF Enqueue
<1>4. ASSUME NEW t \in Threads, Take(t) PROVE TypeOK'
  BY <1>4 DEF Take, MayTake
<1>5. ASSUME NEW t \in Threads, Expire(t) PROVE TypeOK'
  BY <1>5 DEF Expire
<1>6. ASSUME NEW t \in Threads, GiveUp(t) PROVE TypeOK'
  BY <1>6, RemoveAtProperties DEF GiveUp
<1>7. ASSUME NEW t \in Threads, Release(t) PROVE TypeOK'
  BY <1>7 DEF Release, MayRelease, LastRelease
<1>8. ASSUME NEW t \in Threads, Interrupt(t) PROVE TypeOK'
  BY <1>8, ExceptSeq DEF Interrupt
<1>9. CASE UNCHANGED vars
  BY <1>9 DEF vars
<1> QED
  BY <1>1, <1>2, <1>3, <1>4, <1>5, <1>6, <1>7, <1>8, <1>9 DEF Next, Step

\* A step keeps the count positive exactly while the lock is owned.
LEMMA OwnerCountStep == ASSUME LockInv, [Next]_vars PROVE OwnerCount'
<1> USE LockAssumption DEF LockInv, TypeOK, OwnerCount
<1>1. ASSUME NEW t \in Threads, Step(t) PROVE OwnerCount'
  BY <1>1 DEF Step, AcquireReentrant, AcquireFree, Enqueue, Take, Expire, GiveUp,
              Release, MayRelease, LastRelease, Interrupt
<1>2. CASE UNCHANGED vars
  BY <1>2 DEF vars
<1> QED BY <1>1, <1>2 DEF Next

\* No entry but `none` occurs twice.
Distinct(s, none) ==
  \A i, j \in 1 .. Len(s) : (s[i] = s[j] /\ s[i] # none) => i = j

\* r is s without its k-th entry.
Without(s, k, r) ==
  /\ Len(s) \in Nat /\ k \in 1 .. Len(s) /\ Len(r) = Len(s) - 1
  /\ \A i \in 1 .. Len(s) - 1 : r[i] = IF i < k THEN s[i] ELSE s[i + 1]

\* r holds the entries of s other than e.
AllBut(s, e, r) ==
  /\ \A i \in 1 .. Len(r) : r[i] # e
  /\ \A i \in 1 .. Len(s) : s[i] # e => \E j \in 1 .. Len(r) : r[j] = s[i]
  /\ \A i \in 1 .. Len(r) : \E j \in 1 .. Len(s) : s[j] = r[i]

\* Removing the one entry of a thread from a queue without repetitions leaves a
\* queue without repetitions that holds the same other entries.
LEMMA RemoveEntry ==
  ASSUME NEW s, NEW r, NEW none, NEW k,
         Distinct(s, none), Without(s, k, r), s[k] # none
  PROVE  Distinct(r, none) /\ AllBut(s, s[k], r)
<1> USE DEF Distinct, Without
<1> DEFINE at(i) == IF i < k THEN i ELSE i + 1
<1>0. Len(s) \in Nat /\ Len(r) \in Nat
  OBVIOUS
<1>1. \A i \in 1 .. Len(r) : at(i) \in 1 .. Len(s) /\ at(i) # k /\ r[i] = s[at(i)]
  BY <1>0
<1>2. \A i, j \in 1 .. Len(r) : at(i) = at(j) => i = j
  BY <1>0
<1>3. ASSUME NEW i \in 1 .. Len(s), i # k PROVE \E j \in 1 .. Len(r) : at(j) = i
  <2>1. CASE i < k
    <3>1. i \in 1 .. Len(r) /\ at(i) = i
      BY <1>0, <2>1
    <3> QED BY <3>1
  <2>2. CASE i > k
    <3>1. i - 1 \in 1 .. Len(r) /\ at(i - 1) = i
      BY <1>0, <2>2
    <3> QED BY <3>1
  <2> QED BY <1>0, <1>3, <2>1, <2>2
<1> HIDE DEF at
<1>4. \A i \in 1 .. Len(r) : r[i] # s[k]
  BY <1>1
<1>5. \A i, j \in 1 .. Len(r) : (r[i] = r[j] /\ r[i] # none) => i = j
  BY <1>1, <1>2
<1>6. \A i \in 1 .. Len(s) : i # k => \E j \in 1 .. Len(r) : r[j] = s[i]
  BY <1>1, <1>3
<1> QED BY <1>1, <1>4, <1>5, <1>6 DEF AllBut

\* GiveUp removes exactly the entry of its thread.
LEMMA GiveUpRemoves ==
  ASSUME TypeOK, NEW t \in Threads, GiveUp(t)
  PROVE  \E k \in 1 .. Len(waiters) : waiters[k] = t /\ Without(waiters, k, waiters')
<1>1. PICK k \in 1 .. Len(waiters) : waiters[k] = t /\ waiters' = RemoveAt(waiters, k)
  BY DEF GiveUp
<1>2. waiters \in Seq(Threads \cup {NoThread})
  BY DEF TypeOK
<1>3. Len(waiters) \in Nat
  BY <1>2, LenProperties
<1>4. Without(waiters, k, waiters')
  BY <1>1, <1>2, <1>3, RemoveAtProperties DEF Without
<1> QED BY <1>1, <1>4

\* So does Take, whose thread is in front.
LEMMA TakeRemoves ==
  ASSUME TypeOK, NEW t \in Threads, Take(t)
  PROVE  1 \in 1 .. Len(waiters) /\ waiters[1] = t /\ Without(waiters, 1, waiters')
<1>1. waiters \in Seq(Threads \cup {NoThread}) /\ waiters # <<>> /\ waiters' = Tail(waiters)
  BY DEF TypeOK, Take, MayTake
<1>2. Len(waiters) \in Nat /\ 1 \in 1 .. Len(waiters) /\ waiters[1] = t
  BY <1>1, LenProperties DEF Take, MayTake
<1> QED BY <1>1, <1>2, HeadTailProperties DEF Without

\* A step keeps the queue and the places of the threads in agreement.
LEMMA QueueStep == ASSUME LockInv, [Next]_vars PROVE QueueIsWaiters'
<1> USE LockAssumption DEF LockInv, TypeOK, Places, QueueIsWaiters
<1>0. Len(waiters) \in Nat
  BY LenProperties
<1>a. Distinct(waiters, NoThread)
  BY DEF Distinct
<1>b. \A t \in Threads : t # NoThread
  OBVIOUS
<1>1. ASSUME NEW t \in Threads, AcquireReentrant(t) PROVE QueueIsWaiters'
  BY <1>1 DEF AcquireReentrant
<1>2. ASSUME NEW t \in Threads, AcquireFree(t) PROVE QueueIsWaiters'
  <2>1. \A u \in Threads : pc[u] = "out"
    BY <1>2 DEF AcquireFree
  <2> QED BY <1>2, <2>1 DEF AcquireFree
<1>3. ASSUME NEW t \in Threads, NEW d \in BOOLEAN, Enqueue(t, d) PROVE QueueIsWaiters'
  <2>1. /\ Len(waiters') = Len(waiters) + 1
        /\ \A i \in 1 .. Len(waiters) : waiters'[i] = waiters[i]
        /\ waiters'[Len(waiters) + 1] = t
    BY <1>3, AppendProperties DEF Enqueue
  <2>2. \A i \in 1 .. Len(waiters) : waiters[i] # t
    BY <1>3 DEF Enqueue
  <2> QED BY <1>0, <1>3, <2>1, <2>2 DEF Enqueue
<1>4. ASSUME NEW t \in Threads, Take(t) PROVE QueueIsWaiters'
  <2>1. /\ waiters # <<>> /\ waiters[1] = t /\ waiters' = Tail(waiters)
        /\ owner' = t /\ pc' = [pc EXCEPT ![t] = "out"]
    BY <1>4 DEF Take, MayTake
  <2>2. Without(waiters, 1, waiters')
    BY <1>0, <2>1, HeadTailProperties DEF Without
  <2>3. Distinct(waiters', NoThread) /\ AllBut(waiters, t, waiters')
    BY <1>a, <2>1, <2>2, RemoveEntry
  <2>4. \A u \in Threads : u # t => pc'[u] = pc[u]
    BY <2>1
  <2>5. pc'[t] = "out"
    BY <2>1
  <2>6. ASSUME NEW u \in Threads
        PROVE  pc'[u] # "out" <=> \E i \in 1 .. Len(waiters') : waiters'[i] = u
    <3>1. CASE u = t
      <4>1. \A i \in 1 .. Len(waiters') : waiters'[i] # t
        BY <2>3 DEF AllBut
      <4> HIDE DEF LockInv, TypeOK, QueueIsWaiters
      <4> QED BY <2>5, <3>1, <4>1
    <3>2. CASE u # t
      <4>1. pc[u] # "out" <=> \E i \in 1 .. Len(waiters) : waiters[i] = u
        OBVIOUS
      <4> HIDE DEF LockInv, TypeOK, QueueIsWaiters
      <4>2. ASSUME NEW i \in 1 .. Len(waiters), waiters[i] = u
            PROVE  \E j \in 1 .. Len(waiters') : waiters'[j] = u
        BY <2>3, <3>2, <4>2 DEF AllBut
      <4>3. ASSUME NEW i \in 1 .. Len(waiters'), waiters'[i] = u
            PROVE  \E j \in 1 .. Len(waiters) : waiters[j] = u
        BY <2>3, <4>3 DEF AllBut
      <4>4. pc'[u] = pc[u]
        BY <2>4, <3>2
      <4> QED BY <4>1, <4>2, <4>3, <4>4
    <3> QED BY <3>1, <3>2
  <2>7. ASSUME NEW u \in Threads, pc'[u] # "out" PROVE owner' # u
    BY <2>1, <2>5, <2>7
  <2>8. \A i, j \in 1 .. Len(waiters') :
          (waiters'[i] = waiters'[j] /\ waiters'[i] # NoThread) => i = j
    BY <2>3 DEF Distinct
  <2> QED BY <2>6, <2>7, <2>8
<1>5. ASSUME NEW t \in Threads, Expire(t) PROVE QueueIsWaiters'
  BY <1>5 DEF Expire
<1>6. ASSUME NEW t \in Threads, GiveUp(t) PROVE QueueIsWaiters'
  <2>1. PICK k \in 1 .. Len(waiters) : waiters[k] = t /\ Without(waiters, k, waiters')
    BY <1>6, GiveUpRemoves
  <2>4. Distinct(waiters', NoThread) /\ AllBut(waiters, t, waiters')
    BY <1>a, <1>b, <2>1, RemoveEntry
  <2>5. owner' = owner /\ pc' = [pc EXCEPT ![t] = "out"]
    BY <1>6 DEF GiveUp
  <2>6. ASSUME NEW u \in Threads
        PROVE  pc'[u] # "out" <=> \E i \in 1 .. Len(waiters') : waiters'[i] = u
    <3>1. CASE u = t
      BY <2>4, <2>5, <3>1 DEF AllBut
    <3>2. CASE u # t
      <4>1. pc'[u] = pc[u] /\ (pc[u] # "out" <=> \E i \in 1 .. Len(waiters) : waiters[i] = u)
        BY <2>5, <3>2
      <4>2. (\E i \in 1 .. Len(waiters) : waiters[i] = u)
              <=> (\E i \in 1 .. Len(waiters') : waiters'[i] = u)
        <5> HIDE DEF LockInv, TypeOK, QueueIsWaiters
        <5> QED BY <2>4, <3>2 DEF AllBut
      <4> QED BY <4>1, <4>2
    <3> QED BY <3>1, <3>2
  <2>7. \A u \in Threads : pc'[u] # "out" => owner' # u
    BY <2>5
  <2> QED BY <2>4, <2>6, <2>7 DEF Distinct
<1>7. ASSUME NEW t \in Threads, Release(t) PROVE QueueIsWaiters'
  <2>1. waiters' = waiters /\ owner' \in {owner, NoThread}
    BY <1>7 DEF Release, MayRelease
  <2>2. ASSUME NEW u \in Threads PROVE pc'[u] = "out" <=> pc[u] = "out"
    BY <1>7 DEF Release, Notified
  <2>3. \A u \in Threads : owner' = u => owner = u
    BY <1>b, <2>1
  <2>4. \A u \in Threads : pc'[u] # "out" <=> pc[u] # "out"
    BY <2>2
  <2>5. QueueIsWaiters
    OBVIOUS
  <2> HIDE DEF LockInv, TypeOK
  <2> QED BY <2>1, <2>3, <2>4, <2>5
<1>8. ASSUME NEW t \in Threads, Interrupt(t) PROVE QueueIsWaiters'
  <2>1. PICK k \in 1 .. Len(waiters) :
          waiters[k] = t /\ waiters' = [waiters EXCEPT ![k] = NoThread]
    BY <1>8 DEF Interrupt
  <2>2. /\ Len(waiters') = Len(waiters)
        /\ \A i \in 1 .. Len(waiters) :
             waiters'[i] = IF i = k THEN NoThread ELSE waiters[i]
    BY <2>1, ExceptSeq
  <2>3. owner' = owner /\ pc' = [pc EXCEPT ![t] = "out"]
    BY <1>8 DEF Interrupt
  <2>4. \A i \in 1 .. Len(waiters) : i # k => waiters[i] # t
    BY <1>b, <2>1
  <2>5. \A u \in Threads : (\E i \in 1 .. Len(waiters') : waiters'[i] = u)
                             <=> (u # t /\ \E i \in 1 .. Len(waiters) : waiters[i] = u)
    BY <1>b, <2>1, <2>2, <2>4
  <2>6. Distinct(waiters', NoThread)
    BY <1>a, <2>2 DEF Distinct
  <2> QED BY <2>3, <2>5, <2>6 DEF Distinct
<1>9. CASE UNCHANGED vars
  BY <1>9 DEF vars
<1> QED
  BY <1>1, <1>2, <1>3, <1>4, <1>5, <1>6, <1>7, <1>8, <1>9 DEF Next, Step

\* A step leaves every notified thread in front of a free lock.
LEMMA WokenStep == ASSUME LockInv, [Next]_vars PROVE WokenMayTake'
<1> USE LockAssumption DEF LockInv, TypeOK, Places, WokenMayTake, MayTake
<1>0. Len(waiters) \in Nat /\ waiters' \in Seq(Threads \cup {NoThread})
  BY LenProperties, TypeStep
<1>1. ASSUME NEW t \in Threads, AcquireReentrant(t) PROVE WokenMayTake'
  BY <1>1 DEF AcquireReentrant
<1>2. ASSUME NEW t \in Threads, AcquireFree(t) PROVE WokenMayTake'
  BY <1>2 DEF AcquireFree
<1>3. ASSUME NEW t \in Threads, NEW d \in BOOLEAN, Enqueue(t, d) PROVE WokenMayTake'
  BY <1>0, <1>3, AppendProperties DEF Enqueue
<1>4. ASSUME NEW t \in Threads, Take(t) PROVE WokenMayTake'
  BY <1>4 DEF Take
<1>5. ASSUME NEW t \in Threads, Expire(t) PROVE WokenMayTake'
  BY <1>5 DEF Expire
<1>6. ASSUME NEW t \in Threads, GiveUp(t) PROVE WokenMayTake'
  <2>1. PICK k \in 1 .. Len(waiters) : waiters[k] = t /\ Without(waiters, k, waiters')
    BY <1>6, GiveUpRemoves
  <2>2. /\ Len(waiters') = Len(waiters) - 1
        /\ \A i \in 1 .. Len(waiters) - 1 :
             waiters'[i] = IF i < k THEN waiters[i] ELSE waiters[i + 1]
    BY <2>1 DEF Without
  <2>3. ASSUME NEW u \in Threads, pc'[u] = "woken" PROVE MayTake(u)'
    <3>1. u # t /\ MayTake(u)
      BY <1>6, <2>3 DEF GiveUp
    <3>2. k > 1
      BY <3>1, <2>1
    <3> QED BY <1>0, <1>6, <2>2, <3>1, <3>2 DEF GiveUp
  <2> QED BY <2>3
<1>7. ASSUME NEW t \in Threads, Release(t) PROVE WokenMayTake'
  BY <1>7 DEF Release, MayRelease, LastRelease, Notified
<1>8. ASSUME NEW t \in Threads, Interrupt(t) PROVE WokenMayTake'
  <2>1. PICK k \in 1 .. Len(waiters) :
          waiters[k] = t /\ waiters' = [waiters EXCEPT ![k] = NoThread]
    BY <1>8 DEF Interrupt
  <2>2. /\ Len(waiters') = Len(waiters)
        /\ \A i \in 1 .. Len(waiters) :
             waiters'[i] = IF i = k THEN NoThread ELSE waiters[i]
    BY <2>1, ExceptSeq
  <2> QED BY <1>0, <1>8, <2>1, <2>2 DEF Interrupt
<1>9. CASE UNCHANGED vars
  BY <1>9 DEF vars
<1> QED
  BY <1>1, <1>2, <1>3, <1>4, <1>5, <1>6, <1>7, <1>8, <1>9 DEF Next, Step

\* Every step keeps the invariant.
LEMMA LockInvStep == LockInv /\ [Next]_vars => LockInv'
BY TypeStep, OwnerCountStep, QueueStep, WokenStep DEF LockInv

\* The invariant holds always.
LEMMA LockInvariant == Spec => []LockInv
BY LockInvInit, LockInvStep, PTL DEF Spec

-----------------------------------------------------------------------------
\* Every field keeps its type, whatever the threads do.
THEOREM TypeCorrect == Spec => []TypeOK
BY LockInvariant, PTL DEF LockInv

\* The count is positive exactly while the lock is held: the assertion in
\* release() never fails.
THEOREM CountCorrect == Spec => []OwnerCount
BY LockInvariant, PTL DEF LockInv

\* Nobody queues twice, owns and queues at once, or waits without being queued.
THEOREM QueueCorrect == Spec => []QueueIsWaiters
BY LockInvariant, PTL DEF LockInv

\* A notified thread always finds the lock free and itself in front.
THEOREM NoBarging == Spec => []WokenMayTake
BY LockInvariant, PTL DEF LockInv

\* Steps abandon no condition silently, and one that is abandoned stays in the queue.
LEMMA AbandonedStays ==
  ASSUME LockInv, [Next]_vars, Abandoned' = {}
  PROVE  Abandoned = {} /\ \A t \in Threads : ~ Interrupt(t)
<1> USE LockAssumption DEF LockInv
<1>0. Len(waiters) \in Nat /\ Len(waiters') \in Nat /\ Distinct(waiters, NoThread)
  BY LenProperties, TypeStep DEF TypeOK, QueueIsWaiters, Distinct
<1>1. \A i \in 1 .. Len(waiters') : waiters'[i] # NoThread
  BY DEF Abandoned
<1>2. ASSUME NEW t \in Threads, Interrupt(t) PROVE FALSE
  <2>1. PICK k \in 1 .. Len(waiters) : waiters' = [waiters EXCEPT ![k] = NoThread]
    BY <1>2 DEF Interrupt
  <2>2. k \in 1 .. Len(waiters') /\ waiters'[k] = NoThread
    BY <2>1, ExceptSeq DEF TypeOK
  <2> QED BY <1>1, <2>2
<1>3. ASSUME NEW t \in Threads, NEW k \in 1 .. Len(waiters),
             waiters[k] = t, Without(waiters, k, waiters')
      PROVE  Abandoned = {}
  <2>1. t # NoThread
    OBVIOUS
  <2>2. AllBut(waiters, t, waiters')
    BY <1>0, <1>3, <2>1, RemoveEntry
  <2> QED BY <1>1, <2>1, <2>2 DEF AllBut, Abandoned
<1>4. ASSUME NEW t \in Threads, NEW d \in BOOLEAN, Enqueue(t, d) PROVE Abandoned = {}
  <2>1. /\ Len(waiters') = Len(waiters) + 1
        /\ \A i \in 1 .. Len(waiters) : waiters'[i] = waiters[i]
    BY <1>4, AppendProperties DEF Enqueue, TypeOK
  <2> QED BY <1>0, <1>1, <2>1 DEF Abandoned
<1>5. ASSUME NEW t \in Threads,
             \/ AcquireReentrant(t) \/ AcquireFree(t) \/ Expire(t) \/ Release(t)
      PROVE  Abandoned = {}
  <2>1. waiters' = waiters
    BY <1>5 DEF AcquireReentrant, AcquireFree, Expire, Release
  <2> QED BY <1>1, <2>1 DEF Abandoned
<1>6. ASSUME NEW t \in Threads, Take(t) PROVE Abandoned = {}
  BY <1>3, <1>6, TakeRemoves
<1>7. ASSUME NEW t \in Threads, GiveUp(t) PROVE Abandoned = {}
  BY <1>3, <1>7, GiveUpRemoves
<1>8. ASSUME UNCHANGED vars PROVE Abandoned = {}
  BY <1>1, <1>8 DEF vars, Abandoned
<1>9. Abandoned = {}
  BY <1>2, <1>4, <1>5, <1>6, <1>7, <1>8 DEF Next, Step
<1> QED BY <1>2, <1>9

(***************************************************************************)
(* As long as no condition is abandoned no wake-up is lost.  The release   *)
(* that frees the lock notifies the front; after that the front can only   *)
(* leave by taking the lock, because a thread that timed out tries the     *)
(* lock before it gives up.                                                *)
(***************************************************************************)
THEOREM WakeupsArrive == Spec => []NoLostWakeup
<1> DEFINE Inv == LockInv /\ NoLostWakeup
<1>1. Init => Inv
  BY LockInvInit DEF Init, NoLostWakeup
<1>2. Inv /\ [Next]_vars => Inv'
  <2> SUFFICES ASSUME Inv, [Next]_vars, Abandoned' = {}
                 PROVE  NoLostWakeup'
    BY LockInvStep DEF NoLostWakeup
  <2>a. Abandoned = {} /\ \A t \in Threads : ~ Interrupt(t)
    BY AbandonedStays
  <2>b. Abandoned = {}
    BY <2>a
  <2> USE <2>b DEF LockInv, TypeOK, Places, NoLostWakeup
  <2>0. Len(waiters) \in Nat /\ waiters' \in Seq(Threads \cup {NoThread})
    BY LenProperties, TypeStep
  <2>1. \A i \in 1 .. Len(waiters) : waiters[i] \in Threads
    BY <2>a DEF Abandoned
  <2>2. ASSUME NEW t \in Threads, AcquireReentrant(t) PROVE NoLostWakeup'
    BY <2>2 DEF AcquireReentrant
  <2>3. ASSUME NEW t \in Threads, AcquireFree(t) PROVE NoLostWakeup'
    BY <2>3 DEF AcquireFree
  <2>4. ASSUME NEW t \in Threads, NEW d \in BOOLEAN, Enqueue(t, d) PROVE NoLostWakeup'
    BY <2>0, <2>4 DEF Enqueue
  <2>5. ASSUME NEW t \in Threads, Take(t) PROVE NoLostWakeup'
    BY <2>5, LockAssumption DEF Take
  <2>6. ASSUME NEW t \in Threads, Expire(t) PROVE NoLostWakeup'
    BY <2>6 DEF Expire
  <2>7. ASSUME NEW t \in Threads, GiveUp(t), owner = NoThread, waiters' # <<>>
        PROVE  NoLostWakeup'
    <3>1. PICK k \in 1 .. Len(waiters) : waiters[k] = t /\ Without(waiters, k, waiters')
      BY <2>7, GiveUpRemoves
    <3>2. waiters # <<>> /\ k # 1
      BY <2>0, <2>7, <3>1 DEF GiveUp, MayTake
    <3>3. Head(waiters') = Head(waiters)
      BY <2>0, <2>7, <3>1, <3>2 DEF Without
    <3>4. Head(waiters) # t
      BY <2>7, <3>2 DEF GiveUp, MayTake
    <3> QED BY <2>7, <3>2, <3>3, <3>4 DEF GiveUp
  <2>8. ASSUME NEW t \in Threads, Release(t), LastRelease, waiters # <<>>
        PROVE  NoLostWakeup'
    <3>1. Head(waiters) \in Threads /\ Head(waiters) = waiters[1] /\ 1 \in 1 .. Len(waiters)
      BY <2>0, <2>1, <2>8
    <3>2. pc[Head(waiters)] # "out"
      BY <3>1 DEF QueueIsWaiters
    <3>3. pc'[Head(waiters)] \in {"woken", "expired"}
      BY <2>8, <3>1, <3>2 DEF Release, Notified
    <3> QED BY <2>8, <3>1, <3>3 DEF Release
  <2>9. CASE UNCHANGED vars
    BY <2>9 DEF vars
  <2> QED
    BY <2>a, <2>2, <2>3, <2>4, <2>5, <2>6, <2>7, <2>8, <2>9
    DEF Next, Step, GiveUp, Release
<1> QED BY <1>1, <1>2, PTL DEF Spec

-----------------------------------------------------------------------------
\* Removing the k-th entry keeps the order of any two others.
LEMMA WithoutKeepsOrder ==
  ASSUME NEW s, NEW r, NEW k, Without(s, k, r),
         NEW i \in 1 .. Len(s), NEW j \in 1 .. Len(s), i < j, i # k, j # k
  PROVE  \E a, b \in 1 .. Len(r) : a < b /\ r[a] = s[i] /\ r[b] = s[j]
<1> DEFINE a == IF i < k THEN i ELSE i - 1
           b == IF j < k THEN j ELSE j - 1
<1>1. a \in 1 .. Len(r) /\ b \in 1 .. Len(r) /\ a < b
  BY DEF Without
<1>2. r[a] = s[i]
  BY DEF Without
<1>3. r[b] = s[j]
  BY DEF Without
<1> HIDE DEF a, b
<1> QED BY <1>1, <1>2, <1>3

(***************************************************************************)
(* First in, first out: the thread that gets the lock asked for it before  *)
(* every thread still queueing, and the queue never reorders two threads.  *)
(***************************************************************************)
THEOREM FirstInFirstOut == Spec => FIFOOrder
<1> DEFINE Ordered(t, u) ==
      /\ (owner # t /\ owner' = t /\ u # t /\ pc[u] # "out") => Before(t, u)
      /\ (Before(t, u) /\ pc'[t] # "out" /\ pc'[u] # "out") => Before(t, u)'
<1>1. ASSUME LockInv, [Next]_vars, NEW t \in Threads, NEW u \in Threads
      PROVE  Ordered(t, u)
  <2> USE LockAssumption
  <2>0. TypeOK /\ QueueIsWaiters /\ Len(waiters) \in Nat
    BY <1>1, LenProperties DEF LockInv, TypeOK
  <2>1. ASSUME NEW v \in Threads,
               \/ AcquireReentrant(v) \/ AcquireFree(v) \/ Expire(v) \/ Release(v)
        PROVE  Ordered(t, u)
    <3>1. waiters' = waiters
      BY <2>1 DEF AcquireReentrant, AcquireFree, Expire, Release
    <3>2. (owner # t /\ owner' = t) => waiters = <<>>
      BY <2>1 DEF AcquireReentrant, AcquireFree, Expire, Release
    <3>3. waiters = <<>> => pc[u] = "out"
      BY <2>0 DEF QueueIsWaiters
    <3>4. Before(t, u) => Before(t, u)'
      BY <3>1 DEF Before
    <3> QED BY <3>2, <3>3, <3>4
  <2>2. ASSUME NEW v \in Threads, NEW d \in BOOLEAN, Enqueue(v, d) PROVE Ordered(t, u)
    <3>1. owner' = owner /\ waiters' = Append(waiters, v)
      BY <2>2 DEF Enqueue
    <3>2. /\ Len(waiters') = Len(waiters) + 1
          /\ \A i \in 1 .. Len(waiters) : waiters'[i] = waiters[i]
      BY <2>0, <3>1, AppendProperties DEF TypeOK
    <3> QED BY <2>0, <3>1, <3>2 DEF Before
  <2>3. ASSUME NEW v \in Threads, Take(v) PROVE Ordered(t, u)
    <3>1. 1 \in 1 .. Len(waiters) /\ waiters[1] = v /\ Without(waiters, 1, waiters')
      BY <2>0, <2>3, TakeRemoves
    <3>2. owner' = v /\ pc' = [pc EXCEPT ![v] = "out"]
      BY <2>3 DEF Take
    <3>3. ASSUME owner' = t, u # t, pc[u] # "out" PROVE Before(t, u)
      <4>1. PICK i \in 1 .. Len(waiters) : waiters[i] = u
        BY <2>0, <3>3 DEF QueueIsWaiters
      <4> QED BY <2>0, <3>1, <3>2, <3>3, <4>1 DEF Before
    <3>4. ASSUME Before(t, u), pc'[t] # "out", pc'[u] # "out" PROVE Before(t, u)'
      <4>1. PICK i, j \in 1 .. Len(waiters) : i < j /\ waiters[i] = t /\ waiters[j] = u
        BY <3>4 DEF Before
      <4>2. i # 1 /\ j # 1
        BY <2>0, <3>1, <3>2, <3>4, <4>1 DEF TypeOK
      <4>3. \E a, b \in 1 .. Len(waiters') :
               a < b /\ waiters'[a] = waiters[i] /\ waiters'[b] = waiters[j]
        <5>1. Without(waiters, 1, waiters')
          BY <3>1
        <5> QED BY <4>1, <4>2, <5>1, WithoutKeepsOrder
      <4> QED BY <4>1, <4>3 DEF Before
    <3> QED BY <3>3, <3>4
  <2>4. ASSUME NEW v \in Threads, GiveUp(v) PROVE Ordered(t, u)
    <3>1. PICK k \in 1 .. Len(waiters) : waiters[k] = v /\ Without(waiters, k, waiters')
      BY <2>0, <2>4, GiveUpRemoves
    <3>2. owner' = owner /\ pc' = [pc EXCEPT ![v] = "out"]
      BY <2>4 DEF GiveUp
    <3>4. ASSUME Before(t, u), pc'[t] # "out", pc'[u] # "out" PROVE Before(t, u)'
      <4>1. PICK i, j \in 1 .. Len(waiters) : i < j /\ waiters[i] = t /\ waiters[j] = u
        BY <3>4 DEF Before
      <4>2. i # k /\ j # k
        BY <2>0, <3>1, <3>2, <3>4, <4>1 DEF TypeOK
      <4>3. \E a, b \in 1 .. Len(waiters') :
               a < b /\ waiters'[a] = waiters[i] /\ waiters'[b] = waiters[j]
        BY <3>1, <4>1, <4>2, WithoutKeepsOrder
      <4> QED BY <4>1, <4>3 DEF Before
    <3> QED BY <3>2, <3>4
  <2>5. ASSUME NEW v \in Threads, Interrupt(v) PROVE Ordered(t, u)
    <3>1. PICK k \in 1 .. Len(waiters) :
            waiters[k] = v /\ waiters' = [waiters EXCEPT ![k] = NoThread]
      BY <2>5 DEF Interrupt
    <3>2. /\ Len(waiters') = Len(waiters)
          /\ \A i \in 1 .. Len(waiters) : i # k => waiters'[i] = waiters[i]
      BY <2>0, <3>1, ExceptSeq DEF TypeOK
    <3>3. owner' = owner /\ pc' = [pc EXCEPT ![v] = "out"]
      BY <2>5 DEF Interrupt
    <3>4. ASSUME Before(t, u), pc'[t] # "out", pc'[u] # "out" PROVE Before(t, u)'
      <4>1. PICK i, j \in 1 .. Len(waiters) : i < j /\ waiters[i] = t /\ waiters[j] = u
        BY <3>4 DEF Before
      <4>2. i # k /\ j # k
        BY <2>0, <3>1, <3>3, <3>4, <4>1 DEF TypeOK
      <4> QED BY <3>2, <4>1, <4>2 DEF Before
    <3> QED BY <3>3, <3>4
  <2>6. CASE UNCHANGED vars
    BY <2>6 DEF vars, Before
  <2> HIDE DEF Ordered
  <2> QED BY <1>1, <2>1, <2>2, <2>3, <2>4, <2>5, <2>6 DEF Next, Step
<1>2. LockInv /\ [Next]_vars => [\A t, u \in Threads : Ordered(t, u)]_vars
  BY <1>1
<1> QED BY <1>2, LockInvariant, PTL DEF Spec, FIFOOrder
=============================================================================
