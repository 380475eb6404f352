-------------------------- MODULE CallManagerProofs --------------------------
(***************************************************************************)
(* Theorems about CallManager, for any number of threads and permits, any  *)
(* interval and any pattern of failures, with threads switching anywhere,  *)
(* inside _open_circuit too.  And, at the end, about the app's other       *)
(* threads, those of its tasks.                                            *)
(***************************************************************************)
EXTENDS CallManager, FiniteSetTheorems, TLAPS

Holding == {c \in Callers : pc[c] \in Inside}
Sleeping == {c \in Callers : pc[c] = "sleeping"}
Late(n) == {c \in Sleeping : left[c] > n}

(***************************************************************************)
(* The inductive invariant.  next_allowed_at is never further away than    *)
(* the threads that sleep for it account for: beyond any time n to come    *)
(* there is one interval per thread that sleeps beyond n, and one more     *)
(* (Slots).  The attempts made and the slots handed out but not yet used   *)
(* are at most what next_allowed_at has moved by, and one slot for each    *)
(* permit (Ledger).  Both need only that a sleeper holds a permit.         *)
(***************************************************************************)
Typed == /\ pc \in [Callers -> Outside \cup Inside \cup {"queued"}]
         /\ left \in [Callers -> Nat]
         /\ permits \in Nat /\ nextIn \in Nat /\ level \in Nat

Slots == \A n \in Nat : nextIn - n <= MinInterval * (Cardinality(Late(n)) + 1)
Ledger == level + MinInterval * Cardinality(Sleeping) <= nextIn + MinInterval * Concurrency

PacingInv == Typed /\ PermitsKept /\ Slots /\ Ledger

\* The settings are numbers, and reserved slots are a multiple of the interval apart.
LEMMA Numbers ==
  /\ MinInterval \in Nat /\ Concurrency \in Nat /\ Delays \subseteq Nat /\ OpenFor \in Nat
  /\ \A i, j \in Nat : i <= j => MinInterval * i <= MinInterval * j
  /\ \A i \in Nat : /\ MinInterval * (i + 1) = MinInterval * i + MinInterval
                    /\ MinInterval * i \in Nat
<1>1. MinInterval \in Nat /\ Concurrency \in Nat /\ Delays \subseteq Nat /\ OpenFor \in Nat
  BY CallAssumption
<1>2. ASSUME NEW i \in Nat, NEW j \in Nat, i <= j PROVE MinInterval * i <= MinInterval * j
  BY <1>1, <1>2
<1>3. ASSUME NEW i \in Nat
      PROVE  MinInterval * (i + 1) = MinInterval * i + MinInterval /\ MinInterval * i \in Nat
  BY <1>1, <1>3
<1> QED BY <1>1, <1>2, <1>3

\* The sets of threads are finite, and a sleeper holds a permit.
LEMMA Finite ==
  /\ IsFiniteSet(Holding) /\ IsFiniteSet(Sleeping)
  /\ Cardinality(Holding) \in Nat /\ Cardinality(Sleeping) \in Nat
  /\ Cardinality(Sleeping) <= Cardinality(Holding)
  /\ \A n \in Nat : /\ IsFiniteSet(Late(n)) /\ Cardinality(Late(n)) \in Nat
                    /\ Cardinality(Late(n)) <= Cardinality(Sleeping)
<1>1. IsFiniteSet(Holding) /\ Sleeping \subseteq Holding
  BY CallAssumption, FS_Subset DEF Holding, Sleeping, Inside
<1>2. IsFiniteSet(Sleeping) /\ Cardinality(Sleeping) <= Cardinality(Holding)
  BY <1>1, FS_Subset
<1>3. ASSUME NEW n \in Nat
      PROVE  IsFiniteSet(Late(n)) /\ Cardinality(Late(n)) <= Cardinality(Sleeping)
  <2>1. Late(n) \subseteq Sleeping
    BY DEF Late
  <2> QED BY <1>2, <2>1, FS_Subset
<1> QED BY <1>1, <1>2, <1>3, FS_CardinalityType

\* The invariant of the pacing holds before the first call.
LEMMA PacingInit == Init => PacingInv
<1> SUFFICES ASSUME Init PROVE PacingInv
  OBVIOUS
<1>1. Holding = {} /\ Sleeping = {} /\ \A n \in Nat : Late(n) = {}
  BY DEF Init, Holding, Sleeping, Late, Inside
<1>2. Cardinality(Holding) = 0 /\ Cardinality(Sleeping) = 0
      /\ \A n \in Nat : Cardinality(Late(n)) = 0
  BY <1>1, FS_EmptySet
<1>3. Typed
  BY Numbers DEF Init, Typed, Outside
<1>4. PermitsKept
  BY <1>2, Numbers DEF Init, PermitsKept, Holding
<1>5. Slots /\ Ledger
  BY <1>2, Numbers DEF Init, Slots, Ledger
<1> QED BY <1>3, <1>4, <1>5 DEF PacingInv

\* A step in which the sets of holders and sleepers stay as they are.
LEMMA StaysStep ==
  ASSUME PacingInv, Typed', Holding' = Holding, Sleeping' = Sleeping,
         \A c \in Sleeping : left'[c] = left[c],
         UNCHANGED <<permits, nextIn, level>>
  PROVE  PacingInv'
<1>1. \A n \in Nat : Late(n)' = Late(n)
  BY DEF Late
<1> QED BY <1>1 DEF PacingInv, PermitsKept, Holding, Slots, Ledger

\* A thread leaves a call, whatever its outcome, and gives its permit back.
LEMMA LeaveStep ==
  ASSUME PacingInv, NEW c \in Callers, pc[c] \in {"trying", "recording"},
         NEW outcome \in Outside, Leave(c, outcome), UNCHANGED <<left, nextIn, level>>
  PROVE  PacingInv'
<1> USE DEF PacingInv
<1>1. pc' = [pc EXCEPT ![c] = outcome] /\ permits' = permits + 1
  BY DEF Leave, Goes
<1>2. Typed'
  BY <1>1 DEF Typed
<1>3. Holding' = Holding \ {c} /\ c \in Holding /\ Sleeping' = Sleeping
  BY <1>1 DEF Typed, Holding, Sleeping, Inside, Outside
<1>4. Cardinality(Holding') = Cardinality(Holding) - 1
  BY <1>3, Finite, FS_RemoveElement
<1>5. PermitsKept'
  BY <1>1, <1>4, Finite DEF PermitsKept, Holding, Typed
<1>6. \A n \in Nat : Late(n)' = Late(n)
  BY <1>3 DEF Late
<1> QED BY <1>2, <1>3, <1>5, <1>6 DEF Slots, Ledger

\* A thread reserves the next slot.
LEMMA ReserveStep ==
  ASSUME PacingInv, NEW c \in Callers, Reserve(c)
  PROVE  PacingInv'
<1> USE Numbers DEF PacingInv
<1>1. /\ pc[c] = "queued" /\ permits > 0 /\ permits' = permits - 1
      /\ pc' = [pc EXCEPT ![c] = "sleeping"] /\ left' = [left EXCEPT ![c] = nextIn]
      /\ nextIn' = nextIn + MinInterval /\ level' = level
  BY DEF Reserve, MayEnter, Goes, history
<1>2. Typed'
  BY <1>1 DEF Typed, Inside
<1>3. /\ Holding' = Holding \cup {c} /\ c \notin Holding
      /\ Sleeping' = Sleeping \cup {c} /\ c \notin Sleeping
  BY <1>1 DEF Typed, Holding, Sleeping, Inside
<1>4. /\ Cardinality(Holding') = Cardinality(Holding) + 1
      /\ Cardinality(Sleeping') = Cardinality(Sleeping) + 1
  BY <1>3, Finite, FS_AddElement
<1>5. PermitsKept'
  BY <1>1, <1>4, Finite DEF PermitsKept, Holding, Typed
<1>6. Ledger'
  BY <1>1, <1>4, Finite DEF Ledger, Typed
<1>7. ASSUME NEW n \in Nat
      PROVE  nextIn' - n <= MinInterval * (Cardinality(Late(n)') + 1)
  <2>1. CASE nextIn > n
    <3>1. Late(n)' = Late(n) \cup {c} /\ c \notin Late(n)
      BY <1>1, <1>3, <2>1 DEF Late, Typed
    <3>2. Cardinality(Late(n)') = Cardinality(Late(n)) + 1
      BY <3>1, Finite, FS_AddElement
    <3> QED BY <1>1, <3>2, Finite DEF Slots, Typed
  <2>2. CASE nextIn <= n
    <3>1. Late(n)' = Late(n)
      BY <1>1, <1>3, <2>2 DEF Late, Typed
    <3> QED BY <1>1, <2>2, <3>1, Finite DEF Typed
  <2> QED BY <2>1, <2>2 DEF Typed
<1> QED BY <1>2, <1>5, <1>6, <1>7 DEF Slots

\* A thread wakes up and calls.
LEMMA StartStep ==
  ASSUME PacingInv, NEW c \in Callers, Start(c)
  PROVE  PacingInv'
<1> USE Numbers DEF PacingInv
<1>1. /\ pc[c] = "sleeping" /\ left[c] = 0 /\ pc' = [pc EXCEPT ![c] = "trying"]
      /\ level' = level + MinInterval
      /\ UNCHANGED <<left, permits, nextIn>>
  BY DEF Start, Goes, provider
<1>2. Typed'
  BY <1>1 DEF Typed, Inside
<1>3. /\ Holding' = Holding
      /\ Sleeping' = Sleeping \ {c} /\ c \in Sleeping
  BY <1>1 DEF Typed, Holding, Sleeping, Inside
<1>4. Cardinality(Sleeping') = Cardinality(Sleeping) - 1
  BY <1>3, Finite, FS_RemoveElement
<1>5. \A n \in Nat : Late(n)' = Late(n)
  BY <1>1, <1>3 DEF Late, Typed
<1>6. PermitsKept' /\ Slots'
  BY <1>1, <1>3, <1>5 DEF PermitsKept, Holding, Slots
<1>7. Ledger'
  <2> DEFINE s == Cardinality(Sleeping')
  <2>a. Cardinality(Sleeping) \in Nat /\ IsFiniteSet(Sleeping)
    BY Finite
  <2>b. IsFiniteSet(Sleeping')
    BY <2>a, <1>3, FS_RemoveElement
  <2>c. Cardinality(Sleeping') \in Nat
    BY <2>b, FS_CardinalityType
  <2>1. s \in Nat /\ Cardinality(Sleeping) = s + 1
    BY <1>4, <2>a, <2>c
  <2>2. MinInterval * (s + 1) = MinInterval * s + MinInterval /\ MinInterval * s \in Nat
    BY <2>1
  <2> HIDE DEF s
  <2> QED BY <1>1, <2>1, <2>2 DEF Ledger, Typed, s
<1> QED BY <1>2, <1>6, <1>7

\* Time passes: what was due beyond n + 1 is due beyond n.
LEMMA TickStep ==
  ASSUME PacingInv, Tick
  PROVE  PacingInv'
<1> USE Numbers DEF PacingInv
<1>1. /\ left' = [c \in Callers |-> IF left[c] > 0 THEN left[c] - 1 ELSE 0]
      /\ nextIn' = IF nextIn > 0 THEN nextIn - 1 ELSE 0
      /\ level' = IF level > 0 THEN level - 1 ELSE 0
      /\ UNCHANGED <<pc, permits>>
  BY DEF Tick
<1>2. Typed'
  BY <1>1 DEF Typed
<1>3. Holding' = Holding /\ Sleeping' = Sleeping
  BY <1>1 DEF Holding, Sleeping
<1>4. PermitsKept'
  BY <1>1, <1>3 DEF PermitsKept, Holding
<1>5. ASSUME NEW n \in Nat
      PROVE  nextIn' - n <= MinInterval * (Cardinality(Late(n)') + 1)
  <2>1. Late(n)' = Late(n + 1)
    BY <1>1, <1>3 DEF Late, Typed, Sleeping
  <2>2. nextIn - (n + 1) <= MinInterval * (Cardinality(Late(n + 1)) + 1)
    BY DEF Slots
  <2>3. MinInterval * (Cardinality(Late(n + 1)) + 1) \in Nat
    BY Finite
  <2> QED BY <1>1, <2>1, <2>2, <2>3 DEF Typed
<1>6. Ledger'
  <2> DEFINE due == MinInterval * Cardinality(Sleeping)
             most == MinInterval * Concurrency
  <2>1. Cardinality(Sleeping) <= Concurrency
    BY Finite DEF PermitsKept, Holding, Typed
  <2>2. due \in Nat /\ most \in Nat /\ due <= most
    BY <2>1, Finite
  <2>3. level + due <= nextIn + most
    BY DEF Ledger
  <2>4. level' + due <= nextIn' + most
    <3> HIDE DEF due, most
    <3> QED BY <1>1, <2>2, <2>3 DEF Typed
  <2> QED BY <1>3, <2>4 DEF Ledger
<1> QED BY <1>2, <1>4, <1>5, <1>6 DEF Slots

\* An attempt that failed: its thread sleeps with its permit in hand, or leaves.
LEMMA AgainStep ==
  ASSUME PacingInv, NEW c \in Callers, pc[c] \in {"trying", "recording"},
         Again(c) \/ (Leave(c, "failed") /\ UNCHANGED left), UNCHANGED <<nextIn, level>>
  PROVE  PacingInv'
<1>1. CASE Leave(c, "failed") /\ UNCHANGED left
  BY <1>1, LeaveStep DEF Outside
<1>2. CASE pc' = [pc EXCEPT ![c] = "retrying"] /\ UNCHANGED permits
           /\ \E d \in Delays : left' = [left EXCEPT ![c] = d]
  <2>1. Typed'
    BY <1>2, Numbers DEF PacingInv, Typed, Inside
  <2>2. Holding' = Holding /\ Sleeping' = Sleeping /\ \A d \in Sleeping : left'[d] = left[d]
    BY <1>2 DEF PacingInv, Typed, Holding, Sleeping, Inside
  <2> QED BY <1>2, <2>1, <2>2, StaysStep
<1> QED BY <1>1, <1>2 DEF Again, Goes

\* Every step of a caller.
LEMMA ThreadStep ==
  ASSUME PacingInv, NEW c \in Callers, Call(c) \/ Step(c)
  PROVE  PacingInv'
<1>1. CASE Call(c)
  <2>1. /\ pc[c] \in Outside /\ \E p \in {"refused", "queued"} : pc' = [pc EXCEPT ![c] = p]
        /\ UNCHANGED <<left, permits, nextIn, level>>
    BY <1>1 DEF Call, Goes, provider, history
  <2>2. Typed' /\ Holding' = Holding /\ Sleeping' = Sleeping
    BY <2>1 DEF PacingInv, Typed, Holding, Sleeping, Inside, Outside
  <2> QED BY <2>1, <2>2, StaysStep
<1>2. CASE Wake(c) \/ RateLimited(c) \/ Check(c) \/ Prune(c)
  <2>1. /\ pc[c] \in Inside \ {"sleeping"}
        /\ \E p \in Inside \ {"sleeping"} : pc' = [pc EXCEPT ![c] = p]
        /\ UNCHANGED <<left, permits, nextIn, level>>
    BY <1>2 DEF Wake, RateLimited, Check, Prune, Goes, provider, history, Inside
  <2>2. Typed' /\ Holding' = Holding /\ Sleeping' = Sleeping
    BY <2>1 DEF PacingInv, Typed, Holding, Sleeping, Inside, Outside
  <2> QED BY <2>1, <2>2, StaysStep
<1>3. CASE Answered(c)
  BY <1>3, LeaveStep DEF Answered, Outside, history
<1>4. CASE Transient(c)
  BY <1>4, AgainStep DEF Transient, history
<1>5. CASE Count(c)
  BY <1>5, AgainStep DEF Count, history
<1> QED BY <1>1, <1>2, <1>3, <1>4, <1>5, ReserveStep, StartStep DEF Step

\* The invariant of the pacing holds always.
LEMMA PacingInvariant == Spec => []PacingInv
<1>1. PacingInv /\ [Next]_vars => PacingInv'
  <2> SUFFICES ASSUME PacingInv, [Next]_vars PROVE PacingInv'
    OBVIOUS
  <2>1. CASE UNCHANGED vars
    BY <2>1, StaysStep DEF vars, PacingInv, Typed, Holding, Sleeping
  <2> QED BY <2>1, TickStep, ThreadStep DEF Next
<1> QED BY <1>1, PacingInit, PTL DEF Spec

-----------------------------------------------------------------------------
\* However calls fail, a permit is free or held by a thread, never lost or made up.
THEOREM CallsKeepPermits == Spec => []PermitsKept
BY PacingInvariant, PTL DEF PacingInv

\* Over any period the manager lets through at most one first attempt per interval, and one
\* more, plus one for each permit, although threads sleep for their slots outside the lock.
THEOREM CallsArePaced == Spec => []RateBound
<1>1. PacingInv => RateBound
  <2> SUFFICES ASSUME PacingInv PROVE RateBound
    OBVIOUS
  <2> DEFINE l == Cardinality(Late(0))
             s == Cardinality(Sleeping)
  <2>1. l \in Nat /\ s \in Nat /\ l <= s
    BY Finite
  <2>2. nextIn <= MinInterval * l + MinInterval
    BY <2>1, Numbers DEF PacingInv, Slots, Typed
  <2>3. MinInterval * l \in Nat /\ MinInterval * s \in Nat /\ MinInterval * l <= MinInterval * s
    BY <2>1, Numbers
  <2>4. level + MinInterval * s <= nextIn + MinInterval * Concurrency
    BY DEF PacingInv, Ledger
  <2>5. MinInterval * (Concurrency + 1) = MinInterval * Concurrency + MinInterval
        /\ MinInterval * Concurrency \in Nat
    BY Numbers
  <2> HIDE DEF l, s
  <2> QED BY <2>2, <2>3, <2>4, <2>5, Numbers DEF RateBound, PacingInv, Typed
<1> QED BY <1>1, PacingInvariant, PTL

(***************************************************************************)
(* The circuit breaker.  What it keeps is a tail of the history of the     *)
(* last Window, behind the answers that are too old and not dropped yet    *)
(* (Aligned); it is the whole of what came after the last joint trim       *)
(* (Since).  A thread that trims alone has found an answer at the head     *)
(* that is too old (Dropping), so that only a thread that began beside     *)
(* another can drop one that counts: the threads that are about to drop    *)
(* one are covered by the old ones left and by the joint trims (Debt).     *)
(***************************************************************************)
Extra == Len(recent) - Len(hits)

Lists == /\ recent \in Seq(Nat) /\ hits \in Seq(0..Window)
         /\ pc \in [Callers -> Outside \cup Inside \cup {"queued"}]
         /\ slips \in Nat /\ slipped \in 0..(Window + 1)
Aligned == \A i \in 1..Len(hits) : i + Extra >= 1 => recent[i + Extra] = hits[i]
Since == \A i \in 1..Len(hits) : hits[i] < slipped => i + Extra >= 1
Dropping == slipped > 0 /\ Popping # {} => Cardinality(Popping) = 1 /\ Extra >= 1
Debt == Cardinality(Popping) <= Extra + slips
\* The history is oldest first, whatever age it is looked at from.
OldestFirst == \A age \in Nat : \E n \in 0..Len(hits) : Splits(n, age)

CircuitInv == Lists /\ Aligned /\ Since /\ Dropping /\ Debt /\ OldestFirst

\* The settings of the circuit are numbers, and the threads that trim are finitely many.
LEMMA Bounds ==
  /\ Window \in Nat /\ Threshold \in Nat \ {0}
  /\ IsFiniteSet(Popping) /\ Cardinality(Popping) \in Nat
<1>1. IsFiniteSet(Popping)
  BY CallAssumption, FS_Subset DEF Popping
<1> QED BY <1>1, CallAssumption, FS_CardinalityType

\* The lengths of the two lists, and what lies between them, are numbers.
LEMMA Lengths ==
  ASSUME Lists
  PROVE  /\ Len(recent) \in Nat /\ Len(hits) \in Nat /\ Extra \in Int
         /\ DOMAIN recent = 1..Len(recent) /\ Len(recent) = Len(hits) + Extra
         /\ \A i \in 1..Len(hits) : hits[i] \in 0..Window
         /\ \A i \in 1..Len(recent) : recent[i] \in Nat
<1>1. recent \in Seq(Nat) /\ hits \in Seq(0..Window)
  BY DEF Lists
<1>2. Len(recent) \in Nat /\ Len(hits) \in Nat /\ DOMAIN recent = 1..Len(recent)
  BY <1>1
<1>3. Extra \in Int /\ Len(recent) = Len(hits) + Extra
  BY <1>2 DEF Extra
<1>4. /\ \A i \in 1..Len(hits) : hits[i] \in 0..Window
      /\ \A i \in 1..Len(recent) : recent[i] \in Nat
  <2> DEFINE ages == 0..Window
  <2>1. hits \in [1..Len(hits) -> ages]
    <3>1. hits \in Seq(ages)
      BY <1>1
    <3> HIDE DEF ages
    <3> QED BY <3>1
  <2>2. recent \in [1..Len(recent) -> Nat]
    BY <1>1
  <2> QED BY <2>1, <2>2
<1> QED BY <1>2, <1>3, <1>4

\* The invariant of the circuit holds before the first call.
LEMMA CircuitInit == Init => CircuitInv
<1> SUFFICES ASSUME Init PROVE CircuitInv
  OBVIOUS
<1>1. /\ recent = <<>> /\ hits = <<>> /\ pc = [c \in Callers |-> "idle"]
      /\ slips = 0 /\ slipped = Window + 1
  BY DEF Init
<1>2. Lists /\ Extra = 0 /\ Popping = {}
  BY <1>1, Bounds DEF Lists, Extra, Popping, Outside
<1>3. OldestFirst /\ Aligned /\ Since
  BY <1>1 DEF OldestFirst, Splits, Aligned, Since
<1>4. Dropping /\ Debt
  BY <1>1, <1>2, FS_EmptySet DEF Dropping, Debt
<1> QED BY <1>2, <1>3, <1>4 DEF CircuitInv

\* A step that leaves the record, the history and the trimming threads alone.
LEMMA ElsewhereStep ==
  ASSUME CircuitInv, UNCHANGED <<recent, hits, slips, slipped>>, Lists', Popping' = Popping
  PROVE  CircuitInv'
<1>1. Extra' = Extra
  BY DEF Extra
<1>2. Aligned' /\ Since'
  BY <1>1 DEF CircuitInv, Aligned, Since
<1>3. Dropping' /\ Debt'
  BY <1>1 DEF CircuitInv, Dropping, Debt
<1>4. OldestFirst'
  BY DEF CircuitInv, OldestFirst, Splits
<1> QED BY <1>2, <1>3, <1>4 DEF CircuitInv

\* A head that is too old is not of the history.
LEMMA HeadTells ==
  ASSUME CircuitInv, recent # <<>>, TooOld(Head(recent))
  PROVE  Extra >= 1
<1>1. Lists /\ Len(recent) >= 1 /\ Head(recent) = recent[1]
  BY DEF CircuitInv, Lists
<1> SUFFICES ASSUME Extra < 1 PROVE FALSE
  BY <1>1, Lengths
<1>2. 1 - Extra \in 1..Len(hits) /\ (1 - Extra) + Extra = 1
  BY <1>1, Lengths
<1>3. recent[1] = hits[1 - Extra] /\ hits[1 - Extra] \in 0..Window
  BY <1>1, <1>2, Lengths DEF CircuitInv, Aligned
<1> QED BY <1>1, <1>3, Bounds DEF TooOld

\* A thread begins to drop the head, alone or beside others.
LEMMA CheckKeeps ==
  ASSUME CircuitInv, NEW c \in Callers, Check(c)
  PROVE  CircuitInv'
<1>1. /\ pc[c] = "recording" /\ pc' = [pc EXCEPT ![c] = "popping"]
      /\ recent # <<>> /\ TooOld(Head(recent)) /\ UNCHANGED <<recent, hits>>
      /\ IF Popping = {} THEN UNCHANGED <<slips, slipped>> ELSE slips' = slips + 1 /\ slipped' = 0
  BY DEF Check, Goes, provider
<1>2. Extra >= 1 /\ Extra' = Extra /\ Extra \in Int
  BY <1>1, HeadTells, Lengths DEF Extra, CircuitInv
<1>3. Lists'
  BY <1>1, Bounds DEF CircuitInv, Lists, Inside
<1>4. Popping' = Popping \cup {c} /\ c \notin Popping
  BY <1>1 DEF CircuitInv, Lists, Popping
<1>5. Cardinality(Popping') = Cardinality(Popping) + 1 /\ Cardinality(Popping) \in Nat
  BY <1>4, Bounds, FS_AddElement
<1>6. Popping = {} => Cardinality(Popping) = 0
  BY FS_EmptySet
<1>7. Aligned' /\ OldestFirst'
  BY <1>1, <1>2 DEF CircuitInv, Aligned, OldestFirst, Splits
<1>8. Since'
  <2> SUFFICES ASSUME NEW i \in 1..Len(hits) PROVE i + Extra >= 1
    BY <1>1, <1>2 DEF Since
  <2> QED BY <1>2
<1>9. Dropping'
  BY <1>1, <1>2, <1>5, <1>6 DEF Dropping
<1>10. Debt'
  BY <1>1, <1>2, <1>5, <1>6 DEF CircuitInv, Lists, Debt
<1> QED BY <1>3, <1>7, <1>8, <1>9, <1>10 DEF CircuitInv

\* A 429 is recorded.
LEMMA RateLimitedKeeps ==
  ASSUME CircuitInv, NEW c \in Callers, RateLimited(c)
  PROVE  CircuitInv'
<1> USE Bounds DEF CircuitInv, Lists
<1>1. /\ pc[c] = "trying" /\ pc' = [pc EXCEPT ![c] = "recording"]
      /\ recent' = Append(recent, 0) /\ hits' = Append(hits, 0)
      /\ UNCHANGED <<slips, slipped>>
  BY DEF RateLimited, Goes
<1>2. Lists' /\ Extra' = Extra
  BY <1>1 DEF Inside, Extra
<1>3. Popping' = Popping
  BY <1>1 DEF Popping
<1>4. Aligned' /\ Since'
  <2> SUFFICES ASSUME NEW i \in 1..Len(hits')
               PROVE  /\ i + Extra >= 1 => recent'[i + Extra] = hits'[i]
                      /\ hits'[i] < slipped => i + Extra >= 1
    BY <1>1, <1>2 DEF Aligned, Since
  <2>1. Len(hits') = Len(hits) + 1 /\ Len(hits) \in Nat
    BY <1>1
  <2>2. CASE i = Len(hits) + 1
    <3>1. i + Extra = Len(recent) + 1 /\ Len(recent) \in Nat
      <4>1. /\ Len(recent) \in Nat /\ Len(hits) \in Nat /\ Extra \in Int
            /\ Len(recent) = Len(hits) + Extra
        BY Lengths
      <4> HIDE DEF CircuitInv, Lists
      <4> QED BY <2>2, <4>1
    <3> QED BY <1>1, <2>2, <3>1
  <2>3. CASE i \in 1..Len(hits)
    <3>1. hits'[i] = hits[i]
      BY <1>1, <2>3
    <3>2. hits[i] < slipped => i + Extra >= 1
      BY <2>3 DEF Since
    <3>3. ASSUME i + Extra >= 1 PROVE recent'[i + Extra] = hits[i]
      <4>1. recent[i + Extra] = hits[i]
        BY <2>3, <3>3 DEF Aligned
      <4>2. i + Extra \in 1..Len(recent)
        <5>1. /\ Len(recent) \in Nat /\ Len(hits) \in Nat /\ Extra \in Int
              /\ Len(recent) = Len(hits) + Extra
          BY Lengths
        <5> HIDE DEF CircuitInv, Lists
        <5> QED BY <2>3, <3>3, <5>1
      <4> QED BY <1>1, <4>1, <4>2
    <3> QED BY <3>1, <3>2, <3>3
  <2> QED BY <2>1, <2>2, <2>3
<1>5. Dropping' /\ Debt'
  BY <1>1, <1>2, <1>3 DEF Dropping, Debt
<1>6. OldestFirst'
  <2> SUFFICES ASSUME NEW age \in Nat
               PROVE  \E n \in 0..Len(hits') : \A i \in 1..Len(hits') : hits'[i] >= age <=> i <= n
    BY DEF OldestFirst, Splits
  <2>1. CASE age = 0
    <3>1. \A i \in 1..Len(hits') : hits'[i] >= age /\ i <= Len(hits')
      BY <1>2, <2>1
    <3>2. Len(hits') \in 0..Len(hits')
      BY <1>2
    <3>3. \A i \in 1..Len(hits') : hits'[i] >= age <=> i <= Len(hits')
      BY <3>1
    <3> QED BY <3>2, <3>3
  <2>2. CASE age > 0
    <3>1. PICK n \in 0..Len(hits) : \A i \in 1..Len(hits) : hits[i] >= age <=> i <= n
      BY DEF OldestFirst, Splits
    <3>2. /\ Len(hits') = Len(hits) + 1 /\ Len(hits) \in Nat /\ hits'[Len(hits) + 1] = 0
          /\ \A i \in 1..Len(hits) : hits'[i] = hits[i]
      BY <1>1
    <3>3. \A i \in 1..Len(hits') : hits'[i] >= age <=> i <= n
      <4> SUFFICES ASSUME NEW i \in 1..Len(hits') PROVE hits'[i] >= age <=> i <= n
        OBVIOUS
      <4>1. CASE i \in 1..Len(hits)
        BY <3>1, <3>2, <4>1
      <4>2. CASE i = Len(hits) + 1
        BY <2>2, <3>2, <4>2
      <4> QED BY <3>2, <4>1, <4>2
    <3>4. n \in 0..Len(hits')
      BY <3>2
    <3> QED BY <3>3, <3>4
  <2> QED BY <2>1, <2>2
<1> QED BY <1>2, <1>4, <1>5, <1>6

\* A thread drops the head: its own finding, or another's.
LEMMA PruneKeeps ==
  ASSUME CircuitInv, NEW c \in Callers, Prune(c)
  PROVE  CircuitInv'
<1>1. /\ pc[c] = "popping" /\ pc' = [pc EXCEPT ![c] = "recording"]
      /\ recent' = SubSeq(recent, 2, Len(recent))
      /\ UNCHANGED <<hits, slips, slipped>>
  BY DEF Prune, Goes, history
<1>2. Lists
  BY DEF CircuitInv
<1>3. Popping' = Popping \ {c} /\ c \in Popping
  BY <1>1, <1>2 DEF Popping, Lists
<1>4. Cardinality(Popping') = Cardinality(Popping) - 1 /\ Cardinality(Popping) \in Nat
  BY <1>3, Bounds, FS_RemoveElement
<1>5. CASE recent = <<>>
  <2>1. recent' = recent
    BY <1>1, <1>5
  <2>2. Extra' = Extra /\ Extra \in Int /\ slips \in Nat
    BY <1>1, <1>2, <2>1, Lengths DEF Extra, Lists
  <2>3. Lists'
    BY <1>1, <1>2, <2>1 DEF Lists, Inside
  <2>4. Aligned' /\ Since' /\ OldestFirst'
    BY <1>1, <2>1, <2>2 DEF CircuitInv, Aligned, Since, OldestFirst, Splits
  <2>5. Debt'
    BY <1>1, <1>4, <2>2 DEF CircuitInv, Debt
  <2>6. Dropping'
    <3>1. CASE slipped > 0
      <4>1. Extra >= 1
        BY <1>3, <3>1 DEF CircuitInv, Dropping
      <4>2. Extra <= 0
        BY <1>2, <1>5, Lengths
      <4> QED BY <2>2, <4>1, <4>2
    <3> QED BY <1>1, <3>1 DEF Dropping
  <2> QED BY <2>3, <2>4, <2>5, <2>6 DEF CircuitInv
<1>6. CASE recent # <<>>
  <2>1. /\ Len(recent) \in Nat \ {0} /\ Len(recent') = Len(recent) - 1 /\ recent' \in Seq(Nat)
        /\ \A i \in 1..(Len(recent) - 1) : recent'[i] = recent[i + 1]
    <3>1. recent \in Seq(Nat) /\ Len(recent) \in Nat \ {0} /\ recent \in [1..Len(recent) -> Nat]
      BY <1>2, <1>6 DEF Lists
    <3> DEFINE m == Len(recent) - 1
    <3>2. m \in Nat /\ (IF 2 <= Len(recent) THEN (1 + Len(recent)) - 2 ELSE 0) = m
      BY <3>1
    <3>3. recent' = [i \in 1..m |-> recent[i + 1]]
      BY <1>1, <3>1
    <3>4. \A i \in 1..m : i + 1 \in 1..Len(recent)
      BY <3>1
    <3>5. recent' \in [1..m -> Nat]
      BY <3>1, <3>3, <3>4
    <3> HIDE DEF m
    <3>6. recent' \in Seq(Nat) /\ Len(recent') = m
      BY <3>2, <3>3, <3>5
    <3> QED BY <3>1, <3>3, <3>6 DEF m
  <2>2. Extra' = Extra - 1 /\ Extra \in Int /\ slips \in Nat
    BY <1>1, <1>2, <2>1, Lengths DEF Extra, Lists
  <2>3. Lists'
    BY <1>1, <1>2, <2>1 DEF Lists, Inside
  <2>4. Aligned'
    <3> SUFFICES ASSUME NEW i \in 1..Len(hits), i + (Extra - 1) >= 1
                 PROVE  recent'[i + (Extra - 1)] = hits[i]
      BY <1>1, <2>2 DEF Aligned
    <3>1. /\ i + (Extra - 1) \in 1..(Len(recent) - 1) /\ i + Extra >= 1
          /\ (i + (Extra - 1)) + 1 = i + Extra
      BY <1>2, <2>2, Lengths
    <3>2. recent[i + Extra] = hits[i]
      BY <3>1 DEF CircuitInv, Aligned
    <3>3. recent'[i + (Extra - 1)] = recent[(i + (Extra - 1)) + 1]
      BY <2>1, <3>1
    <3> QED BY <3>1, <3>2, <3>3
  <2>5. slipped > 0 => Cardinality(Popping) = 1 /\ Extra >= 1
    BY <1>3 DEF CircuitInv, Dropping
  <2>6. Since'
    <3> SUFFICES ASSUME NEW i \in 1..Len(hits), hits[i] < slipped PROVE i + (Extra - 1) >= 1
      BY <1>1, <2>2 DEF Since
    <3>1. slipped > 0
      BY <1>2, Lengths, Bounds DEF Lists
    <3> QED BY <2>2, <2>5, <3>1
  <2>7. Dropping'
    <3>1. slipped > 0 => Popping' = {}
      <4> SUFFICES ASSUME slipped > 0 PROVE Popping' = {}
        OBVIOUS
      <4>1. Cardinality(Popping') = 0
        BY <1>4, <2>5
      <4>2. IsFiniteSet(Popping')
        BY <1>3, Bounds, FS_RemoveElement
      <4> QED BY <4>1, <4>2, FS_EmptySet
    <3> QED BY <1>1, <3>1 DEF Dropping
  <2>8. Debt'
    BY <1>1, <1>4, <2>2 DEF CircuitInv, Debt
  <2>9. OldestFirst'
    BY <1>1 DEF CircuitInv, OldestFirst, Splits
  <2> QED BY <2>3, <2>4, <2>6, <2>7, <2>8, <2>9 DEF CircuitInv
<1> QED BY <1>5, <1>6

\* Time passes, with nobody in _open_circuit: what leaves the history has just become
\* too old, and the joint trims are forgotten when all they can have taken is.
LEMMA TickKeeps ==
  ASSUME CircuitInv, Tick
  PROVE  CircuitInv'
<1> USE Bounds DEF CircuitInv, Lists
<1>1. /\ pc' = pc /\ Popping = {}
      /\ recent' = [i \in DOMAIN recent |->
                      IF recent[i] > Window THEN recent[i] ELSE recent[i] + 1]
      /\ slipped' = IF slipped > Window THEN slipped ELSE slipped + 1
      /\ slips' = IF slipped >= Window THEN 0 ELSE slips
  BY DEF Tick, Popping
<1>2. PICK gone \in 0..Len(hits) :
        /\ \A i \in 1..Len(hits) : hits[i] >= Window <=> i <= gone
        /\ hits' = [i \in 1..(Len(hits) - gone) |-> hits[i + gone] + 1]
  BY DEF Tick, Splits, Later
<1>3. /\ recent' \in Seq(Nat) /\ Len(recent') = Len(recent)
      /\ Len(hits') = Len(hits) - gone
  <2>1. recent' \in Seq(Nat) /\ Len(recent') = Len(recent)
    <3>1. /\ Len(recent) \in Nat /\ DOMAIN recent = 1..Len(recent)
          /\ \A i \in 1..Len(recent) : recent[i] \in Nat
      BY Lengths
    <3>2. recent' \in [1..Len(recent) -> Nat]
      BY <1>1, <3>1
    <3> HIDE DEF CircuitInv, Lists
    <3> QED BY <3>1, <3>2
  <2> DEFINE m == Len(hits) - gone
  <2>2. m \in Nat
    OBVIOUS
  <2>3. hits' = [i \in 1..m |-> hits[i + gone] + 1]
    BY <1>2
  <2>4. Len(hits') = m
    <3> HIDE DEF m
    <3> QED BY <2>2, <2>3
  <2> QED BY <2>1, <2>4
<1>4. ASSUME NEW i \in 1..Len(hits')
      PROVE  /\ i + gone \in 1..Len(hits) /\ hits[i + gone] \in 0..Window
             /\ hits'[i] = hits[i + gone] + 1 /\ hits'[i] \in 0..Window
  <2>1. i + gone \in 1..Len(hits) /\ i + gone > gone /\ hits'[i] = hits[i + gone] + 1
    BY <1>2, <1>3
  <2>2. hits[i + gone] \in 0..Window /\ hits[i + gone] < Window
    BY <1>2, <2>1
  <2>3. hits[i + gone] + 1 \in 0..Window
    <3> HIDE DEF CircuitInv, Lists
    <3> QED BY <2>2, Bounds
  <2> HIDE DEF CircuitInv, Lists
  <2> QED BY <2>1, <2>2, <2>3
<1>5. hits' \in Seq(0..Window)
  <2> DEFINE m == Len(hits) - gone
  <2>1. m \in Nat
    OBVIOUS
  <2>2. hits' \in [1..m -> 0..Window]
    BY <1>2, <1>3, <1>4
  <2> HIDE DEF m
  <2> QED BY <2>1, <2>2
<1>6. Extra' = Extra + gone /\ Lists'
  <2>1. Extra' = Extra + gone
    BY <1>3 DEF Extra
  <2> QED BY <1>1, <1>3, <1>5, <2>1
<1>7. Aligned'
  <2> SUFFICES ASSUME NEW i \in 1..Len(hits'), i + (Extra + gone) >= 1
               PROVE  recent'[i + (Extra + gone)] = hits'[i]
    BY <1>6 DEF Aligned
  <2>1. /\ i + gone \in 1..Len(hits) /\ hits'[i] = hits[i + gone] + 1
        /\ hits[i + gone] \in 0..Window
        /\ (i + gone) + Extra = i + (Extra + gone)
    <3> HIDE DEF CircuitInv, Lists
    <3> QED BY <1>4, Lengths DEF CircuitInv
  <2>2. recent[i + (Extra + gone)] = hits[i + gone]
    BY <2>1 DEF Aligned
  <2>3. i + (Extra + gone) \in DOMAIN recent
    <3>1. /\ DOMAIN recent = 1..Len(recent) /\ Len(recent) = Len(hits) + Extra
          /\ Extra \in Int /\ Len(hits) \in Nat /\ Len(recent) \in Nat
      BY Lengths
    <3> HIDE DEF CircuitInv, Lists
    <3> QED BY <2>1, <3>1
  <2> QED BY <1>1, <2>1, <2>2, <2>3
<1>8. OldestFirst'
  <2> SUFFICES ASSUME NEW age \in Nat
               PROVE  \E n \in 0..Len(hits') : \A i \in 1..Len(hits') : hits'[i] >= age <=> i <= n
    BY DEF OldestFirst, Splits
  <2>1. CASE age = 0
    <3>1. \A i \in 1..Len(hits') : hits'[i] >= age /\ i <= Len(hits')
      <4>1. \A i \in 1..Len(hits') : hits'[i] \in 0..Window
        BY <1>4
      <4> QED BY <1>3, <2>1, <4>1
    <3>2. Len(hits') \in 0..Len(hits')
      BY <1>3
    <3>3. \A i \in 1..Len(hits') : hits'[i] >= age <=> i <= Len(hits')
      BY <3>1
    <3> QED BY <3>2, <3>3
  <2>2. CASE age > 0
    <3>1. PICK n \in 0..Len(hits) : \A i \in 1..Len(hits) : hits[i] >= age - 1 <=> i <= n
      <4> DEFINE before == age - 1
      <4>1. before \in Nat
        BY <2>2
      <4> HIDE DEF before
      <4>2. \E n \in 0..Len(hits) : \A i \in 1..Len(hits) : hits[i] >= before <=> i <= n
        BY <4>1 DEF OldestFirst, Splits
      <4> QED BY <4>2 DEF before
    <3>2. \A i \in 1..Len(hits') : hits'[i] >= age <=> i + gone <= n
      <4> SUFFICES ASSUME NEW i \in 1..Len(hits') PROVE hits'[i] >= age <=> i + gone <= n
        OBVIOUS
      <4>1. i + gone \in 1..Len(hits) /\ hits'[i] = hits[i + gone] + 1
            /\ hits[i + gone] \in 0..Window
        <5> HIDE DEF CircuitInv, Lists
        <5> QED BY <1>4
      <4>2. hits[i + gone] >= age - 1 <=> i + gone <= n
        BY <3>1, <4>1
      <4>3. hits[i + gone] + 1 >= age <=> hits[i + gone] >= age - 1
        <5> HIDE DEF CircuitInv, Lists
        <5> QED BY <4>1
      <4> HIDE DEF CircuitInv, Lists
      <4> QED BY <4>1, <4>2, <4>3
    <3>3. Len(hits) \in Nat /\ Len(hits') = Len(hits) - gone
      BY <1>3
    <3>4. CASE n >= gone
      <4>1. n - gone \in 0..Len(hits') /\ \A i \in 1..Len(hits') : i + gone <= n <=> i <= n - gone
        BY <3>3, <3>4
      <4> QED BY <3>2, <4>1
    <3>5. CASE n < gone
      <4>1. 0 \in 0..Len(hits') /\ \A i \in 1..Len(hits') : ~(i + gone <= n) /\ ~(i <= 0)
        BY <3>3, <3>5
      <4> QED BY <3>2, <4>1
    <3> QED BY <3>4, <3>5
  <2> QED BY <2>1, <2>2
<1>9. Since'
  <2> SUFFICES ASSUME NEW i \in 1..Len(hits'), hits'[i] < slipped'
               PROVE  i + (Extra + gone) >= 1
    BY <1>6 DEF Since
  <2>1. /\ i + gone \in 1..Len(hits) /\ hits'[i] = hits[i + gone] + 1
        /\ hits[i + gone] \in 0..Window
    BY <1>4
  <2>2. hits[i + gone] < slipped
    <3>1. slipped' <= slipped + 1 /\ slipped \in Nat /\ slipped' \in Nat
      BY <1>1
    <3> HIDE DEF CircuitInv, Lists
    <3> QED BY <2>1, <3>1
  <2>3. (i + gone) + Extra >= 1
    BY <2>1, <2>2 DEF Since
  <2>4. Extra \in Int
    BY Lengths
  <2> HIDE DEF CircuitInv, Lists
  <2> QED BY <2>3, <2>4
<1>10. Popping' = {} /\ Cardinality(Popping) = 0 /\ Cardinality(Popping') = 0
  <2>1. Popping' = {} /\ Popping = {}
    BY <1>1 DEF Popping
  <2> QED BY <2>1, FS_EmptySet
<1>11. Dropping'
  BY <1>10 DEF Dropping
<1>12. 0 <= Extra' + slips'
  <2>1. 0 <= Extra + slips /\ Extra \in Int /\ slips \in Nat
    BY <1>10, Lengths DEF Debt
  <2>2. CASE slipped < Window
    BY <1>1, <1>6, <2>1, <2>2
  <2>3. CASE slipped >= Window
    <3>1. slips' = 0 /\ slipped' = Window + 1
      BY <1>1, <2>3
    <3>2. Len(hits') \in Nat /\ Len(recent') \in Nat /\ Extra' = Len(recent') - Len(hits')
      BY <1>6 DEF Extra
    <3>3. CASE Len(hits') = 0
      BY <3>1, <3>2, <3>3
    <3>4. CASE Len(hits') # 0
      <4>1. 1 \in 1..Len(hits')
        BY <3>2, <3>4
      <4>2. hits'[1] < slipped'
        BY <1>4, <3>1, <4>1
      <4>3. 1 + Extra' >= 1
        BY <1>9, <4>1, <4>2 DEF Since
      <4> QED BY <3>1, <3>2, <4>3
    <3> QED BY <3>3, <3>4
  <2> QED BY <2>2, <2>3
<1>13. Debt'
  BY <1>10, <1>12 DEF Debt
<1> QED BY <1>6, <1>7, <1>8, <1>9, <1>11, <1>13

\* Every step of a caller.
LEMMA CallerKeeps ==
  ASSUME CircuitInv, NEW c \in Callers, Call(c) \/ Step(c)
  PROVE  CircuitInv'
<1>1. CASE Call(c) \/ Reserve(c) \/ Start(c) \/ Wake(c) \/ Answered(c) \/ Transient(c) \/ Count(c)
  <2>1. /\ pc[c] # "popping"
        /\ \E p \in (Outside \cup Inside \cup {"queued"}) \ {"popping"} :
             pc' = [pc EXCEPT ![c] = p]
        /\ UNCHANGED <<recent, hits, slips, slipped>>
    BY <1>1 DEF Call, Reserve, Start, Wake, Answered, Transient, Count, Again, Leave, Goes,
                provider, history, Outside, Inside
  <2>2. Lists' /\ Popping' = Popping
    BY <2>1 DEF Popping, CircuitInv, Lists
  <2> QED BY <2>1, <2>2, ElsewhereStep
<1> QED BY <1>1, CheckKeeps, RateLimitedKeeps, PruneKeeps DEF Step

\* The invariant of the circuit holds always.
LEMMA CircuitInvariant == Spec => []CircuitInv
<1>1. CircuitInv /\ [Next]_vars => CircuitInv'
  <2> SUFFICES ASSUME CircuitInv, [Next]_vars PROVE CircuitInv'
    OBVIOUS
  <2>1. CASE UNCHANGED vars
    <3>1. UNCHANGED <<pc, recent, hits, slips, slipped>>
      BY <2>1 DEF vars
    <3>2. Lists' /\ Popping' = Popping
      BY <3>1 DEF CircuitInv, Lists, Popping
    <3> QED BY <3>1, <3>2, ElsewhereStep
  <2> QED BY <2>1, TickKeeps, CallerKeeps DEF Next
<1> QED BY <1>1, CircuitInit, PTL DEF Spec

\* The clock is never held up by the history (the guard of Tick is met, or it would
\* not be a model of time): what has become too old is always the front of it.
LEMMA HistoryAges == CircuitInv => \E gone \in 0..Len(hits) : Splits(gone, Window)
BY Bounds DEF CircuitInv, OldestFirst

\* With threads switching anywhere in _open_circuit, which takes no lock: a thread that has
\* finished with a 429 leaves the circuit open if the last Window has seen the Threshold,
\* and one more for each thread that began to trim the record while another was at it.
THEOREM TheCircuitTrips == Spec => CircuitTrips
<1> DEFINE Trips ==
      \A c \in Callers :
         pc[c] = "recording" /\ pc'[c] \notin {"recording", "popping"}
           /\ Len(hits) >= Threshold + slips
           => openIn' = OpenFor
<1>1. CircuitInv /\ [Next]_vars => [Trips]_vars
  <2> SUFFICES ASSUME CircuitInv, Next, NEW c \in Callers, pc[c] = "recording",
                      pc'[c] \notin {"recording", "popping"}, Len(hits) >= Threshold + slips
               PROVE  openIn' = OpenFor
    OBVIOUS
  <2> USE DEF CircuitInv, Lists
  <2>1. Count(c)
    <3>1. ~Tick
      BY DEF Tick
    <3>2. ASSUME NEW d \in Callers, Call(d) \/ Step(d), ~Count(d) PROVE FALSE
      BY <3>2 DEF Call, Step, Reserve, Start, Wake, Answered, Transient, RateLimited, Check,
                  Prune, Again, Leave, Goes, Outside
    <3>3. ASSUME NEW d \in Callers, Count(d) PROVE d = c
      BY <3>3 DEF Count, Again, Leave, Goes
    <3> QED BY <3>1, <3>2, <3>3 DEF Next
  <2>2. /\ Len(hits) \in Nat /\ Len(recent) \in Nat /\ Threshold \in Nat /\ slips \in Nat
        /\ Cardinality(Popping) \in Nat
    BY Bounds
  <2>3. 0 <= (Len(recent) - Len(hits)) + slips
    BY <2>2 DEF Debt, Extra
  <2>4. Len(recent) >= Threshold
    BY <2>2, <2>3
  <2> QED BY <2>1, <2>4 DEF Count
<1>2. Spec => [][Trips]_vars
  BY <1>1, CircuitInvariant, PTL DEF Spec
<1> QED BY <1>2 DEF CircuitTrips

(***************************************************************************)
(* The tasks of the app (AppTasks), which share no state with the calls,   *)
(* for any number of tasks and any budget.  The place of a thread tells    *)
(* what its record says (Reports): an end is written at one place only,    *)
(* and a place that has written one is not left for a place that may       *)
(* write another, unless the disk fails behind it.                         *)
(***************************************************************************)
CONSTANTS Tasks, Watched, MaxTurns, MaxToolSteps, MaxBatch, Page, Faults
VARIABLES status, place, turns, steps, exceeded, tree, patch, summary, lines, cursor, seen, again

T == INSTANCE AppTasks

Places == {"none", "start", "setup", "agent", "validate", "diff", "conclude",
           "write", "log", "report", "done", "dead"}
TasksTyped == /\ status \in [Tasks -> {"none", "queued", "running"} \cup T!Ended]
              /\ place \in [Tasks -> Places]
              /\ steps \in [Tasks -> Nat] /\ exceeded \in [Tasks -> BOOLEAN]
              /\ summary \in [Tasks -> {"none"} \cup T!Ended]
              /\ DOMAIN patch = Tasks

Reports == \A t \in Tasks :
  /\ place[t] = "none" => status[t] = "none"
  /\ place[t] = "start" => status[t] = "queued"
  /\ place[t] \in {"setup", "agent", "validate", "diff", "conclude", "dead"} => status[t] = "running"
  /\ place[t] \in {"write", "log"} => status[t] = "succeeded"
  /\ place[t] = "report" => status[t] = "failed"
Diffed == \A t \in Tasks :
  place[t] \in {"conclude", "write", "log"} \/ status[t] = "succeeded" => patch[t] # {}
Summed == \A t \in Tasks : summary[t] # "none" => place[t] \in {"log", "done"} /\ status[t] = summary[t]
Counted == \A t \in Tasks : /\ exceeded[t] <=> steps[t] > MaxToolSteps
                            /\ steps[t] <= MaxToolSteps + MaxBatch

TasksInv == TasksTyped /\ Reports /\ Diffed /\ Counted

\* The invariants of the tasks hold before the first is created.
LEMMA TasksInit == ASSUME T!AppAssumption, T!Init PROVE TasksInv /\ Summed
<1> USE DEF T!Init
<1>1. TasksTyped
  BY DEF TasksTyped, Places
<1>2. Counted
  <2>1. MaxToolSteps \in Nat /\ MaxBatch \in Nat
    BY DEF T!AppAssumption
  <2> QED BY <2>1 DEF Counted
<1> QED BY <1>1, <1>2 DEF TasksInv, Reports, Diffed, Summed


\* A task is created, or its thread takes a step.
LEMMA TaskStep ==
  ASSUME T!AppAssumption, TasksInv, NEW t \in Tasks, T!Thread(t) \/ T!Create(t)
  PROVE  TasksInv'
<1> USE DEF TasksInv, TasksTyped, T!Set, T!Ended
<1>1. CASE T!Create(t) \/ T!Start(t) \/ T!SetupDies(t) \/ T!SetUp(t)
  BY <1>1 DEF T!Create, T!Start, T!SetupDies, T!SetUp, T!record, T!agentVars, Places,
              Reports, Diffed, Counted
<1>2. CASE T!SetupFails(t) \/ T!Catches(t) \/ T!Conclude(t)
  BY <1>2 DEF T!SetupFails, T!Catches, T!Conclude, T!agentVars, Places, Reports, Diffed, Counted
<1>3. CASE T!RunReturns(t) \/ T!Validate(t) \/ T!LastLine(t)
  BY <1>3 DEF T!RunReturns, T!Validate, T!LastLine, T!record, T!agentVars, Places,
              Reports, Diffed, Counted
<1>4. CASE T!Turn(t)
  <2>1. PICK n \in 1..MaxBatch : /\ steps' = [steps EXCEPT ![t] = steps[t] + n]
                                 /\ exceeded' = [exceeded EXCEPT ![t] = steps[t] + n > MaxToolSteps]
    BY <1>4 DEF T!Turn, T!Over
  <2>2. place[t] = "agent" /\ ~exceeded[t] /\ UNCHANGED <<status, place, patch, summary>>
    BY <1>4 DEF T!Turn, T!record
  <2>3. steps[t] + n \in Nat /\ steps[t] + n <= MaxToolSteps + MaxBatch
        /\ (steps[t] + n > MaxToolSteps) \in BOOLEAN
    BY <2>2 DEF T!AppAssumption, Counted
  <2>4. TasksTyped'
    BY <2>1, <2>2, <2>3
  <2>5. Counted'
    BY <2>1, <2>3 DEF Counted
  <2> QED BY <2>2, <2>4, <2>5 DEF Reports, Diffed
<1>5. CASE T!Diff(t)
  BY <1>5 DEF T!Diff, T!record, T!agentVars, Places, Reports, Diffed, Counted
<1>6. CASE T!Write(t)
  <2>1. PICK p \in {"log", "done"} : /\ place' = [place EXCEPT ![t] = p]
                                     /\ p = "log" => place[t] = "write"
    BY <1>6 DEF T!Write
  <2>2. /\ place[t] \in {"write", "report"} /\ UNCHANGED <<status, steps, exceeded, patch>>
        /\ summary' = [summary EXCEPT ![t] = status[t]] \/ summary' = summary
    BY <1>6 DEF T!Write, T!agentVars
  <2>3. TasksTyped'
    BY <2>1, <2>2 DEF Places, Reports
  <2> QED BY <2>1, <2>2, <2>3 DEF Reports, Diffed, Counted
<1> QED BY <1>1, <1>2, <1>3, <1>4, <1>5, <1>6 DEF T!Thread

\* Reverting, polling and applying leave the tasks where they are.
LEMMA OthersStep ==
  ASSUME TasksInv, T!Revert \/ T!Poll \/ (\E t \in Tasks : T!Apply(t)) \/ UNCHANGED T!vars
  PROVE  TasksInv' /\ UNCHANGED <<status, place, summary>>
BY DEF T!Revert, T!Poll, T!Apply, T!vars, T!record, T!agentVars,
       TasksInv, TasksTyped, Reports, Diffed, Counted

\* The invariant of the tasks holds always.
LEMMA TasksInvariant == T!AppAssumption => (T!Spec => []TasksInv)
<1> SUFFICES ASSUME T!AppAssumption PROVE T!Spec => []TasksInv
  OBVIOUS
<1>1. TasksInv /\ [T!Next]_T!vars => TasksInv'
  BY TaskStep, OthersStep DEF T!Next
<1> QED BY <1>1, TasksInit, PTL DEF T!Spec

\* The tool budget is a ceiling but for one response of the model, in which the pause
\* that ends the run is asked for.
THEOREM BudgetIsKept == T!AppAssumption => (T!Spec => []T!BudgetHolds)
<1>1. TasksInv => T!BudgetHolds
  BY DEF TasksInv, Counted, T!BudgetHolds
<1> QED BY <1>1, TasksInvariant, PTL

\* A browser that is told of a success finds the patch, whatever fails behind it: the
\* status, in memory, is set after the file is written.
THEOREM PatchComesFirst == T!AppAssumption => (T!Spec => []T!PatchIsThere)
<1>1. TasksInv => T!PatchIsThere
  BY DEF TasksInv, Diffed, T!PatchIsThere
<1> QED BY <1>1, TasksInvariant, PTL

\* Where the disk does not fail, an end the browser has seen is final, and summary.json
\* tells the same.
THEOREM TasksEndOnce ==
  ASSUME T!AppAssumption, "disk" \notin Faults
  PROVE  T!Spec => T!EndIsFinal /\ []T!SummaryAgrees
<1>1. TasksInv /\ Summed /\ [T!Next]_T!vars => Summed' /\ [T!EndStays]_T!vars
  <2> SUFFICES ASSUME TasksInv, Summed, [T!Next]_T!vars PROVE Summed' /\ T!EndStays
    OBVIOUS
  <2>1. CASE T!Revert \/ T!Poll \/ (\E t \in Tasks : T!Apply(t)) \/ UNCHANGED T!vars
    BY <2>1, OthersStep DEF Summed, T!EndStays
  <2>2. ASSUME NEW t \in Tasks, T!Thread(t) \/ T!Create(t) PROVE Summed' /\ T!EndStays
    <3> USE DEF TasksInv, TasksTyped, Reports, Summed, T!EndStays, T!Ended, T!Set, Places
    <3>1. CASE T!Create(t) \/ T!Start(t) \/ T!SetupDies(t) \/ T!SetUp(t) \/ T!SetupFails(t)
      BY <3>1 DEF T!Create, T!Start, T!SetupDies, T!SetUp, T!SetupFails, T!record
    <3>2. CASE T!Turn(t) \/ T!RunReturns(t) \/ T!Validate(t) \/ T!Diff(t)
      BY <3>2 DEF T!Turn, T!RunReturns, T!Validate, T!Diff, T!record
    <3>3. CASE T!Conclude(t) \/ T!Catches(t) \/ T!LastLine(t)
      BY <3>3 DEF T!Conclude, T!Catches, T!LastLine, T!record
    <3>4. CASE T!Write(t)
      BY <3>4 DEF T!Write
    <3> QED BY <2>2, <3>1, <3>2, <3>3, <3>4 DEF T!Thread
  <2> QED BY <2>1, <2>2 DEF T!Next
<1>2. Summed => T!SummaryAgrees
  BY DEF Summed, T!SummaryAgrees
<1> QED BY <1>1, <1>2, TasksInit, TasksInvariant, PTL DEF T!Spec, T!EndIsFinal
==============================================================================
