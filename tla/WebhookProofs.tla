---------------------------- MODULE WebhookProofs ----------------------------
(***************************************************************************)
(* Theorems about WebhookSubscriber, for any number of events, any buffer  *)
(* size, any number of retries and of failing requests.                    *)
(***************************************************************************)
EXTENDS WebhookSubscriber, SequenceTheorems, FiniteSetTheorems, TLAPS

(***************************************************************************)
(* The inductive invariant.  No event is overwritten because a coroutine   *)
(* that takes a batch holds none (EmptyHanded) and an event names a fresh  *)
(* coroutine (Fresh, TimerStarted); what a cancelled task drops when it    *)
(* unwinds was recorded when it was cancelled (CancelledKept).             *)
(***************************************************************************)
EmptyHanded == \A c \in Coroutines : at[c] \in {"none", "sleep", "done"} => batch[c] = <<>>
CancelledKept == \A c \in Coroutines : at[c] = "cancel" => ToSet(batch[c]) \subseteq cancelled
Fresh == \A e \in Events : e > published => at[e] = "none"
TimerStarted == timer \in 0 .. published

WebhookInv == TypeOK /\ EmptyHanded /\ CancelledKept /\ Fresh /\ TimerStarted /\ Accounted

\* Where an event that was handed to the subscriber is.
Kept(e) == \/ e \in ToSet(queue) \/ (\E c \in Coroutines : e \in ToSet(batch[c]))
           \/ e \in received \/ e \in cancelled

\* That no event is lost, event by event.
LEMMA AccountedIsKept == Accounted <=> \A e \in 1 .. published : Kept(e)
BY DEF Accounted, Kept, Queued, Holders

\* The same in the next state.
LEMMA KeptNext ==
  (\A e \in 1 .. published' :
     \/ e \in ToSet(queue') \/ (\E c \in Coroutines : e \in ToSet(batch'[c]))
     \/ e \in received' \/ e \in cancelled')  => Accounted'
BY DEF Accounted, Queued, Holders

\* The settings are numbers, and the timer is named after an event or by NoTimer.
LEMMA Numbers ==
  /\ MaxEvents \in Nat /\ Retries \in Nat /\ MaxFailures \in Nat
  /\ Events \subseteq Coroutines /\ Close \in Coroutines /\ Events \subseteq Nat
  /\ 0 \in 0 .. Retries /\ NoTimer \notin Events
BY WebhookAssumption DEF Events, Coroutines, Close, NoTimer

\* The events of a queue that others are added to.
LEMMA ToSetProperties ==
  ASSUME NEW S, NEW s \in Seq(S)
  PROVE  /\ ToSet(s) \subseteq S /\ ToSet(<<>>) = {}
         /\ \A x : ToSet(Append(s, x)) = ToSet(s) \cup {x}
         /\ \A r \in Seq(S) : ToSet(s \o r) = ToSet(s) \cup ToSet(r)
<1>1. ToSet(s) \subseteq S /\ ToSet(<<>>) = {}
  BY DEF ToSet
<1>2. ASSUME NEW x PROVE ToSet(Append(s, x)) = ToSet(s) \cup {x}
  <2>1. s \in Seq(S \cup {x}) /\ Len(s) \in Nat
    OBVIOUS
  <2>2. /\ Len(Append(s, x)) = Len(s) + 1 /\ DOMAIN Append(s, x) = 1 .. Len(s) + 1
        /\ \A i \in 1 .. Len(s) : Append(s, x)[i] = s[i]
        /\ Append(s, x)[Len(s) + 1] = x
    BY <2>1, AppendProperties
  <2>3. DOMAIN s = 1 .. Len(s)
    BY <2>1
  <2> QED BY <2>1, <2>2, <2>3 DEF ToSet
<1>3. ASSUME NEW r \in Seq(S) PROVE ToSet(s \o r) = ToSet(s) \cup ToSet(r)
  <2>1. /\ Len(s) \in Nat /\ Len(r) \in Nat
        /\ DOMAIN s = 1 .. Len(s) /\ DOMAIN r = 1 .. Len(r)
    OBVIOUS
  <2>2. /\ s \o r \in Seq(S) /\ Len(s \o r) = Len(s) + Len(r)
        /\ \A i \in 1 .. Len(s) + Len(r) :
             (s \o r)[i] = IF i <= Len(s) THEN s[i] ELSE r[i - Len(s)]
    BY ConcatProperties
  <2>3. DOMAIN (s \o r) = 1 .. Len(s) + Len(r)
    BY <2>2
  <2>4. ToSet(s \o r) \subseteq ToSet(s) \cup ToSet(r)
    BY <2>1, <2>2, <2>3 DEF ToSet
  <2>5. ToSet(s) \subseteq ToSet(s \o r)
    BY <2>1, <2>2, <2>3 DEF ToSet
  <2>6. ASSUME NEW j \in 1 .. Len(r) PROVE r[j] \in ToSet(s \o r)
    <3>1. Len(s) + j \in 1 .. Len(s) + Len(r) /\ (s \o r)[Len(s) + j] = r[j]
      BY <2>1, <2>2
    <3> QED BY <2>3, <3>1 DEF ToSet
  <2> QED BY <2>1, <2>4, <2>5, <2>6 DEF ToSet
<1> QED BY <1>1, <1>2, <1>3

\* The first invariant holds for a new subscriber.
LEMMA WebhookInvInit == Init => WebhookInv
<1> SUFFICES ASSUME Init PROVE WebhookInv
  OBVIOUS
<1> USE Numbers DEF Init, Places
<1>0. <<>> \in Seq(Events)
  OBVIOUS
<1>1. TypeOK
  <2>1. /\ at \in [Coroutines -> Places] /\ attempt \in [Coroutines -> 0 .. Retries]
        /\ batch \in [Coroutines -> Seq(Events)]
    BY <1>0
  <2>2. /\ published \in 0 .. MaxEvents /\ failures \in 0 .. MaxFailures
        /\ timer \in Events \cup {NoTimer}
    OBVIOUS
  <2> QED BY <1>0, <2>1, <2>2 DEF TypeOK
<1>2. Accounted
  BY DEF Accounted
<1> QED
  BY <1>1, <1>2 DEF WebhookInv, EmptyHanded, CancelledKept, Fresh, TimerStarted, NoTimer

-----------------------------------------------------------------------------
\* Cancelling the timer keeps what its task holds, and starts or frees no coroutine.
LEMMA CancelKeeps ==
  ASSUME WebhookInv, CancelTimer
  PROVE  /\ Cancel(at) \in [Coroutines -> Places]
         /\ timer' = NoTimer /\ cancelled \subseteq cancelled' /\ cancelled' \subseteq Events
         /\ \A c \in Coroutines :
              /\ Cancel(at)[c] \in {"none", "sleep", "done"} => batch[c] = <<>>
              /\ Cancel(at)[c] = "cancel" => ToSet(batch[c]) \subseteq cancelled'
              /\ c # timer => Cancel(at)[c] = at[c]
<1> USE Numbers DEF WebhookInv, TypeOK, Places
<1>1. cancelled' \subseteq Events /\ cancelled \subseteq cancelled' /\ timer' = NoTimer
  <2>1. timer # NoTimer => ToSet(batch[timer]) \subseteq Events
    BY ToSetProperties
  <2> QED BY <2>1 DEF CancelTimer
<1>2. CASE timer = NoTimer
  BY <1>1, <1>2 DEF Cancel, EmptyHanded, CancelledKept
<1>3. CASE timer # NoTimer
  <2>1. timer \in Coroutines /\ Cancel(at) = [at EXCEPT ![timer] = "cancel"]
    BY <1>3 DEF Cancel
  <2>2. ToSet(batch[timer]) \subseteq cancelled'
    <3>1. CASE at[timer] \in Posting
      BY <1>3, <3>1 DEF CancelTimer
    <3>2. CASE at[timer] = "cancel"
      BY <1>1, <2>1, <3>2 DEF CancelledKept
    <3>3. CASE at[timer] \in {"none", "sleep", "done"}
      <4>1. batch[timer] = <<>>
        BY <2>1, <3>3 DEF EmptyHanded
      <4> QED BY <4>1, ToSetProperties
    <3> QED BY <2>1, <3>1, <3>2, <3>3 DEF Posting
  <2> QED BY <1>1, <2>1, <2>2 DEF EmptyHanded, CancelledKept
<1> QED BY <1>2, <1>3

\* A coroutine that ends is empty-handed; the others are as they were.
LEMMA EndKeeps ==
  ASSUME WebhookInv, NEW c \in Coroutines, End(c), published' = published, cancelled' = cancelled
  PROVE  /\ at' \in [Coroutines -> Places] /\ batch' \in [Coroutines -> Seq(Events)]
         /\ attempt' \in [Coroutines -> 0 .. Retries] /\ timer' \in Events \cup {NoTimer}
         /\ EmptyHanded' /\ CancelledKept' /\ TimerStarted'
         /\ at[c] # "none" => Fresh'
         /\ \A d \in Coroutines : d # c => batch'[d] = batch[d]
<1> USE Numbers DEF WebhookInv, TypeOK, End
<1>1. at' \in [Coroutines -> Places] /\ batch' \in [Coroutines -> Seq(Events)]
      /\ attempt' \in [Coroutines -> 0 .. Retries]
  BY DEF Places
<1>2. timer' \in {timer, NoTimer}
  BY DEF Cleared
<1>3. \A d \in Coroutines : d # c => batch'[d] = batch[d] /\ at'[d] = at[d]
  OBVIOUS
<1>4. at'[c] = "done" /\ batch'[c] = <<>>
  OBVIOUS
<1>5. EmptyHanded' /\ CancelledKept'
  BY <1>3, <1>4 DEF EmptyHanded, CancelledKept
<1>6. TimerStarted'
  BY <1>2 DEF TimerStarted, NoTimer
<1>7. at[c] # "none" => Fresh'
  BY <1>3 DEF Fresh
<1> QED BY <1>1, <1>2, <1>3, <1>5, <1>6, <1>7

\* An event that fills the buffer leaves with everything that was queued.
LEMMA CallPostsStep == ASSUME WebhookInv, CallPosts PROVE WebhookInv'
<1> DEFINE e == published + 1
<1> USE Numbers
<1>1. e \in Events /\ e \in Coroutines /\ at[e] = "none" /\ published \in Nat /\ timer # e
  BY DEF CallPosts, WebhookInv, TypeOK, Fresh, TimerStarted, Events
<1>2. /\ published' = e /\ CancelTimer /\ UNCHANGED <<timed, removed, server>>
      /\ at' = [Cancel(at) EXCEPT ![e] = "post"] /\ queue' = <<>>
      /\ batch' = [batch EXCEPT ![e] = Append(queue, e)]
      /\ attempt' = [attempt EXCEPT ![e] = 0]
  BY DEF CallPosts, Post, Taken
<1>3. queue \in Seq(Events) /\ batch \in [Coroutines -> Seq(Events)]
  BY DEF WebhookInv, TypeOK
<1>4. Append(queue, e) \in Seq(Events) /\ ToSet(Append(queue, e)) = ToSet(queue) \cup {e}
  BY <1>1, <1>3, AppendProperties, ToSetProperties
<1> HIDE DEF e
<1>5. batch[e] = <<>> /\ ToSet(batch[e]) = {}
  BY <1>1, <1>3, ToSetProperties DEF WebhookInv, EmptyHanded
<1>6. TypeOK'
  <2>1. e \in 0 .. MaxEvents
    BY <1>1 DEF Events
  <2>2. at' \in [Coroutines -> Places]
    BY <1>1, <1>2, CancelKeeps DEF Places
  <2>3. batch' \in [Coroutines -> Seq(Events)] /\ queue' \in Seq(Events)
    <3>1. <<>> \in Seq(Events)
      OBVIOUS
    <3>2. batch' = [batch EXCEPT ![e] = Append(queue, e)] /\ queue' = <<>>
      BY <1>2
    <3> QED BY <1>3, <1>4, <3>1, <3>2
  <2>4. attempt' \in [Coroutines -> 0 .. Retries]
    BY <1>2 DEF WebhookInv, TypeOK
  <2>5. timer' = NoTimer /\ cancelled' \subseteq Events
    BY <1>2, CancelKeeps
  <2> QED
    BY <1>2, <2>1, <2>2, <2>3, <2>4, <2>5 DEF WebhookInv, TypeOK, server
<1>7. EmptyHanded' /\ CancelledKept'
  BY <1>1, <1>2, <1>3, CancelKeeps DEF EmptyHanded, CancelledKept
<1>8. Fresh' /\ TimerStarted'
  <2>1. \A d \in Events : d > e => Cancel(at)[d] = at[d]
    BY <1>1, CancelKeeps, <1>2 DEF WebhookInv, TimerStarted, e
  <2> QED BY <1>1, <1>2, <2>1, CancelKeeps DEF WebhookInv, Fresh, TimerStarted, e, NoTimer, Events
<1>9. Accounted'
  <2>1. ASSUME NEW d \in 1 .. e
        PROVE  \/ \E c \in Coroutines : d \in ToSet(batch'[c])
               \/ d \in received' \/ d \in cancelled'
    <3>1. CASE d = e \/ d \in ToSet(queue)
      BY <1>1, <1>2, <1>3, <1>4, <3>1
    <3>2. CASE d # e /\ d \notin ToSet(queue)
      <4>1. Kept(d)
        BY <1>1, <3>2, AccountedIsKept DEF WebhookInv, e
      <4> QED BY <1>2, <1>3, <1>5, <3>2, <4>1, CancelKeeps DEF Kept, server
    <3> QED BY <3>1, <3>2
  <2> QED BY <1>2, <2>1, KeptNext
<1> QED BY <1>6, <1>7, <1>8, <1>9 DEF WebhookInv

\* An event that is buffered is queued, and may start a timer of its own.
LEMMA CallBuffersStep == ASSUME WebhookInv, CallBuffers PROVE WebhookInv'
<1> DEFINE e == published + 1
<1> USE Numbers
<1>1. e \in Events /\ e \in Coroutines /\ at[e] = "none" /\ published \in Nat
  BY DEF CallBuffers, WebhookInv, TypeOK, Fresh, Events
<1>2. /\ published' = e /\ queue' = Append(queue, e)
      /\ UNCHANGED <<batch, attempt, removed, server, cancelled>>
      /\ \/ UNCHANGED <<timer, at, timed>>
         \/ timer' = e /\ at' = [at EXCEPT ![e] = "sleep"] /\ timed' = timed \cup {e}
  BY DEF CallBuffers
<1>3. queue \in Seq(Events) /\ at \in [Coroutines -> Places]
  BY DEF WebhookInv, TypeOK
<1>4. Append(queue, e) \in Seq(Events) /\ ToSet(Append(queue, e)) = ToSet(queue) \cup {e}
  BY <1>1, <1>3, AppendProperties, ToSetProperties
<1> HIDE DEF e
<1>6. TypeOK'
  <2>1. e \in 0 .. MaxEvents
    BY <1>1 DEF Events
  <2>2. at' \in [Coroutines -> Places]
    BY <1>1, <1>2, <1>3 DEF Places
  <2>3. timed' \subseteq Events /\ timer' \in Events \cup {NoTimer}
    BY <1>1, <1>2 DEF WebhookInv, TypeOK
  <2> QED BY <1>2, <1>4, <2>1, <2>2, <2>3 DEF WebhookInv, TypeOK, server
<1>7. EmptyHanded' /\ CancelledKept'
  BY <1>1, <1>2, <1>3 DEF WebhookInv, EmptyHanded, CancelledKept
<1>8. Fresh' /\ TimerStarted'
  BY <1>1, <1>2, <1>3 DEF WebhookInv, Fresh, TimerStarted, e, Events
<1>9. Accounted'
  <2>1. ASSUME NEW d \in 1 .. e PROVE d \in ToSet(queue') \/ Kept(d)
    BY <1>1, <1>2, <1>4, AccountedIsKept DEF WebhookInv, e
  <2> QED BY <1>2, <1>4, <2>1, KeptNext DEF Kept, server
<1> QED BY <1>6, <1>7, <1>8, <1>9 DEF WebhookInv

\* close() leaves with everything that is queued.
LEMMA CloseCallStep == ASSUME WebhookInv, CloseCall PROVE WebhookInv'
<1> USE Numbers
<1>1. /\ at[Close] = "none" /\ CancelTimer
      /\ UNCHANGED <<published, timed, removed, server>>
  BY DEF CloseCall
<1>2. /\ queue \in Seq(Events) /\ batch \in [Coroutines -> Seq(Events)]
      /\ batch[Close] = <<>> /\ ToSet(<<>>) = {} /\ Close \notin Events /\ published \in Nat
  BY <1>1, ToSetProperties DEF WebhookInv, TypeOK, EmptyHanded, Close, Events
<1>3. /\ at' \in [Coroutines -> Places]
      /\ at'[Close] \in {"post", "done"}
      /\ at'[Close] = "done" => batch' = batch
      /\ \A c \in Coroutines \ {Close} : at'[c] = Cancel(at)[c]
      /\ attempt' \in [Coroutines -> 0 .. Retries]
  <2>1. Cancel(at) \in [Coroutines -> Places]
    BY <1>1, CancelKeeps
  <2>2. \/ /\ at' = [Cancel(at) EXCEPT ![Close] = "post"]
           /\ attempt' = [attempt EXCEPT ![Close] = 0]
        \/ /\ at' = [Cancel(at) EXCEPT ![Close] = "done"]
           /\ attempt' = attempt /\ batch' = batch
    BY DEF CloseCall, Post
  <2>3. attempt' \in [Coroutines -> 0 .. Retries]
    BY <2>2 DEF WebhookInv, TypeOK
  <2> QED BY <2>1, <2>2, <2>3 DEF Places
<1>4. \/ queue' = <<>> /\ batch' = [batch EXCEPT ![Close] = queue]
      \/ queue = <<>> /\ queue' = <<>> /\ batch' = batch
  BY <1>1 DEF CloseCall, Post, Taken
<1>6. TypeOK'
  <2>1. batch' \in [Coroutines -> Seq(Events)] /\ queue' \in Seq(Events)
    BY <1>2, <1>4
  <2>2. timer' = NoTimer /\ cancelled' \subseteq Events
    BY <1>1, CancelKeeps
  <2> QED BY <1>1, <1>3, <2>1, <2>2 DEF WebhookInv, TypeOK, server
<1>7. EmptyHanded' /\ CancelledKept'
  BY <1>1, <1>2, <1>3, <1>4, CancelKeeps DEF EmptyHanded, CancelledKept
<1>8. Fresh' /\ TimerStarted'
  <2>1. \A d \in Events : d > published => at'[d] = at[d]
    BY <1>1, <1>2, <1>3, CancelKeeps DEF WebhookInv, TimerStarted
  <2> QED BY <1>1, <1>2, <2>1, CancelKeeps DEF WebhookInv, Fresh, TimerStarted, NoTimer
<1>9. Accounted'
  <2>1. ASSUME NEW d \in 1 .. published
        PROVE  \/ \E c \in Coroutines : d \in ToSet(batch'[c])
               \/ d \in received' \/ d \in cancelled'
    <3>1. Kept(d)
      BY AccountedIsKept DEF WebhookInv
    <3>2. CASE d \in ToSet(queue)
      BY <1>2, <1>4, <3>2
    <3>3. CASE \E c \in Coroutines : d \in ToSet(batch[c])
      <4>1. PICK c \in Coroutines : d \in ToSet(batch[c])
        BY <3>3
      <4>2. batch'[c] = batch[c]
        BY <1>2, <1>4, <4>1
      <4> QED BY <4>1, <4>2
    <3> QED BY <1>1, <3>1, <3>2, <3>3, CancelKeeps DEF Kept, server
  <2> QED BY <1>1, <2>1, KeptNext
<1> QED BY <1>6, <1>7, <1>8, <1>9 DEF WebhookInv

-----------------------------------------------------------------------------
\* A timer that fires takes what is queued, or ends.
LEMMA WakeStep == ASSUME WebhookInv, NEW c \in Coroutines, Wake(c) PROVE WebhookInv'
<1> USE Numbers
<1>1. at[c] = "sleep" /\ UNCHANGED <<published, timed, removed, server, cancelled>>
  BY DEF Wake
<1>2. /\ queue \in Seq(Events) /\ batch \in [Coroutines -> Seq(Events)]
      /\ batch[c] = <<>> /\ ToSet(<<>>) = {} /\ at \in [Coroutines -> Places]
  BY <1>1, ToSetProperties DEF WebhookInv, TypeOK, EmptyHanded
<1>3. CASE queue # <<>>
  <2>1. /\ at' = [at EXCEPT ![c] = "post"] /\ batch' = [batch EXCEPT ![c] = queue]
        /\ attempt' = [attempt EXCEPT ![c] = 0] /\ queue' = <<>> /\ timer' = timer
    BY <1>3 DEF Wake, Post, Taken
  <2>2. TypeOK'
    BY <1>1, <1>2, <2>1 DEF WebhookInv, TypeOK, Places, server
  <2>3. EmptyHanded' /\ CancelledKept' /\ Fresh' /\ TimerStarted'
    BY <1>1, <1>2, <2>1
       DEF WebhookInv, EmptyHanded, CancelledKept, Fresh, TimerStarted
  <2>4. ASSUME NEW d \in 1 .. published
        PROVE  \/ \E b \in Coroutines : d \in ToSet(batch'[b])
               \/ d \in received' \/ d \in cancelled'
    <3>1. Kept(d)
      BY AccountedIsKept DEF WebhookInv
    <3>2. CASE d \in ToSet(queue)
      BY <1>2, <2>1, <3>2
    <3>3. CASE \E b \in Coroutines : d \in ToSet(batch[b])
      BY <1>2, <2>1, <3>3
    <3> QED BY <1>1, <3>1, <3>2, <3>3 DEF Kept, server
  <2> QED BY <1>1, <2>2, <2>3, <2>4, KeptNext DEF WebhookInv
<1>4. CASE queue = <<>>
  <2>1. End(c) /\ queue' = queue
    BY <1>4 DEF Wake
  <2>2. TypeOK' /\ EmptyHanded' /\ CancelledKept' /\ Fresh' /\ TimerStarted'
    BY <1>1, <2>1, EndKeeps DEF WebhookInv, TypeOK, server
  <2>3. \A b \in Coroutines : ToSet(batch'[b]) = ToSet(batch[b])
    BY <1>2, <2>1 DEF End
  <2>4. Accounted'
    BY <1>1, <2>1, <2>3, AccountedIsKept, KeptNext DEF WebhookInv, Kept, server
  <2> QED BY <2>2, <2>4 DEF WebhookInv
<1> QED BY <1>3, <1>4

\* A request that failed may have added its batch to what the server has.
LEMMA LostKeeps ==
  ASSUME TypeOK, NEW taken \in SUBSET Events, Lost(taken)
  PROVE  /\ received \subseteq received' /\ received' \subseteq Events
         /\ unclear' \subseteq received' /\ failures' \in 0 .. MaxFailures
         /\ taken \subseteq received'
BY Numbers DEF Lost, TypeOK

\* A coroutine ends when its batch is at the server, back in the queue, or recorded as
\* lost with the task.
LEMMA EndStep ==
  ASSUME WebhookInv, NEW c \in Coroutines, Unwind(c) \/ Succeed(c) \/ GiveUp(c)
  PROVE  WebhookInv'
<1> USE Numbers
<1>1. End(c) /\ UNCHANGED <<published, timed, removed, cancelled>> /\ at[c] \in {"post", "cancel"}
  BY DEF Unwind, Succeed, GiveUp
<1>2. queue \in Seq(Events) /\ batch[c] \in Seq(Events) /\ ToSet(batch[c]) \subseteq Events
  BY ToSetProperties DEF WebhookInv, TypeOK
<1>3. /\ received \subseteq received' /\ received' \subseteq Events
      /\ unclear' \subseteq received' /\ failures' \in 0 .. MaxFailures
  <2>1. CASE GiveUp(c)
    <3>1. PICK taken \in {{}, ToSet(batch[c])} : Lost(taken)
      BY <2>1 DEF GiveUp
    <3>2. taken \in SUBSET Events
      BY <1>2
    <3> QED BY <3>1, <3>2, LostKeeps DEF WebhookInv
  <2>2. CASE Succeed(c) \/ Unwind(c)
    BY <1>2, <2>2 DEF Unwind, Succeed, WebhookInv, TypeOK
  <2> QED BY <2>1, <2>2
<1>4. /\ queue' \in Seq(Events) /\ ToSet(queue) \subseteq ToSet(queue')
      /\ ToSet(batch[c]) \subseteq ToSet(queue') \cup received' \cup cancelled'
  <2>1. CASE GiveUp(c)
    BY <1>2, <2>1, ToSetProperties, ConcatProperties DEF GiveUp, PutBack
  <2>2. CASE Succeed(c)
    BY <1>2, <2>2 DEF Succeed
  <2>3. CASE Unwind(c)
    BY <1>1, <1>2, <2>3 DEF Unwind, WebhookInv, CancelledKept
  <2> QED BY <2>1, <2>2, <2>3
<1>5. TypeOK' /\ EmptyHanded' /\ CancelledKept' /\ Fresh' /\ TimerStarted'
  BY <1>1, <1>3, <1>4, EndKeeps DEF WebhookInv, TypeOK
<1>6. \A d \in Coroutines : d # c => batch'[d] = batch[d]
  BY <1>1, EndKeeps
<1>7. Accounted'
  <2>1. ASSUME NEW d \in 1 .. published
        PROVE  \/ d \in ToSet(queue') \/ (\E b \in Coroutines : d \in ToSet(batch'[b]))
               \/ d \in received' \/ d \in cancelled'
    BY <1>1, <1>3, <1>4, <1>6, AccountedIsKept DEF WebhookInv, Kept
  <2> QED BY <1>1, <2>1, KeptNext
<1> QED BY <1>5, <1>7 DEF WebhookInv

\* A retry keeps its batch.
LEMMA RetryStep ==
  ASSUME WebhookInv, NEW c \in Coroutines, Fail(c) \/ Retry(c)
  PROVE  WebhookInv'
<1> USE Numbers
<1>1. /\ UNCHANGED <<published, queue, timer, timed, batch, removed, cancelled>>
      /\ at[c] \in Posting /\ \E p \in Posting : at' = [at EXCEPT ![c] = p]
  BY DEF Fail, Retry, Posting
<1>2. ToSet(batch[c]) \subseteq Events
  BY ToSetProperties DEF WebhookInv, TypeOK
<1>3. /\ received \subseteq received' /\ received' \subseteq Events
      /\ unclear' \subseteq received' /\ failures' \in 0 .. MaxFailures
  <2>1. CASE Fail(c)
    <3>1. PICK taken \in {{}, ToSet(batch[c])} : Lost(taken)
      BY <2>1 DEF Fail
    <3>2. taken \in SUBSET Events
      BY <1>2
    <3> QED BY <3>1, <3>2, LostKeeps DEF WebhookInv
  <2>2. CASE Retry(c)
    BY <2>2 DEF Retry, WebhookInv, TypeOK, server
  <2> QED BY <2>1, <2>2
<1>4. attempt' \in [Coroutines -> 0 .. Retries]
  <2>1. attempt \in [Coroutines -> 0 .. Retries]
    BY DEF WebhookInv, TypeOK
  <2>2. CASE Fail(c)
    BY <2>1, <2>2 DEF Fail, MayRetry
  <2>3. CASE Retry(c)
    BY <2>1, <2>3 DEF Retry
  <2> QED BY <2>2, <2>3
<1>5. TypeOK'
  BY <1>1, <1>3, <1>4 DEF WebhookInv, TypeOK, Places, Posting
<1>6. EmptyHanded' /\ CancelledKept' /\ Fresh' /\ TimerStarted'
  BY <1>1
     DEF WebhookInv, TypeOK, EmptyHanded, CancelledKept, Fresh, TimerStarted, Posting
<1>7. Accounted'
  BY <1>1, <1>3, AccountedIsKept, KeptNext DEF WebhookInv, Kept
<1> QED BY <1>5, <1>6, <1>7 DEF WebhookInv

\* Every step keeps the first invariant.
LEMMA WebhookInvStep == WebhookInv /\ [Next]_vars => WebhookInv'
<1> SUFFICES ASSUME WebhookInv, [Next]_vars PROVE WebhookInv'
  OBVIOUS
<1>1. ASSUME NEW c \in Coroutines, Step(c) PROVE WebhookInv'
  BY <1>1, WakeStep, EndStep, RetryStep DEF Step
<1>2. CASE Unsubscribe \/ UNCHANGED vars
  <2>1. UNCHANGED <<published, queue, timer, timed, at, batch, attempt, failures, received,
                    unclear, cancelled>> /\ removed' \in BOOLEAN
    BY <1>2 DEF Unsubscribe, vars, local, server, WebhookInv, TypeOK
  <2> QED
    BY <2>1 DEF WebhookInv, TypeOK, EmptyHanded, CancelledKept, Fresh, TimerStarted,
                Accounted, Queued, Holders
<1> QED
  BY <1>1, <1>2, CallPostsStep, CallBuffersStep, CloseCallStep DEF Next

\* The first invariant holds always.
LEMMA WebhookInvariant == Spec => []WebhookInv
BY WebhookInvInit, WebhookInvStep, PTL DEF Spec

-----------------------------------------------------------------------------
\* Every field keeps its type; no batch is tried more often than num_retries allows.
THEOREM WebhookTyped == Spec => []TypeOK
BY WebhookInvariant, PTL DEF WebhookInv

\* However requests fail and coroutines interleave, an event handed to the subscriber is
\* queued, in a batch, at the server, or was with a timer task when it was cancelled: the
\* cancellation of a posting timer is the only way an event is lost.
THEOREM EventsAccounted == Spec => []Accounted
BY WebhookInvariant, PTL DEF WebhookInv

-----------------------------------------------------------------------------
\* A timer is a timer task that sleeps or posts: who ends one forgets it, and a task that
\* is cancelled was forgotten first.
LEMMA TimerStep == WebhookInv /\ TimerIsAlive /\ [Next]_vars => TimerIsAlive'
<1> SUFFICES ASSUME WebhookInv, TimerIsAlive, [Next]_vars, timer' # NoTimer
             PROVE  timer' \in timed' /\ at'[timer'] \in {"sleep"} \cup Posting
  BY DEF TimerIsAlive
<1> USE Numbers
<1>1. /\ at \in [Coroutines -> Places] /\ published \in Nat
      /\ timer \in Events \cup {NoTimer} /\ timed \subseteq Events
  BY DEF WebhookInv, TypeOK
<1>2. ASSUME UNCHANGED <<timer, timed>>, at'[timer] = at[timer] \/ at'[timer] \in Posting
      PROVE  timer' \in timed' /\ at'[timer'] \in {"sleep"} \cup Posting
  BY <1>2 DEF TimerIsAlive
<1>3. ASSUME CallPosts \/ CloseCall PROVE FALSE
  BY <1>3 DEF CallPosts, CloseCall, CancelTimer
<1>4. CASE CallBuffers
  <2>1. CASE NeedsTimer
    <3>1. timer' = published + 1 /\ timed' = timed \cup {timer'} /\ timer' \in Events
          /\ at' = [at EXCEPT ![timer'] = "sleep"]
      BY <1>1, <1>4, <2>1 DEF CallBuffers, Events
    <3>2. at'[timer'] = "sleep"
      BY <1>1, <3>1
    <3> QED BY <3>1, <3>2
  <2>2. CASE ~ NeedsTimer
    BY <1>2, <1>4, <2>2 DEF CallBuffers
  <2> QED BY <2>1, <2>2
\* Another coroutine ends: the timer is untouched; the timer ends: it is forgotten.
<1>5. ASSUME NEW c \in Coroutines, End(c), timed' = timed
      PROVE  timer' \in timed' /\ at'[timer'] \in {"sleep"} \cup Posting
  <2>1. timer' = timer /\ timer # NoTimer /\ c \notin timed
    BY <1>5 DEF End, Cleared
  <2>2. timer # c
    BY <2>1 DEF TimerIsAlive
  <2>3. at'[timer] = at[timer]
    BY <1>1, <1>5, <2>2 DEF End
  <2> QED BY <1>2, <1>5, <2>1, <2>3
<1>6. ASSUME NEW c \in Coroutines, NEW p \in Posting, at' = [at EXCEPT ![c] = p],
             UNCHANGED <<timer, timed>>
      PROVE  timer' \in timed' /\ at'[timer'] \in {"sleep"} \cup Posting
  <2>1. at'[timer] = at[timer] \/ at'[timer] \in Posting
    BY <1>1, <1>6
  <2> QED BY <1>2, <1>6, <2>1
<1>7. ASSUME NEW c \in Coroutines, Step(c)
      PROVE  timer' \in timed' /\ at'[timer'] \in {"sleep"} \cup Posting
  <2>1. CASE Fail(c) \/ Retry(c)
    BY <1>6, <2>1 DEF Fail, Retry, Posting
  <2>2. CASE Unwind(c) \/ Succeed(c) \/ GiveUp(c)
    BY <1>5, <2>2 DEF Unwind, Succeed, GiveUp
  <2>3. CASE Wake(c)
    <3>1. CASE queue # <<>>
      BY <1>6, <2>3, <3>1 DEF Wake, Post, Posting
    <3>2. CASE queue = <<>>
      BY <1>5, <2>3, <3>2 DEF Wake
    <3> QED BY <3>1, <3>2
  <2> QED BY <1>7, <2>1, <2>2, <2>3 DEF Step
<1>8. CASE Unsubscribe \/ UNCHANGED vars
  BY <1>2, <1>8 DEF Unsubscribe, vars, local
<1> QED BY <1>3, <1>4, <1>7, <1>8 DEF Next

\* `_flush_timer`, while it is set, is a task that will still run: an event is never left
\* in the buffer on the strength of a timer that has ended or was cancelled.
THEOREM TimerStaysAlive == Spec => []TimerIsAlive
<1>1. Init => TimerIsAlive
  BY DEF Init, TimerIsAlive
<1> QED BY <1>1, TimerStep, WebhookInvariant, PTL DEF Spec

-----------------------------------------------------------------------------
(***************************************************************************)
(* That an event is in one place is inductive once it is said of the sets  *)
(* of events: the queue, the batches and what the server surely has are    *)
(* disjoint, and everything in them has been published.                    *)
(***************************************************************************)
Delivered == received \ unclear

Apart == /\ IsInjective(queue) /\ \A c \in Coroutines : IsInjective(batch[c])
         /\ \A c, d \in Coroutines : c # d => ToSet(batch[c]) \cap ToSet(batch[d]) = {}
         /\ \A c \in Coroutines : /\ ToSet(batch[c]) \cap ToSet(queue) = {}
                                  /\ ToSet(batch[c]) \cap Delivered = {}
                                  /\ ToSet(batch[c]) \subseteq 1 .. published
         /\ ToSet(queue) \cap Delivered = {}
         /\ ToSet(queue) \subseteq 1 .. published
         /\ Delivered \subseteq 1 .. published

\* Lists without repetition, joined, have none if they share nothing.
LEMMA InjectiveSequences ==
  ASSUME NEW S, NEW s \in Seq(S), IsInjective(s)
  PROVE  /\ IsInjective(<<>>)
         /\ \A x \in S \ ToSet(s) : IsInjective(Append(s, x))
         /\ \A r \in Seq(S) : IsInjective(r) /\ ToSet(s) \cap ToSet(r) = {} => IsInjective(s \o r)
<1>1. IsInjective(<<>>)
  BY DEF IsInjective
<1>2. DOMAIN s = 1 .. Len(s) /\ Len(s) \in Nat
  OBVIOUS
<1>3. ASSUME NEW x \in S \ ToSet(s) PROVE IsInjective(Append(s, x))
  <2>1. /\ DOMAIN Append(s, x) = 1 .. Len(s) + 1
        /\ \A i \in 1 .. Len(s) : Append(s, x)[i] = s[i]
        /\ Append(s, x)[Len(s) + 1] = x
    BY AppendProperties
  <2>2. \A i \in 1 .. Len(s) : s[i] # x
    BY <1>2 DEF ToSet
  <2>3. \A i, j \in 1 .. Len(s) : s[i] = s[j] => i = j
    BY <1>2 DEF IsInjective
  <2>4. \A i \in 1 .. Len(s) + 1 : i \in 1 .. Len(s) \/ i = Len(s) + 1
    BY <1>2
  <2> QED BY <2>1, <2>2, <2>3, <2>4 DEF IsInjective
<1>4. ASSUME NEW r \in Seq(S), IsInjective(r), ToSet(s) \cap ToSet(r) = {}
      PROVE  IsInjective(s \o r)
  <2>1. DOMAIN r = 1 .. Len(r) /\ Len(r) \in Nat
    OBVIOUS
  <2>2. /\ s \o r \in Seq(S) /\ Len(s \o r) = Len(s) + Len(r)
        /\ \A i \in 1 .. Len(s) + Len(r) :
             (s \o r)[i] = IF i <= Len(s) THEN s[i] ELSE r[i - Len(s)]
    BY ConcatProperties
  <2>3. DOMAIN (s \o r) = 1 .. Len(s) + Len(r)
    BY <2>2
  <2>4. /\ \A i, j \in 1 .. Len(s) : s[i] = s[j] => i = j
        /\ \A i, j \in 1 .. Len(r) : r[i] = r[j] => i = j
        /\ \A i \in 1 .. Len(s) : \A j \in 1 .. Len(r) : s[i] # r[j]
    <3>1. \A i, j \in 1 .. Len(s) : s[i] = s[j] => i = j
      BY <1>2 DEF IsInjective
    <3>2. \A i, j \in 1 .. Len(r) : r[i] = r[j] => i = j
      BY <1>4, <2>1 DEF IsInjective
    <3>3. ASSUME NEW i \in 1 .. Len(s), NEW j \in 1 .. Len(r) PROVE s[i] # r[j]
      <4>1. s[i] \in ToSet(s) /\ r[j] \in ToSet(r)
        BY <1>2, <2>1 DEF ToSet
      <4> QED BY <1>4, <4>1
    <3> QED BY <3>1, <3>2, <3>3
  <2>5. ASSUME NEW i \in 1 .. Len(s) + Len(r), NEW j \in 1 .. Len(s) + Len(r),
               (s \o r)[i] = (s \o r)[j]
        PROVE  i = j
    <3>1. CASE i <= Len(s) /\ j <= Len(s)
      BY <1>2, <2>1, <2>2, <2>4, <2>5, <3>1
    <3>2. CASE i > Len(s) /\ j > Len(s)
      <4>1. i - Len(s) \in 1 .. Len(r) /\ j - Len(s) \in 1 .. Len(r)
        BY <1>2, <2>1, <3>2
      <4>2. (s \o r)[i] = r[i - Len(s)] /\ (s \o r)[j] = r[j - Len(s)]
        BY <1>2, <2>1, <2>2, <3>2
      <4>3. r[i - Len(s)] = r[j - Len(s)]
        BY <2>5, <4>2
      <4>4. i - Len(s) = j - Len(s)
        BY <2>4, <4>1, <4>3
      <4> QED BY <1>2, <4>4
    <3>3. CASE i <= Len(s) /\ j > Len(s)
      <4>1. i \in 1 .. Len(s) /\ j - Len(s) \in 1 .. Len(r)
        BY <1>2, <2>1, <3>3
      <4>2. s[i] = r[j - Len(s)]
        BY <1>2, <2>1, <2>2, <2>5, <3>3
      <4> QED BY <2>4, <4>1, <4>2
    <3>4. CASE i > Len(s) /\ j <= Len(s)
      <4>1. j \in 1 .. Len(s) /\ i - Len(s) \in 1 .. Len(r)
        BY <1>2, <2>1, <3>4
      <4>2. s[j] = r[i - Len(s)]
        BY <1>2, <2>1, <2>2, <2>5, <3>4
      <4> QED BY <2>4, <4>1, <4>2
    <3> QED BY <1>2, <2>1, <3>1, <3>2, <3>3, <3>4
  <2> QED BY <2>3, <2>5 DEF IsInjective
<1> QED BY <1>1, <1>3, <1>4

\* The sequences a step works with.
LEMMA Sequences ==
  ASSUME WebhookInv
  PROVE  /\ queue \in Seq(Events) /\ batch \in [Coroutines -> Seq(Events)]
         /\ ToSet(<<>>) = {} /\ IsInjective(<<>>)
         /\ published \in Nat
BY ToSetProperties, InjectiveSequences DEF WebhookInv, TypeOK, ToSet, IsInjective

\* Nothing moves: the server may take more of what a failed request carried.
LEMMA ApartStays ==
  ASSUME WebhookInv, Apart, UNCHANGED <<queue, batch, published>>, Delivered' \subseteq Delivered
  PROVE  Apart'
BY DEF Apart

\* A batch is dropped, or delivered.
LEMMA ApartEnds ==
  ASSUME WebhookInv, Apart, NEW c \in Coroutines,
         UNCHANGED <<queue, published>>, batch' = [batch EXCEPT ![c] = <<>>],
         Delivered' \subseteq Delivered \cup ToSet(batch[c])
  PROVE  Apart'
<1>1. batch'[c] = <<>> /\ \A d \in Coroutines \ {c} : batch'[d] = batch[d]
  BY Sequences
<1> QED BY <1>1, Sequences DEF Apart

\* A batch goes back to the queue.
LEMMA ApartReturns ==
  ASSUME WebhookInv, Apart, NEW c \in Coroutines, published' = published,
         queue' = queue \o batch[c], batch' = [batch EXCEPT ![c] = <<>>],
         Delivered' \subseteq Delivered
  PROVE  Apart'
<1>1. batch'[c] = <<>> /\ \A d \in Coroutines \ {c} : batch'[d] = batch[d]
  BY Sequences
<1>2. ToSet(queue') = ToSet(queue) \cup ToSet(batch[c])
  BY Sequences, ToSetProperties
<1>3. IsInjective(queue')
  BY Sequences, InjectiveSequences DEF Apart
<1> QED BY <1>1, <1>2, <1>3, Sequences DEF Apart

\* A batch is taken from the queue; the event of a full buffer goes with it.
LEMMA ApartPosts ==
  ASSUME WebhookInv, Apart, NEW c \in Coroutines, batch[c] = <<>>, queue' = <<>>,
         UNCHANGED <<received, unclear>>,
         \/ batch' = [batch EXCEPT ![c] = queue] /\ published' = published
         \/ /\ batch' = [batch EXCEPT ![c] = Append(queue, published + 1)]
            /\ published' = published + 1 /\ published + 1 \in Events
  PROVE  Apart'
<1>1. \A d \in Coroutines \ {c} : batch'[d] = batch[d]
  BY Sequences
<1>2. 1 .. published \subseteq 1 .. published' /\ published' \in {published, published + 1}
  BY Sequences
<1>3. /\ IsInjective(batch'[c])
      /\ ToSet(batch'[c]) \subseteq ToSet(queue) \cup (1 .. published' \ 1 .. published)
  <2>1. CASE batch' = [batch EXCEPT ![c] = queue]
    <3>1. batch'[c] = queue
      BY <2>1, Sequences
    <3> QED BY <3>1 DEF Apart
  <2>2. CASE /\ batch' = [batch EXCEPT ![c] = Append(queue, published + 1)]
             /\ published' = published + 1 /\ published + 1 \in Events
    <3>1. batch'[c] = Append(queue, published + 1)
      BY <2>2, Sequences
    <3>2. published + 1 \in 1 .. published' \ 1 .. published
      BY <2>2, Sequences
    <3>3. published + 1 \notin ToSet(queue)
      BY <3>2 DEF Apart
    <3>4. ToSet(batch'[c]) = ToSet(queue) \cup {published + 1}
      BY <3>1, <2>2, Sequences, ToSetProperties
    <3>5. IsInjective(Append(queue, published + 1))
      BY <2>2, <3>3, Sequences, InjectiveSequences DEF Apart
    <3> QED BY <3>1, <3>2, <3>4, <3>5
  <2> QED BY <2>1, <2>2
<1>4. Delivered' = Delivered
  BY DEF Delivered
<1> QED BY <1>1, <1>2, <1>3, <1>4, Sequences DEF Apart

\* An event joins the queue.
LEMMA ApartBuffers == ASSUME WebhookInv, Apart, CallBuffers PROVE Apart'
<1>1. /\ published' = published + 1 /\ published + 1 \in Events
      /\ queue' = Append(queue, published + 1) /\ batch' = batch /\ Delivered' = Delivered
  <2>1. published + 1 \in Events
    BY Sequences, Numbers DEF CallBuffers, Events
  <2>2. queue' = Append(queue, published + 1) /\ batch' = batch
    BY DEF CallBuffers
  <2>3. published' = published + 1 /\ UNCHANGED <<received, unclear>>
    BY DEF CallBuffers, server
  <2> QED BY <2>1, <2>2, <2>3 DEF Delivered
<1>2. 1 .. published \subseteq 1 .. published' /\ published + 1 \in 1 .. published' \ 1 .. published
  BY <1>1, Sequences
<1>3. published + 1 \notin ToSet(queue)
  BY <1>2 DEF Apart
<1>4. ToSet(queue') = ToSet(queue) \cup {published + 1}
  BY <1>1, Sequences, ToSetProperties
<1>5. IsInjective(queue')
  BY <1>1, <1>3, Sequences, InjectiveSequences DEF Apart
<1> QED BY <1>1, <1>2, <1>4, <1>5, Sequences DEF Apart

\* Every step keeps the places of the events apart.
LEMMA ApartStep == WebhookInv /\ Apart /\ [Next]_vars => Apart'
<1> SUFFICES ASSUME WebhookInv, Apart, [Next]_vars PROVE Apart'
  OBVIOUS
<1> USE Numbers
<1>1. CASE CallPosts
  <2> DEFINE e == published + 1
  <2>1. e \in Coroutines /\ at[e] = "none" /\ e \in Events
    BY <1>1, Sequences DEF CallPosts, WebhookInv, TypeOK, Fresh, Events
  <2>2. batch[e] = <<>>
    BY <2>1 DEF WebhookInv, EmptyHanded
  <2>3. /\ batch' = [batch EXCEPT ![e] = Append(queue, e)] /\ queue' = <<>>
        /\ published' = e /\ UNCHANGED <<received, unclear>>
    BY <1>1 DEF CallPosts, Post, Taken, server
  <2> QED BY <2>1, <2>2, <2>3, ApartPosts
<1>2. CASE CallBuffers
  BY <1>2, ApartBuffers
<1>3. CASE CloseCall
  <2>1. batch[Close] = <<>> /\ UNCHANGED <<published, received, unclear>>
    BY <1>3 DEF CloseCall, server, WebhookInv, EmptyHanded
  <2>2. CASE queue # <<>>
    BY <1>3, <2>1, <2>2, ApartPosts DEF CloseCall, Post, Taken
  <2>3. CASE queue = <<>>
    BY <1>3, <2>1, <2>3, ApartStays DEF CloseCall, Delivered
  <2> QED BY <2>2, <2>3
<1>4. ASSUME NEW c \in Coroutines, Wake(c) PROVE Apart'
  <2>1. batch[c] = <<>> /\ UNCHANGED <<published, received, unclear>>
    BY <1>4 DEF Wake, server, WebhookInv, EmptyHanded
  <2>2. CASE queue # <<>>
    BY <1>4, <2>1, <2>2, ApartPosts DEF Wake, Post, Taken
  <2>3. CASE queue = <<>>
    BY <1>4, <2>1, <2>3, ApartEnds DEF Wake, End, Delivered
  <2> QED BY <2>2, <2>3
<1>5. ASSUME NEW c \in Coroutines, Unwind(c) \/ Succeed(c) PROVE Apart'
  <2>1. /\ UNCHANGED <<queue, published, unclear>> /\ batch' = [batch EXCEPT ![c] = <<>>]
        /\ received' \subseteq received \cup ToSet(batch[c])
    BY <1>5 DEF Unwind, Succeed, End
  <2> QED BY <2>1, ApartEnds DEF Delivered
<1>6. ASSUME NEW c \in Coroutines, Fail(c) \/ Retry(c) PROVE Apart'
  <2>1. UNCHANGED <<queue, batch, published>> /\ Delivered' \subseteq Delivered
    BY <1>6 DEF Fail, Retry, Lost, Delivered, server
  <2> QED BY <2>1, ApartStays
<1>7. ASSUME NEW c \in Coroutines, GiveUp(c) PROVE Apart'
  <2>1. /\ published' = published /\ queue' = queue \o batch[c]
        /\ batch' = [batch EXCEPT ![c] = <<>>] /\ Delivered' \subseteq Delivered
    BY <1>7 DEF GiveUp, PutBack, End, Lost, Delivered
  <2> QED BY <2>1, ApartReturns
<1>8. CASE Unsubscribe \/ UNCHANGED vars
  BY <1>8, ApartStays DEF Unsubscribe, vars, local, server, Delivered
<1> QED BY <1>1, <1>2, <1>3, <1>4, <1>5, <1>6, <1>7, <1>8 DEF Next, Step

\* Places that are apart: an event is in one of them.
LEMMA ApartIsOnePlace == WebhookInv /\ Apart => InOnePlace
<1> SUFFICES ASSUME WebhookInv, Apart, NEW e \in 1 .. published
             PROVE  /\ Cardinality(Holders(e)) + (IF Queued(e) THEN 1 ELSE 0) <= 1
                    /\ e \in received \ unclear => ~ Queued(e) /\ Holders(e) = {}
  BY DEF InOnePlace, Apart
<1>1. CASE Holders(e) = {}
  <2>1. Cardinality(Holders(e)) = 0
    BY <1>1, FS_EmptySet
  <2>2. e \in received \ unclear => ~ Queued(e)
    BY DEF Apart, Delivered, Queued
  <2> QED BY <1>1, <2>1, <2>2
<1>2. CASE Holders(e) # {}
  <2>1. PICK c \in Coroutines : e \in ToSet(batch[c])
    BY <1>2 DEF Holders
  <2>2. Holders(e) = {c}
    BY <2>1 DEF Holders, Apart
  <2>3. Cardinality(Holders(e)) = 1
    BY <2>2, FS_Singleton
  <2>4. ~ Queued(e) /\ e \notin received \ unclear
    BY <2>1 DEF Apart, Delivered, Queued
  <2> QED BY <2>3, <2>4
<1> QED BY <1>1, <1>2

\* However requests fail, timers fire and are cancelled and batches go back, an event is
\* never in two places, and it is nowhere once the server has surely taken it: it is
\* posted twice only after a request for it failed.
THEOREM NothingPostedTwice == Spec => []InOnePlace
<1>1. Init => Apart
  <2> SUFFICES ASSUME Init PROVE Apart
    OBVIOUS
  <2>1. WebhookInv
    BY WebhookInvInit
  <2> QED BY <2>1, Sequences DEF Init, Apart, Delivered
<1> QED BY <1>1, ApartStep, ApartIsOnePlace, WebhookInvariant, PTL DEF Spec
=============================================================================
