---------------------- MODULE RemoteConversationProofs ----------------------
(***************************************************************************)
(* Theorems about RemoteConversation with the server of EventService, for  *)
(* any size of a page, any number of runs, messages and delayed deliveries *)
(* and any order of what the caller, the websocket and the server do: the  *)
(* proofs do without the condition of Next that what is on the wire is     *)
(* received first.                                                         *)
(***************************************************************************)
EXTENDS RemoteConversation, FiniteSetTheorems, SequenceTheorems, WellFoundedInduction, TLAPS

(***************************************************************************)
(* Lists of events by time: bisecting, inserting, merging, and what a page *)
(* of the log by time holds.  A recursive function is reasoned about by    *)
(* the smallest argument that would be an exception (Smallest).            *)
(***************************************************************************)
Strict(seq) == \A i, j \in 1 .. Len(seq) : i < j => seq[i] < seq[j]

\* A set of numbers that is not empty has a smallest member.
LEMMA Smallest ==
  ASSUME NEW S, S \subseteq Nat, S # {}
  PROVE  \E a \in S : \A b \in S : a <= b
<1> DEFINE R == {ss \in Nat \X Nat : ss[1] < ss[2]}
<1>1. IsWellFoundedOn(R, Nat)
  BY NatLessThanWellFounded DEF OpToRel
<1> HIDE DEF R
<1>2. PICK a \in S : \A b \in S : ~ (<<b, a>> \in R)
  BY <1>1, WFMin
<1>3. ASSUME NEW b \in S PROVE a <= b
  <2>1. a \in Nat /\ b \in Nat /\ <<b, a>> \notin R
    BY <1>2
  <2> QED BY <2>1 DEF R
<1> QED BY <1>3

\* Bisect counts the entries up to n, and in an ordered list they come first.
LEMMA BisectSplits ==
  ASSUME NEW seq \in Seq(Nat), Strict(seq), NEW n \in Nat
  PROVE  /\ Bisect(seq, n) \in 0 .. Len(seq)
         /\ \A i \in 1 .. Len(seq) : seq[i] <= n <=> i <= Bisect(seq, n)
<1> DEFINE len == Len(seq)
           Later == {i \in 1 .. len : seq[i] > n} \cup {len + 1}
<1>1. len \in Nat /\ \A i \in 1 .. len : seq[i] \in Nat
  OBVIOUS
<1>2. PICK a \in Later : \A b \in Later : a <= b
  <2>1. Later \subseteq Nat /\ Later # {}
    BY <1>1
  <2> HIDE DEF Later
  <2> QED BY <2>1, Smallest
<1>3. a - 1 \in 0 .. len /\ \A i \in 1 .. len : seq[i] <= n <=> i <= a - 1
  <2>1. a \in 1 .. len + 1
    BY <1>1
  <2>2. ASSUME NEW i \in 1 .. len PROVE seq[i] <= n <=> i <= a - 1
    <3>1. CASE i <= a - 1
      <4>1. i \notin Later
        BY <1>2, <2>1, <3>1
      <4> QED BY <1>1, <3>1, <4>1
    <3>2. CASE ~(i <= a - 1)
      <4>1. a \in 1 .. len /\ seq[a] > n
        BY <1>1, <2>1, <3>2
      <4>2. seq[i] >= seq[a]
        BY <1>1, <2>1, <3>2, <4>1 DEF Strict
      <4> QED BY <1>1, <3>2, <4>1, <4>2
    <3> QED BY <3>1, <3>2
  <2> QED BY <1>1, <2>1, <2>2
<1>4. {i \in DOMAIN seq : seq[i] <= n} = 1 .. (a - 1)
  <2>1. DOMAIN seq = 1 .. len
    OBVIOUS
  <2> HIDE DEF len
  <2> QED BY <1>1, <1>3, <2>1
<1>5. Cardinality(1 .. (a - 1)) = a - 1
  BY <1>3, FS_Interval
<1>6. Bisect(seq, n) = a - 1
  BY <1>4, <1>5 DEF Bisect
<1> QED BY <1>3, <1>6

\* What InsertAt leaves at each place.
LEMMA InsertAtIs ==
  ASSUME NEW seq \in Seq(Nat), NEW n \in Nat, NEW k \in 0 .. Len(seq)
  PROVE  LET new == InsertAt(seq, k + 1, n) IN
         /\ new \in Seq(Nat) /\ Len(new) = Len(seq) + 1
         /\ \A i \in 1 .. k : new[i] = seq[i]
         /\ new[k + 1] = n
         /\ \A i \in k + 2 .. Len(seq) + 1 : new[i] = seq[i - 1]
<1> DEFINE front == SubSeq(seq, 1, k)
           back == SubSeq(seq, k + 1, Len(seq))
<1>1. /\ front \in Seq(Nat) /\ Len(front) = k /\ \A i \in 1 .. k : front[i] = seq[i]
      /\ back \in Seq(Nat) /\ Len(back) = Len(seq) - k
      /\ \A i \in 1 .. Len(seq) - k : back[i] = seq[i + k]
  <2>1. /\ k \in Int /\ k + 1 \in Int /\ Len(seq) \in Int /\ 0 <= k /\ k <= Len(seq)
        /\ \A i \in 1 .. k : seq[i] \in Nat
        /\ \A i \in k + 1 .. Len(seq) : seq[i] \in Nat
    OBVIOUS
  <2>2. front \in Seq(Nat) /\ Len(front) = k /\ \A i \in 1 .. k : front[i] = seq[i]
    BY <2>1, SubSeqProperties
  <2>3. /\ back \in Seq(Nat) /\ Len(back) = Len(seq) - k
        /\ \A i \in 1 .. Len(seq) - k : back[i] = seq[k + 1 + i - 1]
    BY <2>1, SubSeqProperties
  <2>4. \A i \in Int : k + 1 + i - 1 = i + k
    BY <2>1
  <2> QED BY <2>1, <2>2, <2>3, <2>4
<1>2. InsertAt(seq, k + 1, n) = front \o <<n>> \o back
  <2>1. (k + 1) - 1 = k
    OBVIOUS
  <2> QED BY <2>1, Zenon DEF InsertAt
<1> HIDE DEF front, back
<1>3. front \o <<n>> = Append(front, n)
  BY <1>1
<1>4. /\ Append(front, n) \in Seq(Nat) /\ Len(Append(front, n)) = k + 1
      /\ \A i \in 1 .. k : Append(front, n)[i] = front[i]
      /\ Append(front, n)[k + 1] = n
  BY <1>1
<1> DEFINE left == Append(front, n)
<1> HIDE DEF left
<1>5. /\ left \o back \in Seq(Nat) /\ Len(left \o back) = Len(left) + Len(back)
      /\ \A i \in 1 .. Len(left) : (left \o back)[i] = left[i]
      /\ \A i \in Len(left) + 1 .. Len(left) + Len(back) : (left \o back)[i] = back[i - Len(left)]
  <2>1. left \in Seq(Nat) /\ back \in Seq(Nat)
    BY <1>1, <1>4 DEF left
  <2> QED BY <2>1, ConcatProperties
<1>6. \A i \in k + 2 .. Len(seq) + 1 : back[i - (k + 1)] = seq[i - 1]
  <2> SUFFICES ASSUME NEW i \in k + 2 .. Len(seq) + 1 PROVE back[i - (k + 1)] = seq[i - 1]
    OBVIOUS
  <2>1. i - (k + 1) \in 1 .. Len(seq) - k /\ (i - (k + 1)) + k = i - 1
    OBVIOUS
  <2>2. \A j \in 1 .. Len(seq) - k : back[j] = seq[j + k]
    BY <1>1
  <2> QED BY <2>1, <2>2
<1>7. Len(left) = k + 1 /\ (k + 1) + Len(back) = Len(seq) + 1
  BY <1>1, <1>4 DEF left
<1>8. InsertAt(seq, k + 1, n) = left \o back
  BY <1>2, <1>3, Zenon DEF left
<1>9. \A i \in 1 .. k + 1 : (left \o back)[i] = left[i]
  BY <1>5, <1>7
<1>10. \A i \in k + 2 .. Len(seq) + 1 : (left \o back)[i] = back[i - (k + 1)]
  <2> SUFFICES ASSUME NEW i \in k + 2 .. Len(seq) + 1
               PROVE  (left \o back)[i] = back[i - (k + 1)]
    OBVIOUS
  <2>1. i \in Len(left) + 1 .. Len(left) + Len(back) /\ i - Len(left) = i - (k + 1)
    BY <1>7
  <2> QED BY <1>5, <2>1
<1>11. (left \o back) \in Seq(Nat) /\ Len(left \o back) = Len(seq) + 1
  BY <1>5, <1>7
<1>12. left[k + 1] = n /\ \A i \in 1 .. k : left[i] = seq[i]
  BY <1>1, <1>4 DEF left
<1>13. \A i \in 1 .. k : (left \o back)[i] = seq[i]
  <2> SUFFICES ASSUME NEW i \in 1 .. k PROVE (left \o back)[i] = seq[i]
    OBVIOUS
  <2>1. i \in 1 .. k + 1
    OBVIOUS
  <2>2. (left \o back)[i] = left[i] /\ left[i] = seq[i]
    BY <1>9, <1>12, <2>1
  <2> QED BY <2>2
<1>14. (left \o back)[k + 1] = n
  <2>1. k + 1 \in 1 .. k + 1
    OBVIOUS
  <2> QED BY <1>9, <1>12, <2>1
<1>15. \A i \in k + 2 .. Len(seq) + 1 : (left \o back)[i] = seq[i - 1]
  BY <1>6, <1>10
<1> HIDE DEF left
<1> QED BY <1>8, <1>11, <1>13, <1>14, <1>15, Zenon

\* _add_event_unsafe keeps the order and adds the one event.
LEMMA AddEventIs ==
  ASSUME NEW seq \in Seq(Nat), Strict(seq), NEW n \in Nat
  PROVE  LET new == AddEvent(seq, n) IN
         new \in Seq(Nat) /\ Strict(new) /\ ToSet(new) = ToSet(seq) \cup {n}
<1>1. CASE n \in ToSet(seq)
  BY <1>1 DEF AddEvent
<1>2. CASE n \notin ToSet(seq)
  <2> DEFINE k == Bisect(seq, n)
             len == Len(seq)
             new == InsertAt(seq, k + 1, n)
  <2>1. /\ k \in 0 .. len /\ \A i \in 1 .. len : seq[i] <= n <=> i <= k
        /\ AddEvent(seq, n) = new /\ len \in Nat
    BY <1>2, BisectSplits DEF AddEvent
  <2> HIDE DEF k
  <2>2. /\ new \in Seq(Nat) /\ Len(new) = len + 1
        /\ \A i \in 1 .. k : new[i] = seq[i]
        /\ new[k + 1] = n
        /\ \A i \in k + 2 .. len + 1 : new[i] = seq[i - 1]
    BY <2>1, InsertAtIs
  <2>3. \A i \in 1 .. len : seq[i] \in Nat /\ seq[i] # n
    BY <1>2 DEF ToSet
  <2>4. DOMAIN seq = 1 .. len /\ DOMAIN new = 1 .. len + 1
    BY <2>2
  <2>7. /\ \A i, j \in 1 .. len : i < j => seq[i] < seq[j]
        /\ \A i \in 1 .. len + 1 : new[i] \in Nat
    BY <2>2, <2>4 DEF Strict
  <2> HIDE DEF new, len
  <2>5. ASSUME NEW i \in 1 .. len + 1, NEW j \in 1 .. len + 1, i < j PROVE new[i] < new[j]
    <3>1. CASE j <= k
      BY <2>1, <2>2, <2>5, <2>7, <3>1
    <3>2. CASE j = k + 1
      <4>1. i \in 1 .. k /\ new[i] = seq[i] /\ seq[i] <= n /\ seq[i] # n /\ seq[i] \in Nat
        BY <2>1, <2>2, <2>3, <2>5, <3>2
      <4> QED BY <2>2, <3>2, <4>1
    <3>3. CASE i = k + 1
      <4>1. /\ j \in k + 2 .. len + 1 /\ j - 1 \in 1 .. len /\ ~(j - 1 <= k)
            /\ new[j] = seq[j - 1] /\ seq[j - 1] \in Nat
        BY <2>1, <2>2, <2>3, <2>5, <3>3
      <4>2. ~(seq[j - 1] <= n)
        BY <2>1, <4>1
      <4> QED BY <2>2, <3>3, <4>1, <4>2
    <3>4. CASE i > k + 1
      <4>1. /\ i \in k + 2 .. len + 1 /\ i - 1 \in 1 .. len
            /\ j \in k + 2 .. len + 1 /\ j - 1 \in 1 .. len /\ i - 1 < j - 1
        BY <2>1, <2>5, <3>4
      <4>2. new[i] = seq[i - 1] /\ new[j] = seq[j - 1]
        BY <2>2, <4>1
      <4> QED BY <2>7, <4>1, <4>2
    <3>5. CASE i <= k /\ j > k + 1
      <4>1. i \in 1 .. k /\ i \in 1 .. len /\ j \in k + 2 .. len + 1 /\ j - 1 \in 1 .. len /\ i < j - 1
        BY <2>1, <2>5, <3>5
      <4>2. new[i] = seq[i] /\ new[j] = seq[j - 1]
        BY <2>2, <4>1
      <4> QED BY <2>7, <4>1, <4>2
    <3> QED BY <2>1, <2>5, <3>1, <3>2, <3>3, <3>4, <3>5
  <2>6. ToSet(new) = ToSet(seq) \cup {n}
    <3>1. ASSUME NEW x \in ToSet(new) PROVE x \in ToSet(seq) \cup {n}
      <4>1. PICK i \in 1 .. len + 1 : x = new[i]
        BY <2>4 DEF ToSet
      <4>2. CASE i <= k
        <5>1. i \in 1 .. k /\ i \in 1 .. len
          BY <2>1, <4>2
        <5>2. x = seq[i]
          BY <2>2, <4>1, <5>1
        <5> QED BY <2>4, <5>1, <5>2 DEF ToSet
      <4>3. CASE i = k + 1
        BY <2>2, <4>1, <4>3
      <4>4. CASE i > k + 1
        <5>0. i \in k + 2 .. len + 1 /\ i - 1 \in 1 .. len
          BY <2>1, <4>1, <4>4
        <5>1. i - 1 \in 1 .. len /\ x = seq[i - 1]
          BY <2>2, <4>1, <5>0
        <5> QED BY <2>4, <5>1 DEF ToSet
      <4> QED BY <2>1, <4>2, <4>3, <4>4
    <3>2. ASSUME NEW x \in ToSet(seq) PROVE x \in ToSet(new)
      <4>1. PICK i \in 1 .. len : x = seq[i]
        BY <2>4 DEF ToSet
      <4>2. CASE i <= k
        <5>1. i \in 1 .. k /\ i \in 1 .. len + 1
          BY <2>1, <4>2
        <5>2. x = new[i]
          BY <2>2, <4>1, <5>1
        <5> QED BY <2>4, <5>1, <5>2 DEF ToSet
      <4>3. CASE i > k
        <5>1. i + 1 \in k + 2 .. len + 1 /\ (i + 1) - 1 = i /\ i + 1 \in 1 .. len + 1
          BY <2>1, <4>3
        <5>2. new[i + 1] = seq[i]
          BY <2>2, <5>1
        <5> QED BY <2>4, <4>1, <5>1, <5>2 DEF ToSet
      <4> QED BY <2>1, <4>2, <4>3
    <3>3. n \in ToSet(new)
      <4>1. k + 1 \in 1 .. len + 1
        BY <2>1
      <4> QED BY <2>2, <2>4, <4>1 DEF ToSet
    <3> QED BY <3>1, <3>2, <3>3
  <2> QED BY <2>1, <2>2, <2>5, <2>6 DEF Strict
<1> QED BY <1>1, <1>2

\* So does a merge, with all events of the list, in whatever order they come.
LEMMA MergeIs ==
  ASSUME NEW seq \in Seq(Nat), Strict(seq), NEW events \in Seq(Nat)
  PROVE  LET new == Merge(seq, events) IN
         new \in Seq(Nat) /\ Strict(new) /\ ToSet(new) = ToSet(seq) \cup ToSet(events)
<1> DEFINE len == Len(events)
           merged[i \in 0 .. len] ==
             IF i = 0 THEN seq ELSE AddEvent(merged[i - 1], events[i])
           Fine(s, k) == /\ s \in Seq(Nat) /\ Strict(s)
                         /\ ToSet(s) = ToSet(seq) \cup {events[i] : i \in 1 .. k}
           Begun(f, k) == /\ f \in [0 .. k -> Seq(Nat)] /\ f[0] = seq
                          /\ \A i \in 0 .. k : Fine(f[i], i)
                          /\ \A i \in 1 .. k : f[i] = AddEvent(f[i - 1], events[i])
<1>1. len \in Nat /\ DOMAIN events = 1 .. len /\ \A i \in 1 .. len : events[i] \in Nat
  OBVIOUS
<1>2. Merge(seq, events) = merged[len]
  BY DEF Merge
<1> HIDE DEF len
<1>3. ASSUME NEW s, NEW k \in 1 .. len, Fine(s, k - 1)
      PROVE  Fine(AddEvent(s, events[k]), k)
  <2>1. events[k] \in Nat /\ k - 1 \in Nat
    BY <1>1
  <2>2. {events[i] : i \in 1 .. k} = {events[i] : i \in 1 .. k - 1} \cup {events[k]}
    <3>1. 1 .. k = 1 .. (k - 1) \cup {k}
      BY <1>1
    <3> QED BY <3>1
  <2>3. s \in Seq(Nat) /\ Strict(s) /\ ToSet(s) = ToSet(seq) \cup {events[i] : i \in 1 .. k - 1}
    BY <1>3
  <2> DEFINE new == AddEvent(s, events[k])
  <2>4. new \in Seq(Nat) /\ Strict(new) /\ ToSet(new) = ToSet(s) \cup {events[k]}
    BY <2>1, <2>3, AddEventIs
  <2> HIDE DEF new
  <2>5. ToSet(new) = ToSet(seq) \cup {events[i] : i \in 1 .. k}
    BY <2>2, <2>3, <2>4
  <2>6. Fine(new, k)
    BY <2>4, <2>5
  <2> QED BY <2>6 DEF new
<1>4. Fine(seq, 0)
  BY DEF ToSet
<1>5. \E f : Begun(f, len)
  <2> DEFINE Bad == {k \in 0 .. len : ~ \E f : Begun(f, k)}
  <2>1. SUFFICES ASSUME Bad # {} PROVE FALSE
    <3>1. len \in 0 .. len
      BY <1>1
    <3>2. ASSUME Bad = {} PROVE \E f : Begun(f, len)
      <4> HIDE DEF Begun
      <4>1. len \notin Bad
        BY <3>2
      <4> QED BY <3>1, <4>1
    <3> HIDE DEF Bad, Begun
    <3> QED BY <3>2
  <2>2. PICK a \in Bad : \A b \in Bad : a <= b
    <3>1. Bad \subseteq Nat
      BY <1>1
    <3> HIDE DEF Bad
    <3> QED BY <2>1, <3>1, Smallest
  <2>3. a # 0
    <3> SUFFICES ASSUME a = 0 PROVE FALSE
      OBVIOUS
    <3> DEFINE f == [i \in 0 .. 0 |-> seq]
    <3>1. f \in [0 .. 0 -> Seq(Nat)] /\ f[0] = seq /\ 1 .. 0 = {} /\ 0 .. 0 = {0}
      OBVIOUS
    <3> HIDE DEF f, Fine
    <3>2. Begun(f, 0)
      BY <1>4, <3>1
    <3> QED BY <3>2
  <2>4. a - 1 \in 0 .. len /\ a - 1 \notin Bad /\ a \in 1 .. len
    <3> HIDE DEF Begun, Fine
    <3>1. a \in 0 .. len /\ Bad \subseteq 0 .. len /\ a - 1 < a
      BY <1>1, <2>2
    <3> HIDE DEF Bad
    <3> QED BY <1>1, <2>2, <2>3, <3>1
  <2>5. PICK f : Begun(f, a - 1)
    BY <2>4
  <2> DEFINE g == [i \in 0 .. a |-> IF i < a THEN f[i] ELSE AddEvent(f[a - 1], events[a])]
  <2> HIDE DEF Fine
  <2>6. Fine(f[a - 1], a - 1)
    BY <2>4, <2>5
  <2>7. Fine(AddEvent(f[a - 1], events[a]), a)
    BY <1>3, <2>4, <2>6
  <2>8. \A i \in 0 .. a : Fine(g[i], i)
    BY <2>4, <2>5, <2>7
  <2>9. g \in [0 .. a -> Seq(Nat)] /\ g[0] = seq
    BY <2>4, <2>5, <2>7 DEF Fine
  <2>10. ASSUME NEW i \in 1 .. a PROVE g[i] = AddEvent(g[i - 1], events[i])
    <3>1. i - 1 \in 0 .. a /\ i \in 0 .. a /\ i - 1 < a /\ (i < a => i \in 1 .. a - 1)
      BY <1>1, <2>4
    <3>2. g[i - 1] = f[i - 1]
      BY <3>1
    <3>3. CASE i < a
      <4>1. g[i] = f[i] /\ f[i] = AddEvent(f[i - 1], events[i])
        BY <2>5, <3>1, <3>3
      <4> QED BY <3>2, <4>1
    <3>4. CASE i = a
      <4>1. g[i] = AddEvent(f[a - 1], events[a])
        BY <3>1, <3>4
      <4> QED BY <3>2, <3>4, <4>1
    <3> QED BY <1>1, <3>3, <3>4
  <2>11. Begun(g, a)
    BY <2>8, <2>9, <2>10
  <2> QED BY <2>2, <2>11
<1>6. merged = [i \in 0 .. len |-> IF i = 0 THEN seq ELSE AddEvent(merged[i - 1], events[i])]
  <2>1. PICK f : Begun(f, len)
    BY <1>5
  <2> HIDE DEF Fine
  <2>2. f = [i \in 0 .. len |-> IF i = 0 THEN seq ELSE AddEvent(f[i - 1], events[i])]
    BY <1>1, <2>1
  <2> QED BY <2>2
<1> HIDE DEF merged
<1>7. ASSUME NEW k \in 0 .. len PROVE Fine(merged[k], k)
  <2> DEFINE Bad == {j \in 0 .. len : ~ Fine(merged[j], j)}
  <2>1. SUFFICES ASSUME Bad # {} PROVE FALSE
    <3> HIDE DEF Begun, Fine, merged
    <3> QED BY <1>1
  <2>2. PICK a \in Bad : \A b \in Bad : a <= b
    <3>1. Bad \subseteq Nat
      BY <1>1
    <3> HIDE DEF Bad
    <3> QED BY <2>1, <3>1, Smallest
  <2> HIDE DEF Fine
  <2>3. a # 0
    BY <1>1, <1>4, <1>6
  <2>4. a - 1 \in 0 .. len /\ a \in 1 .. len /\ a - 1 \notin Bad
    BY <1>1, <2>2, <2>3
  <2>5. merged[a] = AddEvent(merged[a - 1], events[a])
    BY <1>6, <2>4
  <2> QED BY <1>3, <2>2, <2>4, <2>5
<1>8. Fine(merged[len], len)
  BY <1>1, <1>7
<1> QED BY <1>1, <1>2, <1>8 DEF ToSet

\* What a concatenation has at each place, and as a set.
LEMMA ConcatIs ==
  ASSUME NEW S, NEW s \in Seq(S), NEW t \in Seq(S)
  PROVE  /\ s \o t \in Seq(S) /\ Len(s \o t) = Len(s) + Len(t)
         /\ \A i \in 1 .. Len(s) : (s \o t)[i] = s[i]
         /\ \A i \in 1 .. Len(t) : (s \o t)[Len(s) + i] = t[i]
         /\ \A i \in 1 .. Len(s \o t) :
               \/ i \in 1 .. Len(s) /\ (s \o t)[i] = s[i]
               \/ \E j \in 1 .. Len(t) : i = Len(s) + j /\ (s \o t)[i] = t[j]
         /\ ToSet(s \o t) = ToSet(s) \cup ToSet(t)
<1> DEFINE u == s \o t
           a == Len(s)
           b == Len(t)
<1>1. /\ u \in Seq(S) /\ Len(u) = a + b
      /\ \A i \in 1 .. a : u[i] = s[i]
      /\ \A i \in a + 1 .. a + b : u[i] = t[i - a]
  BY ConcatProperties
<1>2. /\ a \in Nat /\ b \in Nat /\ DOMAIN s = 1 .. a /\ DOMAIN t = 1 .. b
      /\ DOMAIN u = 1 .. a + b
  BY <1>1
<1> HIDE DEF u, a, b
<1>3. ASSUME NEW i \in 1 .. b PROVE u[a + i] = t[i]
  <2>1. a + i \in a + 1 .. a + b /\ (a + i) - a = i
    BY <1>2
  <2> QED BY <1>1, <2>1
<1>4. ASSUME NEW i \in 1 .. a + b
      PROVE  \/ i \in 1 .. a /\ u[i] = s[i]
             \/ \E j \in 1 .. b : i = a + j /\ u[i] = t[j]
  <2>1. CASE i <= a
    <3>1. i \in 1 .. a
      BY <1>2, <2>1
    <3> QED BY <1>1, <3>1
  <2>2. CASE ~(i <= a)
    <3>1. i - a \in 1 .. b /\ i = a + (i - a)
      BY <1>2, <2>2
    <3> QED BY <1>3, <3>1
  <2> QED BY <2>1, <2>2
<1>5. ToSet(u) = ToSet(s) \cup ToSet(t)
  <2>1. \A i \in 1 .. a : i \in 1 .. a + b
    BY <1>2
  <2>2. \A i \in 1 .. b : a + i \in 1 .. a + b
    BY <1>2
  <2>3. ASSUME NEW x \in ToSet(u) PROVE x \in ToSet(s) \cup ToSet(t)
    <3>1. PICK i \in 1 .. a + b : x = u[i]
      BY <1>2 DEF ToSet
    <3> QED BY <1>2, <1>4, <3>1 DEF ToSet
  <2>4. ASSUME NEW x \in ToSet(s) PROVE x \in ToSet(u)
    BY <1>1, <1>2, <2>1 DEF ToSet
  <2>5. ASSUME NEW x \in ToSet(t) PROVE x \in ToSet(u)
    BY <1>2, <1>3, <2>2 DEF ToSet
  <2> QED BY <2>3, <2>4, <2>5
<1> QED BY <1>1, <1>3, <1>4, <1>5 DEF u, a, b

-----------------------------------------------------------------------------
(* One page of the log.                                                    *)

\* The log by time is ordered and has the events of the log.
LEMMA ByTimeIs ==
  ASSUME log \in Seq(Ids)
  PROVE  ByTime \in Seq(Ids) /\ Strict(ByTime) /\ ToSet(ByTime) = ToSet(log)
<1>1. log \in Seq(Nat) /\ <<>> \in Seq(Nat) /\ Strict(<<>>) /\ ToSet(<<>>) = {}
  BY DEF Ids, Strict, ToSet
<1>2. /\ ByTime \in Seq(Nat) /\ Strict(ByTime) /\ ToSet(ByTime) = ToSet(log)
  <2> DEFINE none == <<>>
             all == log
  <2>1. ByTime = Merge(none, all)
    BY DEF ByTime
  <2>2. all \in Seq(Nat) /\ none \in Seq(Nat) /\ Strict(none) /\ ToSet(none) = {}
    BY <1>1
  <2> HIDE DEF none, all
  <2>3. /\ Merge(none, all) \in Seq(Nat) /\ Strict(Merge(none, all))
        /\ ToSet(Merge(none, all)) = ToSet(none) \cup ToSet(all)
    BY <2>2, MergeIs
  <2> QED BY <2>1, <2>2, <2>3 DEF all
<1>3. ToSet(log) \subseteq Ids
  BY DEF ToSet
<1>4. ByTime \in Seq(Ids)
  <2> DEFINE B == ByTime
  <2>1. B \in Seq(Nat) /\ DOMAIN B = 1 .. Len(B) /\ ToSet(B) \subseteq Ids
    BY <1>2, <1>3
  <2> HIDE DEF B
  <2>2. \A i \in 1 .. Len(B) : B[i] \in Ids
    BY <2>1 DEF ToSet
  <2>3. B \in Seq(Ids)
    BY <2>1, <2>2
  <2> QED BY <2>3 DEF B
<1> QED BY <1>2, <1>4

\* The smaller of two numbers.
LEMMA MinIs == ASSUME NEW a \in Int, NEW b \in Int PROVE Min({a, b}) = IF a <= b THEN a ELSE b
BY DEF Min

\* A page holds what is logged from its page_id on and before that of the next page.
LEMMA PageIs ==
  ASSUME log \in Seq(Ids), page \in Nat, page # 0 => page \in ToSet(log)
  PROVE  /\ Items \in Seq(Ids) /\ Strict(Items) /\ NextPage \in Nat
         /\ \A n \in ToSet(Items) : /\ n \in ToSet(log) /\ page <= n
                                    /\ NextPage # 0 => n < NextPage
         /\ NextPage # 0 => NextPage \in ToSet(log) /\ page < NextPage
         /\ \A n \in ToSet(log) : page <= n /\ (NextPage # 0 => n < NextPage) => n \in ToSet(Items)
<1> DEFINE B == ByTime
           len == Len(B)
           last == Min({Start + PageSize - 1, len})
<1>1. B \in Seq(Ids) /\ Strict(B) /\ ToSet(B) = ToSet(log) /\ len \in Nat /\ DOMAIN B = 1 .. len
  BY ByTimeIs
<1>2. PageSize \in Nat /\ PageSize >= 1
  BY RemoteAssumption
<1>3. /\ Start \in Nat /\ Start >= 1
      /\ page # 0 => Start <= len /\ B[Start] = page
      /\ page = 0 => Start = 1
  <2>1. CASE page = 0
    BY <2>1 DEF Start
  <2>2. CASE page # 0
    <3>1. \E i \in 1 .. len : B[i] = page
      BY <1>1, <2>2 DEF ToSet
    <3>2. Start = CHOOSE i \in 1 .. len : B[i] = page
      BY <1>1, <2>2 DEF Start
    <3> HIDE DEF B, len
    <3>3. Start \in 1 .. len /\ B[Start] = page
      BY <3>1, <3>2
    <3> QED BY <1>1, <2>2, <3>3
  <2> QED BY <2>1, <2>2
<1>4. Items = SubSeq(B, Start, last)
  BY DEF Items, Between
<1>5. NextPage = IF Start + PageSize <= len THEN B[Start + PageSize] ELSE 0
  BY DEF NextPage
<1>6. last = IF Start + PageSize - 1 <= len THEN Start + PageSize - 1 ELSE len
  <2> HIDE DEF len
  <2>1. Start + PageSize - 1 \in Int /\ len \in Int
    BY <1>1, <1>2, <1>3
  <2> QED BY <2>1, MinIs
<1> DEFINE st == Start
<1>7. \A i, j \in 1 .. len : i < j => B[i] < B[j]
  BY <1>1 DEF Strict
<1>8. \A i \in 1 .. len : B[i] \in Nat /\ B[i] # 0 /\ B[i] \in ToSet(log)
  <2>1. \A i \in 1 .. len : B[i] \in Ids /\ B[i] \in ToSet(B)
    BY <1>1 DEF ToSet
  <2> HIDE DEF B, len
  <2> QED BY <1>1, <2>1 DEF Ids
<1>9. \A n \in ToSet(log) : \E i \in 1 .. len : B[i] = n
  BY <1>1 DEF ToSet
<1>10. st \in Nat /\ st >= 1 /\ last \in Nat /\ last <= len /\ st <= last + 1
  BY <1>1, <1>2, <1>3, <1>6
<1> HIDE DEF B, len, last, st
<1> DEFINE many == last - st + 1
<1>11. many \in Nat
  BY <1>10
<1>12. /\ Items \in Seq(Ids) /\ Len(Items) = many
       /\ \A i \in 1 .. many : Items[i] = B[st + i - 1] /\ st + i - 1 \in st .. last
  <2>1. \A i \in st .. last : B[i] \in Ids
    <3>1. \A i \in st .. last : i \in 1 .. len
      BY <1>1, <1>10
    <3> QED BY <1>8, <3>1 DEF Ids
  <2>2. /\ SubSeq(B, st, last) \in Seq(Ids)
        /\ Len(SubSeq(B, st, last)) = IF st <= last THEN last - st + 1 ELSE 0
        /\ \A i \in 1 .. last - st + 1 : SubSeq(B, st, last)[i] = B[st + i - 1]
    BY <1>10, <2>1, SubSeqProperties
  <2>3. Items = SubSeq(B, st, last)
    BY <1>4 DEF st
  <2>4. \A i \in 1 .. many : st + i - 1 \in st .. last
    BY <1>10
  <2>5. (IF st <= last THEN last - st + 1 ELSE 0) = many
    BY <1>10
  <2> QED BY <2>2, <2>3, <2>4, <2>5
<1>13. DOMAIN Items = 1 .. many
  BY <1>12
<1>14. ToSet(Items) = {B[i] : i \in st .. last}
  <2>1. ASSUME NEW n \in ToSet(Items) PROVE n \in {B[i] : i \in st .. last}
    BY <1>12, <1>13 DEF ToSet
  <2>2. ASSUME NEW i \in st .. last PROVE B[i] \in ToSet(Items)
    <3>1. i - st + 1 \in 1 .. many /\ st + (i - st + 1) - 1 = i
      BY <1>10
    <3>2. Items[i - st + 1] = B[i]
      BY <1>12, <3>1
    <3> QED BY <1>13, <3>1, <3>2 DEF ToSet
  <2> QED BY <2>1, <2>2
<1>15. Strict(Items)
  <2> SUFFICES ASSUME NEW i \in 1 .. many, NEW j \in 1 .. many, i < j
               PROVE  Items[i] < Items[j]
    BY <1>12 DEF Strict
  <2>1. Items[i] = B[st + i - 1] /\ Items[j] = B[st + j - 1]
    BY <1>12
  <2>2. st + i - 1 \in 1 .. len /\ st + j - 1 \in 1 .. len /\ st + i - 1 < st + j - 1
    BY <1>1, <1>10
  <2> QED BY <1>7, <2>1, <2>2
<1>16. page # 0 => st \in 1 .. len /\ B[st] = page
  BY <1>1, <1>3, <1>10 DEF st
<1>17. page = 0 => st = 1
  BY <1>3 DEF st
<1>18. st + PageSize <= len => /\ st + PageSize \in 1 .. len /\ last = st + PageSize - 1
                               /\ NextPage = B[st + PageSize] /\ NextPage # 0
  BY <1>1, <1>2, <1>5, <1>6, <1>8, <1>10 DEF st
<1>19. ~(st + PageSize <= len) => NextPage = 0 /\ last = len
  BY <1>1, <1>2, <1>5, <1>6, <1>10 DEF st
<1>20. ASSUME NEW n \in ToSet(Items)
       PROVE  n \in ToSet(log) /\ page <= n /\ (NextPage # 0 => n < NextPage)
  <2>1. PICK i \in st .. last : n = B[i]
    BY <1>14
  <2>2. i \in 1 .. len /\ n \in Nat /\ n \in ToSet(log)
    BY <1>1, <1>8, <1>10, <2>1
  <2>3. page <= n
    BY <1>7, <1>16, <2>1, <2>2
  <2>4. NextPage # 0 => n < NextPage
    <3> SUFFICES ASSUME st + PageSize <= len PROVE n < NextPage
      BY <1>19
    <3>1. i < st + PageSize
      BY <1>2, <1>10, <1>18
    <3> QED BY <1>7, <1>18, <2>1, <2>2, <3>1
  <2> QED BY <2>2, <2>3, <2>4
<1>21. NextPage # 0 => NextPage \in ToSet(log) /\ page < NextPage
  <2> SUFFICES ASSUME st + PageSize <= len PROVE NextPage \in ToSet(log) /\ page < NextPage
    BY <1>19
  <2>1. NextPage \in ToSet(log) /\ NextPage \in Nat
    BY <1>8, <1>18
  <2>2. st < st + PageSize
    BY <1>2, <1>10
  <2>3. page < NextPage
    <3>1. CASE page = 0
      BY <1>18, <2>1, <3>1
    <3>2. CASE page # 0
      BY <1>7, <1>16, <1>18, <2>2, <3>2
    <3> QED BY <3>1, <3>2
  <2> QED BY <2>1, <2>3
<1>22. ASSUME NEW n \in ToSet(log), page <= n, NextPage # 0 => n < NextPage
       PROVE  n \in ToSet(Items)
  <2>1. PICK i \in 1 .. len : B[i] = n
    BY <1>9
  <2>2. i >= st
    <3>1. CASE page = 0
      BY <1>17, <3>1
    <3>2. CASE page # 0
      <4>1. i < st => B[i] < B[st]
        BY <1>7, <1>16, <3>2
      <4> QED BY <1>8, <1>10, <1>16, <1>22, <2>1, <3>2, <4>1
    <3> QED BY <3>1, <3>2
  <2>3. i <= last
    <3>1. CASE st + PageSize <= len
      <4>1. i > st + PageSize => B[i] > B[st + PageSize]
        BY <1>7, <1>18, <3>1
      <4>2. B[i] < B[st + PageSize] /\ B[i] \in Nat /\ B[st + PageSize] \in Nat
        BY <1>8, <1>18, <1>22, <2>1, <3>1
      <4>3. ~(i >= st + PageSize)
        BY <1>2, <1>10, <4>1, <4>2
      <4> QED BY <1>2, <1>10, <1>18, <3>1, <4>3
    <3>2. CASE ~(st + PageSize <= len)
      BY <1>1, <1>19, <3>2
    <3> QED BY <3>1, <3>2
  <2>4. i \in st .. last
    BY <1>10, <2>2, <2>3
  <2> QED BY <1>14, <2>1, <2>4
<1>23. NextPage \in Nat
  BY <1>8, <1>18, <1>19
<1> QED BY <1>12, <1>15, <1>20, <1>21, <1>22, <1>23

-----------------------------------------------------------------------------
(***************************************************************************)
(* The first inductive invariant: what pages, pushes and reconciliation    *)
(* keep in order.  While pages are read, what was collected is below the   *)
(* next page (Paged); of what a run had logged when it was seen to end,    *)
(* all that lies below the next page is collected (Covered).               *)
(***************************************************************************)
Paged == /\ Strict(cache) /\ Strict(fetched)
         /\ page # 0 => page \in ToSet(log)
         /\ \A n \in ToSet(fetched) : page # 0 /\ n < page
         /\ phase \notin Fetching \cup {"failed"} => fetched = <<>> /\ page = 0
         /\ phase = "sync" => link = "off"
Covered == /\ phase = "final" => /\ known \subseteq ToSet(log)
                                 /\ \A n \in known : n < page => n \in ToSet(fetched)
           /\ phase = "returned" /\ ~ partial => known \subseteq ToSet(cache)

PageInv == TypeOK /\ Paged /\ Covered

\* Two ordered lists, the one below the other, are ordered together.
LEMMA StrictConcat ==
  ASSUME NEW s \in Seq(Nat), NEW t \in Seq(Nat), Strict(s), Strict(t),
         \A m \in ToSet(s), n \in ToSet(t) : m < n
  PROVE  Strict(s \o t)
<1> DEFINE u == s \o t
<1>1. \A i \in 1 .. Len(u) :
         \/ i \in 1 .. Len(s) /\ u[i] = s[i]
         \/ \E j \in 1 .. Len(t) : i = Len(s) + j /\ u[i] = t[j]
  BY ConcatIs
<1>2. /\ \A i \in 1 .. Len(s) : s[i] \in ToSet(s)
      /\ \A i \in 1 .. Len(t) : t[i] \in ToSet(t)
  BY DEF ToSet
<1> HIDE DEF u
<1>3. ASSUME NEW i \in 1 .. Len(u), NEW j \in 1 .. Len(u), i < j PROVE u[i] < u[j]
  <2>1. CASE i \in 1 .. Len(s) /\ j \in 1 .. Len(s) /\ u[i] = s[i] /\ u[j] = s[j]
    BY <1>3, <2>1 DEF Strict
  <2>2. CASE i \in 1 .. Len(s) /\ u[i] = s[i] /\ \E k \in 1 .. Len(t) : u[j] = t[k]
    BY <1>2, <2>2
  <2>3. ASSUME NEW k \in 1 .. Len(t), i = Len(s) + k,
               NEW l \in 1 .. Len(t), j = Len(s) + l, u[i] = t[k], u[j] = t[l]
        PROVE  u[i] < u[j]
    <3>1. k < l
      BY <1>3, <2>3
    <3> QED BY <2>3, <3>1 DEF Strict
  <2>4. ASSUME NEW k \in 1 .. Len(t), i = Len(s) + k, j \in 1 .. Len(s) PROVE FALSE
    BY <1>3, <2>4
  <2> QED BY <1>1, <2>1, <2>2, <2>3, <2>4
<1>4. Strict(u)
  BY <1>3 DEF Strict
<1> QED BY <1>4 DEF u

\* The invariant of the pages holds when the client is made.
LEMMA PageInit == Init => PageInv
<1> SUFFICES ASSUME Init PROVE PageInv
  OBVIOUS
<1>1. TypeOK
  <2>1. 0 \in 0 .. MaxRuns /\ 0 \in 0 .. MaxMessages /\ 0 \in 0 .. MaxExtras
    BY ServiceAssumption
  <2>2. <<>> \in Seq(Ids) /\ <<>> \in Seq(Events) /\ 0 \in Nat /\ 0 \in 0 .. 0
    OBVIOUS
  <2>3. ServiceTypeOK
    BY <2>1, <2>2 DEF Init, ServiceInit, ServiceTypeOK, Statuses
  <2>4. (socket # 0) = (link = "open")
    <3>1. socket = 0 /\ link = "off"
      BY DEF Init, ServiceInit
    <3> QED BY <3>1
  <2> QED BY <2>2, <2>3, <2>4 DEF Init, TypeOK, Phases
<1> QED BY <1>1 DEF Init, PageInv, Paged, Covered, Strict, ToSet, Fetching

-----------------------------------------------------------------------------
(* What a step of the server does to the client: it publishes the events `new`, of     *)
(* which `more` go to the wire at once and the others are delayed.                     *)

Published(new, more) ==
  /\ new \subseteq Events /\ more \in Seq(Events)
  /\ wire' = wire \o more
  /\ ToSet(more) \subseteq new
  /\ delayed \subseteq delayed' /\ delayed' \subseteq Deliveries
  /\ \A d \in delayed' \ delayed : d.event \in new /\ d.to = socket
  /\ socket # 0 => \A e \in new : e \in ToSet(more) \/ \E d \in delayed' : d.event = e /\ d.to = socket

\* PubSub puts an event on the wire or leaves it to a delivery, and loses none.
LEMMA PublishIs ==
  ASSUME ServiceTypeOK, NEW events \in Seq(Events), Publish(events)
  PROVE  \E more : Published(ToSet(events), more)
<1> DEFINE n == Len(events)
<1>1. n \in Nat /\ DOMAIN events = 1 .. n /\ \A i \in 1 .. n : events[i] \in Events
  OBVIOUS
<1>2. PICK sent \in Ascending(n) :
        LET slow == {[event |-> events[i], to |-> socket] : i \in DOMAIN events \ ToSet(sent)} IN
        /\ delayed' = delayed \cup slow
        /\ wire' = IF socket = 0 THEN wire ELSE wire \o [i \in DOMAIN sent |-> events[sent[i]]]
  BY DEF Publish
<1> HIDE DEF n
<1>3. PICK k \in 0 .. n : sent \in [1 .. k -> 1 .. n]
  BY <1>2 DEF Ascending
<1> DEFINE quick == [i \in 1 .. k |-> events[sent[i]]]
           more == IF socket = 0 THEN <<>> ELSE quick
           slow == {[event |-> events[i], to |-> socket] : i \in (1 .. n) \ ToSet(sent)}
<1>4. DOMAIN sent = 1 .. k /\ \A i \in 1 .. k : sent[i] \in 1 .. n
  BY <1>3
<1>5. quick \in Seq(Events) /\ DOMAIN quick = 1 .. k /\ \A i \in 1 .. k : quick[i] = events[sent[i]]
  <2>1. quick \in [1 .. k -> Events] /\ k \in Nat
    BY <1>1, <1>4
  <2> HIDE DEF quick
  <2>2. quick \in Seq(Events)
    BY <2>1
  <2> QED BY <2>1, <2>2 DEF quick
<1>6. delayed' = delayed \cup slow /\ wire' = IF socket = 0 THEN wire ELSE wire \o quick
  BY <1>1, <1>2, <1>4
<1> HIDE DEF quick
<1>7. ToSet(events) \subseteq Events
  BY <1>1 DEF ToSet
<1>8. more \in Seq(Events) /\ ToSet(more) \subseteq ToSet(events)
  <2>1. ToSet(quick) \subseteq ToSet(events)
    BY <1>1, <1>4, <1>5 DEF ToSet
  <2>2. ToSet(<<>>) = {}
    BY DEF ToSet
  <2>3. <<>> \in Seq(Events)
    OBVIOUS
  <2> QED BY <1>5, <2>1, <2>2, <2>3
<1>9. wire' = wire \o more
  BY <1>6 DEF ServiceTypeOK
<1>10. \A d \in slow : d \in Deliveries /\ d.event \in ToSet(events) /\ d.to = socket
  <2>1. socket \in Nat
    BY DEF ServiceTypeOK
  <2> QED BY <1>1, <2>1 DEF ToSet, Deliveries
<1>11. delayed' \subseteq Deliveries
  BY <1>6, <1>10 DEF ServiceTypeOK
<1>12. ASSUME socket # 0, NEW e \in ToSet(events), e \notin ToSet(more)
       PROVE  \E d \in delayed' : d.event = e /\ d.to = socket
  <2>1. PICK i \in 1 .. n : e = events[i]
    BY <1>1 DEF ToSet
  <2>2. i \notin ToSet(sent)
    <3> SUFFICES ASSUME NEW j \in 1 .. k, sent[j] = i PROVE FALSE
      BY <1>4 DEF ToSet
    <3>1. quick[j] = e
      BY <1>5, <2>1
    <3> QED BY <1>5, <1>12, <3>1 DEF ToSet
  <2>3. [event |-> events[i], to |-> socket] \in slow
    BY <2>2
  <2> HIDE DEF slow
  <2>4. [event |-> events[i], to |-> socket] \in delayed'
    BY <1>6, <2>3
  <2> QED BY <2>1, <2>4
<1> HIDE DEF more, slow
<1>13. Published(ToSet(events), more)
  BY <1>6, <1>7, <1>8, <1>9, <1>10, <1>11, <1>12 DEF Published
<1> QED BY <1>13

\* The events of a step are news: what is logged was not logged before, and a snapshot is
\* to come after events that are on nobody's way to the socket.
Claims(after) == after \subseteq ToSet(log) /\ after \cap Pending = {}
Reports(e) == e.after # {} => e.status # NoStatus
Steps(new, more) ==
  /\ Published(new, more)
  /\ socket' = socket
  /\ \A e \in new : /\ e.tracked => e.after = {} /\ e.id \notin ToSet(log)
                    /\ ~ e.tracked => Claims(e.after)
                    /\ Reports(e)
  /\ ToSet(log') = ToSet(log) \cup {e.id : e \in {x \in new : x.tracked}}
GoesOn == \E new, more : Steps(new, more)

\* A step that publishes nothing.
LEMMA QuietGoesOn ==
  ASSUME ServiceTypeOK, UNCHANGED <<log, delayed, wire, socket>> PROVE GoesOn
<1>1. ToSet(<<>>) = {} /\ <<>> \in Seq(Events)
  BY DEF ToSet
<1>2. wire' = wire \o <<>>
  BY DEF ServiceTypeOK
<1>3. Published({}, <<>>)
  BY <1>1, <1>2 DEF Published, ServiceTypeOK
<1>4. Steps({}, <<>>)
  BY <1>3 DEF Steps
<1> QED BY <1>4 DEF GoesOn

\* What is posted gets new ids, is logged and published.
LEMMA PostIs ==
  ASSUME ServiceTypeOK, ToSet(log) \subseteq 1 .. created,
         NEW events \in Seq(Statuses \cup {NoStatus}), Post(events)
  PROVE  /\ created' = created + Len(events)
         /\ log' \in Seq(Ids)
         /\ delayed' \subseteq Deliveries /\ wire' \in Seq(Events)
         /\ ToSet(log') = ToSet(log) \cup (created + 1 .. created')
         /\ socket' = socket => GoesOn
<1> DEFINE n == Len(events)
           new == [i \in 1 .. n |-> Logged(created + i, events[i])]
           ids == [i \in 1 .. n |-> created + i]
<1>1. n \in Nat /\ DOMAIN events = 1 .. n /\ created \in Nat
  BY DEF ServiceTypeOK
<1>2. \A i \in 1 .. n : events[i] \in Statuses \cup {NoStatus}
  OBVIOUS
<1> HIDE DEF n
<1>3. \A i \in 1 .. n : created + i \in Ids /\ new[i] \in Events /\ new[i].id = created + i
                        /\ new[i].tracked /\ new[i].after = {}
  BY <1>1, <1>2 DEF Ids, Logged, Events
<1>4. new \in Seq(Events) /\ DOMAIN new = 1 .. n
  <2>1. new \in [1 .. n -> Events]
    BY <1>3
  <2> HIDE DEF new
  <2> QED BY <1>1, <2>1
<1>5. ids \in Seq(Ids) /\ DOMAIN ids = 1 .. n
  <2>1. ids \in [1 .. n -> Ids]
    BY <1>3
  <2> HIDE DEF ids
  <2> QED BY <1>1, <2>1
<1>6. created' = created + n /\ log' = log \o ids /\ Publish(new)
  <2>1. ids = [i \in DOMAIN new |-> new[i].id]
    BY <1>3, <1>4
  <2>2. new = [i \in DOMAIN events |-> Logged(created + i, events[i])]
    BY <1>1
  <2>3. created' = created + n /\ log' = log \o [i \in DOMAIN new |-> new[i].id] /\ Publish(new)
    <3> HIDE DEF new, ids
    <3> QED BY <2>2 DEF Post, n
  <2> HIDE DEF new, ids
  <2> QED BY <2>1, <2>3
<1> HIDE DEF new, ids
<1>7. ToSet(ids) = created + 1 .. created'
  <2>1. ToSet(ids) = {created + i : i \in 1 .. n}
    BY <1>5 DEF ToSet, ids
  <2>2. ASSUME NEW m \in created + 1 .. created + n PROVE m \in {created + i : i \in 1 .. n}
    <3>1. m - created \in 1 .. n /\ m = created + (m - created)
      BY <1>1
    <3> QED BY <3>1
  <2>3. \A i \in 1 .. n : created + i \in created + 1 .. created + n
    BY <1>1
  <2> QED BY <1>6, <2>1, <2>2, <2>3
<1>8. log' \in Seq(Ids) /\ ToSet(log') = ToSet(log) \cup ToSet(ids)
  BY <1>5, <1>6, ConcatIs DEF ServiceTypeOK
<1>9. PICK more : Published(ToSet(new), more)
  BY <1>4, <1>6, PublishIs
<1>10. delayed' \subseteq Deliveries /\ wire' \in Seq(Events)
  BY <1>9, ConcatIs DEF Published, ServiceTypeOK
<1>11. ASSUME NEW e \in ToSet(new)
       PROVE  e.tracked /\ e.after = {} /\ e.id \in created + 1 .. created'
  <2>1. PICK i \in 1 .. n : e = new[i]
    BY <1>4 DEF ToSet
  <2> QED BY <1>1, <1>3, <1>6, <2>1 DEF new
<1>12. {e.id : e \in {x \in ToSet(new) : x.tracked}} = ToSet(ids)
  <2>1. ASSUME NEW i \in 1 .. n PROVE created + i \in {e.id : e \in {x \in ToSet(new) : x.tracked}}
    <3>1. new[i] \in ToSet(new) /\ new[i].tracked /\ new[i].id = created + i
      BY <1>3, <1>4 DEF ToSet, new
    <3> QED BY <3>1
  <2>2. \A e \in ToSet(new) : e.id \in ToSet(ids)
    BY <1>7, <1>11
  <2>3. ToSet(ids) = {created + i : i \in 1 .. n}
    BY <1>5 DEF ToSet, ids
  <2> QED BY <2>1, <2>2, <2>3
<1>13. ASSUME socket' = socket PROVE GoesOn
  <2>1. \A e \in ToSet(new) : e.id \notin ToSet(log)
    BY <1>1, <1>6, <1>11
  <2>2. Steps(ToSet(new), more)
    BY <1>8, <1>9, <1>11, <1>12, <1>13, <2>1 DEF Steps, Reports
  <2> QED BY <2>2 DEF GoesOn
<1> QED BY <1>6, <1>7, <1>8, <1>10, <1>13 DEF n

-----------------------------------------------------------------------------
(* The steps of the server.                                                *)

\* Ids are given once; what the end of a run waits for is in `flush`.
Numbered == /\ ToSet(log) \subseteq 1 .. created /\ late \subseteq 1 .. created
            /\ late \cap ToSet(log) = {}
            /\ ended \subseteq ToSet(log)
            /\ task = "flushing" => ended \cap Pending \subseteq flush

ServerInv == ServiceTypeOK /\ Numbered

\* A message, as the client's thread sends it.
Sends == /\ Message
         /\ UNCHANGED <<late, pausing, answered, runVars, socket, sockets, runs, extras>>

\* Events in flight that are logged are those of before, and new ones.
LEMMA PendingGrows ==
  ASSUME NEW new, NEW more, Published(new, more)
  PROVE  Pending' \subseteq Pending \cup {e.id : e \in {x \in new : x.tracked}}
BY DEF Published, Pending

\* Numbered survives new ids, whatever is published.
LEMMA NumbersStay ==
  ASSUME ServerInv, log' \in Seq(Ids), created' \in Nat, created <= created',
         late' \subseteq late \cup (created + 1 .. created'),
         ToSet(log') \subseteq ToSet(log) \cup late \cup (created + 1 .. created'),
         late' \cap ToSet(log') = {}, GoesOn, UNCHANGED <<task, flush, ended>>
  PROVE  Numbered'
<1>1. PICK new, more : Steps(new, more)
  BY DEF GoesOn
<1>2. Pending' \subseteq Pending \cup {e.id : e \in {x \in new : x.tracked}}
  BY <1>1, PendingGrows DEF Steps
<1>3. \A e \in new : e.tracked => e.id \notin ended
  BY <1>1 DEF Steps, ServerInv, Numbered
<1>4. ended \cap Pending' \subseteq Pending
  BY <1>2, <1>3
<1>5. ToSet(log) \subseteq ToSet(log')
  BY <1>1 DEF Steps
<1>6. created \in Nat /\ 1 .. created \subseteq 1 .. created'
      /\ created + 1 .. created' \subseteq 1 .. created'
  BY DEF ServerInv, ServiceTypeOK
<1> QED BY <1>4, <1>5, <1>6 DEF ServerInv, Numbered

\* A post, as the server steps make it.
LEMMA PostStays ==
  ASSUME ServerInv, NEW events \in Seq(Statuses \cup {NoStatus}), Post(events),
         UNCHANGED <<late, task, flush, ended, socket>>
  PROVE  /\ created' \in Nat /\ log' \in Seq(Ids)
         /\ delayed' \subseteq Deliveries /\ wire' \in Seq(Events)
         /\ Numbered' /\ GoesOn
<1>1. ToSet(log) \subseteq 1 .. created /\ created \in Nat
  BY DEF ServerInv, ServiceTypeOK, Numbered
<1>2. /\ created' = created + Len(events) /\ log' \in Seq(Ids)
      /\ delayed' \subseteq Deliveries /\ wire' \in Seq(Events)
      /\ ToSet(log') = ToSet(log) \cup (created + 1 .. created') /\ GoesOn
  BY <1>1, PostIs DEF ServerInv
<1>3. created' \in Nat /\ created <= created'
  BY <1>1, <1>2
<1>4. late' \cap ToSet(log') = {}
  BY <1>1, <1>2 DEF ServerInv, Numbered
<1> QED BY <1>2, <1>3, <1>4, NumbersStay

\* A snapshot: it is not logged.
LEMMA SnapshotIs ==
  ASSUME ServerInv, NEW after, Claims(after), Publish(<<Snapshot(after)>>), created' = created + 1,
         UNCHANGED <<log, socket>>
  PROVE  GoesOn /\ delayed' \subseteq Deliveries /\ wire' \in Seq(Events)
<1> DEFINE e == Snapshot(after)
<1>1. e \in Events /\ ~ e.tracked /\ e.after = after /\ e.status # NoStatus
  <2>1. ToSet(log) \subseteq Ids
    BY DEF ServerInv, ServiceTypeOK, ToSet
  <2>2. status \in Statuses /\ NoStatus \notin Statuses
    BY DEF ServerInv, ServiceTypeOK, Statuses, NoStatus
  <2>3. created + 1 \in Ids
    BY DEF ServerInv, ServiceTypeOK, Ids
  <2> QED BY <2>1, <2>2, <2>3 DEF Snapshot, Events, Claims
<1> HIDE DEF e
<1>2. <<e>> \in Seq(Events) /\ ToSet(<<e>>) = {e}
  BY <1>1 DEF ToSet
<1>3. Publish(<<e>>)
  BY DEF e
<1>4. PICK more : Published({e}, more)
  BY <1>2, <1>3, PublishIs DEF ServerInv
<1>5. Steps({e}, more)
  BY <1>1, <1>4 DEF Steps, Reports
<1>6. delayed' \subseteq Deliveries /\ wire' \in Seq(Events)
  BY <1>4, ConcatIs DEF Published, ServerInv, ServiceTypeOK
<1> QED BY <1>5, <1>6 DEF GoesOn

\* A run starts, and may publish that it is RUNNING.
LEMMA RunStartsStep ==
  ASSUME ServerInv, RunStarts PROVE ServiceTypeOK' /\ Numbered' /\ GoesOn
<1>1. CASE status \in {"IDLE", "PAUSED", "ERROR"}
  <2>1. <<"RUNNING">> \in Seq(Statuses \cup {NoStatus}) /\ Post(<<"RUNNING">>) /\ status' = "RUNNING"
    BY <1>1 DEF RunStarts, SetStatus, Statuses
  <2>2. UNCHANGED <<late, task, flush, ended, socket>>
    BY DEF RunStarts
  <2>3. /\ created' \in Nat /\ log' \in Seq(Ids)
        /\ delayed' \subseteq Deliveries /\ wire' \in Seq(Events)
        /\ Numbered' /\ GoesOn
    BY <2>1, <2>2, PostStays
  <2> QED BY <2>1, <2>3 DEF RunStarts, bounds, ServerInv, ServiceTypeOK, Statuses
<1>2. CASE ~(status \in {"IDLE", "PAUSED", "ERROR"})
  <2>1. UNCHANGED <<status, created, log, delayed, wire, late, task, flush, ended, socket>>
    BY <1>2 DEF RunStarts
  <2>2. GoesOn
    BY <2>1, QuietGoesOn DEF ServerInv
  <2>3. Numbered'
    BY <2>1 DEF ServerInv, Numbered, Pending
  <2> QED BY <2>1, <2>2, <2>3 DEF RunStarts, bounds, ServerInv, ServiceTypeOK
<1> QED BY <1>1, <1>2

\* A run is found to be stuck.
LEMMA RunStuckStep ==
  ASSUME ServerInv, RunStuck PROVE ServiceTypeOK' /\ Numbered' /\ GoesOn
<1>1. <<"STUCK">> \in Seq(Statuses \cup {NoStatus}) /\ Post(<<"STUCK">>) /\ status' = "STUCK"
  BY DEF RunStuck, SetStatus, Statuses
<1>2. UNCHANGED <<late, task, flush, ended, socket>>
  BY DEF RunStuck, runVars
<1>3. /\ created' \in Nat /\ log' \in Seq(Ids)
      /\ delayed' \subseteq Deliveries /\ wire' \in Seq(Events)
      /\ Numbered' /\ GoesOn
  BY <1>1, <1>2, PostStays
<1> QED BY <1>1, <1>3 DEF RunStuck, runVars, bounds, ServerInv, ServiceTypeOK, Statuses

\* The status an approved iteration publishes first.
LEMMA ApprovedIs == Approved \in Seq(Statuses \cup {NoStatus})
<1>1. "RUNNING" \in Statuses \cup {NoStatus}
  BY DEF Statuses
<1>2. <<"RUNNING">> \in Seq(Statuses \cup {NoStatus}) /\ <<>> \in Seq(Statuses \cup {NoStatus})
  BY <1>1
<1> QED BY <1>2 DEF Approved

\* An iteration of a run.
LEMMA RunGoesOnStep ==
  ASSUME ServerInv, RunGoesOn PROVE ServiceTypeOK' /\ Numbered' /\ GoesOn
<1>1. Approved \o AgentEvent \in Seq(Statuses \cup {NoStatus})
  BY ApprovedIs DEF AgentEvent
<1>2. /\ created' \in Nat /\ log' \in Seq(Ids)
      /\ delayed' \subseteq Deliveries /\ wire' \in Seq(Events)
      /\ Numbered' /\ GoesOn
  BY <1>1, PostStays DEF RunGoesOn, runVars
<1>3. status' \in Statuses /\ extras' \in 0 .. MaxExtras
  BY ServiceAssumption DEF RunGoesOn, Extra, ServerInv, ServiceTypeOK, Statuses
<1> QED BY <1>2, <1>3 DEF RunGoesOn, runVars, ServerInv, ServiceTypeOK

\* The last iteration of a run.
LEMMA RunEndsStep ==
  ASSUME ServerInv, RunEnds PROVE ServiceTypeOK' /\ Numbered' /\ GoesOn
<1>1. PICK s \in {"FINISHED", "WAITING", "ERROR"} :
        /\ status' = s
        /\ Post(Approved \o IF s = "ERROR" THEN <<s>> \o AgentEvent ELSE AgentEvent \o <<s>>)
        /\ thread' = IF s = "FINISHED" THEN thread ELSE "none"
        /\ unseen' = IF s = "ERROR" THEN unseen ELSE FALSE
        /\ answered' = FALSE
  BY DEF RunEnds
<1> DEFINE last == IF s = "ERROR" THEN <<s>> \o AgentEvent ELSE AgentEvent \o <<s>>
<1>2. last \in Seq(Statuses \cup {NoStatus})
  <2> DEFINE S == Statuses \cup {NoStatus}
             end == <<s>>
             event == <<NoStatus>>
  <2>1. s \in S /\ NoStatus \in S
    BY DEF Statuses
  <2> HIDE DEF S
  <2>2. end \in Seq(S) /\ event \in Seq(S) /\ AgentEvent = event
    BY <2>1 DEF AgentEvent
  <2> HIDE DEF end, event
  <2>3. end \o event \in Seq(S) /\ event \o end \in Seq(S)
    BY <2>2, ConcatIs
  <2>4. last \in Seq(S)
    BY <2>2, <2>3 DEF end
  <2> QED BY <2>4 DEF S
<1>3. Post(Approved \o last)
  BY <1>1
<1> HIDE DEF last
<1>4. Approved \o last \in Seq(Statuses \cup {NoStatus})
  BY <1>2, ApprovedIs
<1>5. /\ created' \in Nat /\ log' \in Seq(Ids)
      /\ delayed' \subseteq Deliveries /\ wire' \in Seq(Events)
      /\ Numbered' /\ GoesOn
  BY <1>3, <1>4, PostStays DEF RunEnds
<1>6. status' \in Statuses /\ thread' \in {"none", "queued", "running"} /\ unseen' \in BOOLEAN
  <2>1. unseen \in BOOLEAN /\ thread \in {"none", "queued", "running"}
    BY DEF ServerInv, ServiceTypeOK
  <2>2. unseen' \in BOOLEAN
    BY <1>1, <2>1, Zenon
  <2> QED BY <1>1, <2>1, <2>2 DEF Statuses
<1>7. answered' \in BOOLEAN
  BY <1>1
<1> QED BY <1>5, <1>6, <1>7 DEF RunEnds, bounds, ServerInv, ServiceTypeOK

\* Where nothing is published.
LEMMA QuietStays ==
  ASSUME ServerInv, UNCHANGED <<log, late, delayed, wire, socket, created, task, flush, ended>>
  PROVE  Numbered' /\ GoesOn
<1>1. GoesOn
  BY QuietGoesOn DEF ServerInv
<1>2. Numbered'
  BY DEF ServerInv, Numbered, Pending
<1> QED BY <1>1, <1>2

\* Every step of the server but the snapshot of a run and a delayed delivery.
LEMMA ServerGoesOn ==
  ASSUME ServerInv,
         \/ RunThread \/ TaskFlushes \/ CreateLate \/ \E n \in late : AppendLate(n)
         \/ PausePublishes \/ OthersStep \/ Sends
  PROVE  ServiceTypeOK' /\ Numbered' /\ GoesOn
<1> USE DEF conversation, runVars, network, bounds
<1>1. CASE RunStarts \/ RunGoesOn \/ RunStuck \/ RunEnds
  BY <1>1, RunStartsStep, RunGoesOnStep, RunStuckStep, RunEndsStep
<1>2. CASE RunLeaves
  <2>1. Numbered' /\ GoesOn
    BY <1>2, QuietStays DEF RunLeaves
  <2> QED BY <1>2, <2>1 DEF RunLeaves, ServerInv, ServiceTypeOK
<1>3. CASE CreateLate
  <2>1. /\ created' = created + 1 /\ late' = late \cup {created + 1}
        /\ UNCHANGED <<log, delayed, wire, socket, task, flush, ended>>
    BY <1>3 DEF CreateLate
  <2>2. GoesOn
    BY <2>1, QuietGoesOn DEF ServerInv
  <2>3. created \in Nat /\ log \in Seq(Ids) /\ ToSet(log) \subseteq 1 .. created
        /\ late \cap ToSet(log) = {} /\ late \subseteq Ids
    BY DEF ServerInv, Numbered, ServiceTypeOK
  <2>4. /\ created' \in Nat /\ created <= created' /\ late' \subseteq late \cup (created + 1 .. created')
        /\ late' \cap ToSet(log) = {} /\ late' \subseteq Ids
    BY <2>1, <2>3 DEF Ids
  <2>5. Numbered'
    BY <2>1, <2>2, <2>3, <2>4, NumbersStay
  <2>6. extras' \in 0 .. MaxExtras
    BY <1>3, ServiceAssumption DEF CreateLate, Extra, ServerInv, ServiceTypeOK
  <2> QED BY <1>3, <2>1, <2>2, <2>4, <2>5, <2>6 DEF CreateLate, ServerInv, ServiceTypeOK
<1>4. ASSUME NEW n \in late, AppendLate(n) PROVE ServiceTypeOK' /\ Numbered' /\ GoesOn
  <2> DEFINE e == Logged(n, NoStatus)
  <2>1. n \in Ids /\ n \in 1 .. created /\ n \notin ToSet(log) /\ created \in Nat
    BY DEF ServerInv, Numbered, ServiceTypeOK
  <2>2. e \in Events /\ e.tracked /\ e.after = {} /\ e.id = n
    BY <2>1 DEF Logged, Events
  <2>3. Publish(<<e>>) /\ log' = Append(log, n) /\ late' = late \ {n}
        /\ UNCHANGED <<socket, created, task, flush, ended>>
    BY <1>4 DEF AppendLate
  <2> HIDE DEF e
  <2>4. <<e>> \in Seq(Events) /\ ToSet(<<e>>) = {e}
    BY <2>2 DEF ToSet
  <2>5. PICK more : Published({e}, more)
    BY <2>3, <2>4, PublishIs DEF ServerInv
  <2>6. log' \in Seq(Ids) /\ ToSet(log') = ToSet(log) \cup {n}
    <3>1. log \in Seq(Ids)
      BY DEF ServerInv, ServiceTypeOK
    <3>2. <<n>> \in Seq(Ids) /\ ToSet(<<n>>) = {n}
      BY <2>1 DEF ToSet
    <3>3. log' = log \o <<n>>
      BY <2>1, <2>3, <3>1, AppendIsConcat
    <3> DEFINE one == <<n>>
    <3>4. one \in Seq(Ids) /\ log' = log \o one /\ ToSet(one) = {n}
      BY <3>2, <3>3
    <3> HIDE DEF one
    <3> QED BY <3>1, <3>4, ConcatIs
  <2>7. GoesOn
    <3>1. {x.id : x \in {y \in {e} : y.tracked}} = {n}
      BY <2>2
    <3>2. Steps({e}, more)
      BY <2>1, <2>2, <2>3, <2>5, <2>6, <3>1 DEF Steps, Reports
    <3> QED BY <3>2 DEF GoesOn
  <2>8. delayed' \subseteq Deliveries /\ wire' \in Seq(Events)
    BY <2>5, ConcatIs DEF Published, ServerInv, ServiceTypeOK
  <2>9. late' \subseteq late /\ late' \cap ToSet(log') = {}
    BY <2>3, <2>6 DEF ServerInv, Numbered
  <2>10. Numbered'
    BY <2>1, <2>3, <2>6, <2>7, <2>9, NumbersStay
  <2> QED BY <1>4, <2>3, <2>6, <2>7, <2>8, <2>9, <2>10 DEF AppendLate, ServerInv, ServiceTypeOK
<1>5. CASE PausePublishes
  <2>1. Claims({})
    BY DEF Claims
  <2>2. /\ created' = created + 1 /\ Publish(<<Snapshot({})>>) /\ pausing' = FALSE
        /\ UNCHANGED <<log, late, socket, task, flush, ended>>
    BY <1>5 DEF PausePublishes
  <2>3. GoesOn /\ delayed' \subseteq Deliveries /\ wire' \in Seq(Events)
    BY <2>1, <2>2, SnapshotIs
  <2>4. created' \in Nat /\ created <= created' /\ log \in Seq(Ids) /\ late \cap ToSet(log) = {}
    BY <2>2 DEF ServerInv, ServiceTypeOK, Numbered
  <2>5. Numbered'
    BY <2>2, <2>3, <2>4, NumbersStay
  <2> QED BY <1>5, <2>2, <2>3, <2>4, <2>5 DEF PausePublishes, ServerInv, ServiceTypeOK
<1>6. CASE PauseCall
  <2>1. extras' \in 0 .. MaxExtras
    BY <1>6, ServiceAssumption DEF PauseCall, Extra, ServerInv, ServiceTypeOK
  <2>2. CASE status \in {"IDLE", "RUNNING"}
    <3>1. <<"PAUSED">> \in Seq(Statuses \cup {NoStatus}) /\ Post(<<"PAUSED">>) /\ status' = "PAUSED"
          /\ UNCHANGED <<late, task, flush, ended, socket>>
      BY <1>6, <2>2 DEF PauseCall, SetStatus, Statuses
    <3>2. /\ created' \in Nat /\ log' \in Seq(Ids)
          /\ delayed' \subseteq Deliveries /\ wire' \in Seq(Events)
          /\ Numbered' /\ GoesOn
      BY <3>1, PostStays
    <3> QED BY <1>6, <2>1, <3>1, <3>2 DEF PauseCall, ServerInv, ServiceTypeOK, Statuses
  <2>3. CASE ~(status \in {"IDLE", "RUNNING"})
    <3>1. UNCHANGED <<log, late, delayed, wire, socket, created, task, flush, ended, status>>
      BY <1>6, <2>3 DEF PauseCall
    <3>2. Numbered' /\ GoesOn
      BY <3>1, QuietStays
    <3> QED BY <1>6, <2>1, <3>1, <3>2 DEF PauseCall, ServerInv, ServiceTypeOK
  <2> QED BY <2>2, <2>3
<1>7. CASE Accept
  <2>1. UNCHANGED <<log, late, delayed, wire, socket, created, flush, ended>>
    BY <1>7 DEF Accept, StartTask
  <2>2. task' \in {task, "running"} /\ thread' \in {thread, "queued"} /\ runs' \in 0 .. MaxRuns
        /\ extras' \in 0 .. MaxExtras
    BY <1>7, ServiceAssumption DEF Accept, StartTask, Extra, ServerInv, ServiceTypeOK
  <2>3. GoesOn
    BY <2>1, QuietGoesOn DEF ServerInv
  <2>4. Numbered'
    BY <2>1, <2>2 DEF ServerInv, Numbered, Pending
  <2> QED BY <1>7, <2>1, <2>2, <2>3, <2>4 DEF Accept, ServerInv, ServiceTypeOK
<1>8. CASE TaskFlushes
  <2>1. /\ task' = "flushing" /\ flush' = Pending /\ ended' = ToSet(log)
        /\ UNCHANGED <<log, late, delayed, wire, socket, created>>
    BY <1>8 DEF TaskFlushes, Flushed
  <2>2. GoesOn
    BY <2>1, QuietGoesOn DEF ServerInv
  <2>3. Numbered'
    BY <2>1 DEF ServerInv, Numbered, Pending
  <2>4. ToSet(log) \subseteq Ids /\ Pending \subseteq Ids
    BY DEF ServerInv, ServiceTypeOK, ToSet, Pending, Deliveries, Events
  <2> QED BY <1>8, <2>1, <2>2, <2>3, <2>4 DEF TaskFlushes, ServerInv, ServiceTypeOK
<1>9. CASE Sends
  <2>1. messages' \in 0 .. MaxMessages
    BY <1>9, ServiceAssumption DEF Sends, Message, ServerInv, ServiceTypeOK
  <2>2. PICK events \in Seq(Statuses \cup {NoStatus}) : Post(events) /\ status' \in Statuses
    <3>1. NoStatus \in Statuses \cup {NoStatus} /\ "IDLE" \in Statuses
      BY DEF Statuses
    <3>2. <<"IDLE", NoStatus>> \in Seq(Statuses \cup {NoStatus})
          /\ <<NoStatus>> \in Seq(Statuses \cup {NoStatus})
      BY <3>1
    <3> QED BY <1>9, <3>1, <3>2 DEF Sends, Message, AgentEvent, ServerInv, ServiceTypeOK
  <2>3. UNCHANGED <<late, task, flush, ended, socket>>
    BY <1>9 DEF Sends
  <2>4. /\ created' \in Nat /\ log' \in Seq(Ids)
        /\ delayed' \subseteq Deliveries /\ wire' \in Seq(Events)
        /\ Numbered' /\ GoesOn
    BY <2>2, <2>3, PostStays
  <2>5. unseen' = TRUE
    BY <1>9 DEF Sends, Message
  <2> QED BY <1>9, <2>1, <2>2, <2>4, <2>5 DEF Sends, ServerInv, ServiceTypeOK
<1> QED
  BY <1>1, <1>2, <1>3, <1>4, <1>5, <1>6, <1>7, <1>8, <1>9 DEF RunThread, OthersStep

\* The snapshot at the end of a run, and a delivery that was delayed.
LEMMA TaskPublishesStep ==
  ASSUME ServerInv, TaskPublishes
  PROVE  ServiceTypeOK' /\ Numbered' /\ log' = log /\ (~ FlushTimesOut => GoesOn)
<1> DEFINE e == Snapshot(ended)
<1>1. /\ Publish(<<e>>) /\ created' = created + 1 /\ task' = "none" /\ flush' = {}
      /\ UNCHANGED <<log, late, ended, socket>>
  BY DEF TaskPublishes
<1>2. e \in Events
  <2>1. ended \in SUBSET Ids /\ status \in Statuses /\ created + 1 \in Ids
    BY DEF ServerInv, ServiceTypeOK, Ids
  <2> QED BY <2>1 DEF Snapshot, Events
<1> HIDE DEF e
<1>3. <<e>> \in Seq(Events)
  BY <1>2
<1>4. PICK more : Published(ToSet(<<e>>), more)
  BY <1>1, <1>3, PublishIs DEF ServerInv
<1>5. delayed' \subseteq Deliveries /\ wire' \in Seq(Events)
  BY <1>4, ConcatIs DEF Published, ServerInv, ServiceTypeOK
<1>6. created' \in Nat /\ 1 .. created \subseteq 1 .. created'
  BY <1>1 DEF ServerInv, ServiceTypeOK
<1>7. Numbered'
  BY <1>1, <1>6 DEF ServerInv, Numbered
<1>8. ServiceTypeOK'
  BY <1>1, <1>5, <1>6 DEF TaskPublishes, bounds, ServerInv, ServiceTypeOK
<1>9. ASSUME ~ FlushTimesOut PROVE GoesOn
  <2>1. flush \cap Pending = {} /\ task = "flushing"
    BY <1>9 DEF TaskPublishes, MayPublish
  <2>2. Claims(ended)
    BY <2>1 DEF Claims, ServerInv, Numbered
  <2> QED BY <1>1, <2>2, SnapshotIs DEF e
<1> QED BY <1>1, <1>7, <1>8, <1>9

\* A delayed delivery.
LEMMA ResumeStep ==
  ASSUME ServerInv, NEW d \in delayed, Resume(d)
  PROVE  ServiceTypeOK' /\ Numbered' /\ log' = log
<1>1. /\ delayed' = delayed \ {d} /\ wire' \in Seq(Events)
      /\ UNCHANGED <<log, late, created, task, flush, ended, socket>>
  BY DEF Resume, conversation, runVars, ServerInv, ServiceTypeOK, Deliveries
<1>2. Pending' \subseteq Pending
  BY <1>1 DEF Pending
<1>3. Numbered'
  BY <1>1, <1>2 DEF ServerInv, Numbered
<1> QED BY <1>1, <1>3 DEF Resume, conversation, runVars, bounds, ServerInv, ServiceTypeOK

-----------------------------------------------------------------------------
(* The steps of the client, and the first invariant.                       *)

SyncInv == PageInv /\ Numbered

\* A step of the server leaves the client alone and adds to the log.
LEMMA SyncStays ==
  ASSUME SyncInv, ServiceTypeOK', Numbered', ToSet(log) \subseteq ToSet(log'), socket' = socket,
         UNCHANGED <<page, fetched, cache, info, link, isReady, history>>,
         \/ phase' = phase
         \/ phase' = "idle" /\ phase \in {"idle", "returned"}
  PROVE  SyncInv'
<1>1. TypeOK'
  BY DEF SyncInv, PageInv, TypeOK, history, Phases
<1>2. Paged' /\ Covered'
  BY DEF SyncInv, PageInv, Paged, Covered, history, Fetching
<1> QED BY <1>1, <1>2 DEF SyncInv, PageInv

\* The server and its users.
LEMMA SyncServerStep ==
  ASSUME SyncInv, ServerNext \/ SendMessage
  PROVE  SyncInv'
<1> USE DEF SyncInv, PageInv, TypeOK, ServerInv
<1>1. CASE SendMessage
  <2>1. Sends
    BY <1>1 DEF SendMessage, Sends
  <2>2. ServiceTypeOK' /\ Numbered' /\ GoesOn
    BY <2>1, ServerGoesOn
  <2>3. ToSet(log) \subseteq ToSet(log') /\ socket' = socket
    BY <2>2 DEF GoesOn, Steps
  <2> QED BY <1>1, <2>2, <2>3, SyncStays DEF SendMessage
<1>2. CASE ServerNext
  <2>1. UNCHANGED <<phase, page, fetched, cache, info, link, isReady, history>>
    BY <1>2 DEF ServerNext, client
  <2> DEFINE Goal ==
        ServiceTypeOK' /\ Numbered' /\ ToSet(log) \subseteq ToSet(log') /\ socket' = socket
  <2>2. Goal
    <3>1. CASE TaskPublishes
      BY <3>1, TaskPublishesStep DEF TaskPublishes
    <3>2. CASE \E d \in delayed : Resume(d)
      BY <3>2, ResumeStep DEF Resume
    <3>3. CASE \/ RunThread \/ TaskFlushes \/ CreateLate \/ \E n \in late : AppendLate(n)
               \/ PausePublishes \/ OthersStep
      BY <3>3, ServerGoesOn DEF GoesOn, Steps
    <3>4. \/ TaskPublishes
          \/ \E d \in delayed : Resume(d)
          \/ RunThread \/ TaskFlushes \/ CreateLate \/ \E n \in late : AppendLate(n)
          \/ PausePublishes \/ OthersStep
      <4> HIDE DEF TypeOK, SyncInv, ServerInv, PageInv
      <4> QED BY <1>2 DEF ServerNext, ServerStep, RunTask
    <3> HIDE DEF TypeOK, SyncInv, ServerInv, PageInv, Goal
    <3> QED BY <3>1, <3>2, <3>3, <3>4
  <2>3. phase' = phase /\ UNCHANGED <<page, fetched, cache, info, link, isReady, history>>
    BY <2>1
  <2>4. ServiceTypeOK' /\ Numbered' /\ ToSet(log) \subseteq ToSet(log') /\ socket' = socket
    BY <2>2
  <2>5. SyncInv
    OBVIOUS
  <2> HIDE DEF TypeOK, SyncInv, ServerInv, PageInv, Goal
  <2> QED BY <2>3, <2>4, <2>5, SyncStays
<1> QED BY <1>1, <1>2

\* What a page adds to what was collected.
LEMMA CollectedIs ==
  ASSUME SyncInv, phase \in Fetching
  PROVE  LET events == fetched \o Items IN
         /\ events \in Seq(Ids) /\ Strict(events)
         /\ ToSet(events) = ToSet(fetched) \cup ToSet(Items)
         /\ ToSet(Items) \subseteq ToSet(log)
         /\ \A n \in ToSet(events) : NextPage # 0 => n < NextPage
         /\ NextPage \in Nat /\ (NextPage # 0 => NextPage \in ToSet(log))
         /\ \A n \in ToSet(log) : page <= n /\ (NextPage # 0 => n < NextPage) => n \in ToSet(Items)
<1>1. /\ log \in Seq(Ids) /\ page \in Nat /\ fetched \in Seq(Ids) /\ Strict(fetched)
      /\ page # 0 => page \in ToSet(log)
      /\ \A n \in ToSet(fetched) : page # 0 /\ n < page
  BY DEF SyncInv, PageInv, TypeOK, ServiceTypeOK, Paged
<1>2. /\ Items \in Seq(Ids) /\ Strict(Items) /\ NextPage \in Nat
      /\ \A n \in ToSet(Items) : /\ n \in ToSet(log) /\ page <= n
                                 /\ NextPage # 0 => n < NextPage
      /\ NextPage # 0 => NextPage \in ToSet(log) /\ page < NextPage
      /\ \A n \in ToSet(log) : page <= n /\ (NextPage # 0 => n < NextPage) => n \in ToSet(Items)
  BY <1>1, PageIs
<1>3. ToSet(fetched) \subseteq Nat /\ ToSet(Items) \subseteq Nat
  BY <1>1, <1>2 DEF ToSet, Ids
<1>4. \A m \in ToSet(fetched), n \in ToSet(Items) : m < n
  BY <1>1, <1>2, <1>3
<1>5. Items \in Seq(Nat) /\ fetched \in Seq(Nat)
  BY <1>1, <1>2 DEF Ids
<1>6. Strict(fetched \o Items)
  BY <1>1, <1>2, <1>4, <1>5, StrictConcat
<1>7. fetched \o Items \in Seq(Ids) /\ ToSet(fetched \o Items) = ToSet(fetched) \cup ToSet(Items)
  BY <1>1, <1>2, ConcatIs
<1>8. ASSUME NEW n \in ToSet(fetched), NextPage # 0 PROVE n < NextPage
  BY <1>1, <1>2, <1>3, <1>8
<1> QED BY <1>2, <1>6, <1>7, <1>8

\* Merging keeps what is there and the order.
LEMMA CacheIs ==
  ASSUME NEW seq \in Seq(Ids), Strict(seq), NEW events \in Seq(Ids)
  PROVE  LET new == Merge(seq, events) IN
         new \in Seq(Ids) /\ Strict(new) /\ ToSet(new) = ToSet(seq) \cup ToSet(events)
<1> DEFINE new == Merge(seq, events)
<1>1. seq \in Seq(Nat) /\ events \in Seq(Nat)
  BY DEF Ids
<1>2. new \in Seq(Nat) /\ Strict(new) /\ ToSet(new) = ToSet(seq) \cup ToSet(events)
  BY <1>1, MergeIs
<1>3. ToSet(seq) \subseteq Ids /\ ToSet(events) \subseteq Ids
  BY DEF ToSet
<1> HIDE DEF new
<1>4. \A i \in 1 .. Len(new) : new[i] \in Ids
  <2>1. DOMAIN new = 1 .. Len(new) /\ ToSet(new) \subseteq Ids
    BY <1>2, <1>3
  <2> QED BY <2>1 DEF ToSet
<1>5. new \in Seq(Ids)
  BY <1>2, <1>4
<1> QED BY <1>2, <1>5 DEF new

\* Where a sync, a reconciliation and the last one lead.
LEMMA NextPhase == \A p \in Fetching : /\ After[p] \in Phases \ Fetching
                                       /\ After[p] = "returned" <=> p = "final"
                                       /\ After[p] = "connect" <=> p = "sync"
BY DEF After, Fetching, Phases

\* The end of a sync or of a reconciliation, complete or not.
LEMMA FinishesStep ==
  ASSUME SyncInv, phase \in Fetching, NEW events \in Seq(Ids), Strict(events), Finishes(events),
         UNCHANGED <<status, log, created, late, pausing, unseen, answered, runVars, delayed,
                     network, runs, messages, info, isReady, known, applied>>,
         extras' \in 0 .. MaxExtras, partial' \in BOOLEAN, lossy' = lossy,
         phase = "final" /\ ~ partial' => known \subseteq ToSet(events)
  PROVE  /\ SyncInv'
         /\ phase = "sync" => cache' = events
         /\ phase # "sync" => ToSet(cache') = ToSet(cache) \cup ToSet(events)
<1>1. /\ phase' = After[phase] /\ page' = 0 /\ fetched' = <<>>
      /\ cache' = IF phase = "sync" THEN events ELSE Merge(cache, events)
      /\ link' = IF phase = "sync" THEN "connecting" ELSE link
  BY DEF Finishes, Begins
<1>2. cache \in Seq(Ids) /\ Strict(cache)
  BY DEF SyncInv, PageInv, TypeOK, Paged
<1>3. /\ cache' \in Seq(Ids) /\ Strict(cache)'
      /\ phase # "sync" => ToSet(cache') = ToSet(cache) \cup ToSet(events)
  <2>1. CASE phase = "sync"
    BY <1>1, <2>1 DEF Strict
  <2>2. CASE phase # "sync"
    <3>1. cache' = Merge(cache, events)
      BY <1>1, <2>2
    <3>2. cache' \in Seq(Ids) /\ Strict(cache') /\ ToSet(cache') = ToSet(cache) \cup ToSet(events)
      BY <1>2, <3>1, CacheIs
    <3> QED BY <3>2 DEF Strict
  <2> QED BY <2>1, <2>2
<1>4. ServiceTypeOK'
  BY DEF SyncInv, PageInv, TypeOK, ServiceTypeOK, runVars, network
<1>5. (socket' # 0) = (link' = "open") /\ link' \in {"off", "connecting", "open", "broken"}
  <2>1. /\ (socket # 0) = (link = "open") /\ link \in {"off", "connecting", "open", "broken"}
        /\ phase = "sync" => link = "off"
    BY DEF SyncInv, PageInv, TypeOK, Paged
  <2>2. CASE phase = "sync"
    BY <1>1, <2>1, <2>2 DEF network
  <2>3. CASE phase # "sync"
    BY <1>1, <2>1, <2>3 DEF network
  <2> QED BY <2>2, <2>3
<1>6. phase' \in Phases \ Fetching
  BY <1>1, NextPhase
<1>7. /\ fetched' \in Seq(Ids) /\ page' \in Nat /\ known' \subseteq Ids
      /\ info' \in Statuses \cup {NoStatus} /\ {isReady, partial, lossy}' \subseteq BOOLEAN
      /\ applied' \in Events \cup {NoEvent}
  BY <1>1 DEF SyncInv, PageInv, TypeOK
<1>8. TypeOK'
  BY <1>3, <1>4, <1>5, <1>6, <1>7 DEF TypeOK
<1>9. Paged'
  <2>1. ToSet(fetched') = {} /\ Strict(fetched)'
    BY <1>1 DEF ToSet, Strict
  <2> QED BY <1>1, <1>3, <1>6, <2>1 DEF Paged, Fetching
<1>10. Covered'
  BY <1>1, <1>3, <1>6, NextPhase DEF Covered, Fetching
<1>11. Numbered'
  BY DEF SyncInv, Numbered, Pending, runVars
<1> QED BY <1>3, <1>1, <1>8, <1>9, <1>10, <1>11 DEF SyncInv, PageInv

\* A page is read.
LEMMA FetchPageStep ==
  ASSUME SyncInv, FetchPage
  PROVE  SyncInv'
<1> DEFINE events == fetched \o Items
<1>1. phase \in Fetching
  BY DEF FetchPage
<1>2. /\ events \in Seq(Ids) /\ Strict(events)
      /\ ToSet(events) = ToSet(fetched) \cup ToSet(Items)
      /\ ToSet(Items) \subseteq ToSet(log)
      /\ \A n \in ToSet(events) : NextPage # 0 => n < NextPage
      /\ NextPage \in Nat /\ (NextPage # 0 => NextPage \in ToSet(log))
      /\ \A n \in ToSet(log) : page <= n /\ (NextPage # 0 => n < NextPage) => n \in ToSet(Items)
  BY <1>1, CollectedIs
<1>3. UNCHANGED <<serviceVars, info, isReady, known, applied, lossy>>
  BY DEF FetchPage
<1>4. /\ page \in Nat /\ log \in Seq(Ids) /\ Numbered
      /\ phase = "final" => /\ known \subseteq ToSet(log)
                            /\ \A n \in known : n < page => n \in ToSet(fetched)
  BY DEF SyncInv, PageInv, TypeOK, ServiceTypeOK, Covered
<1>5. ToSet(log) \subseteq Nat
  BY <1>4 DEF ToSet, Ids
<1>6. CASE NextPage # 0
  <2>1. page' = NextPage /\ fetched' = events /\ UNCHANGED <<phase, cache, link, partial>>
    BY <1>6 DEF FetchPage
  <2> HIDE DEF events
  <2>2. ASSUME phase = "final", NEW n \in known, n < NextPage PROVE n \in ToSet(events)
    BY <1>2, <1>4, <1>5, <1>6, <2>2
  <2>3. TypeOK' /\ Numbered'
    BY <1>2, <1>3, <2>1 DEF SyncInv, PageInv, TypeOK, ServiceTypeOK, serviceVars, conversation,
                           runVars, network, bounds, Numbered, Pending
  <2>4. log' = log
    BY <1>3 DEF serviceVars, conversation
  <2>5. Paged'
    BY <1>1, <1>2, <1>6, <2>1, <2>4 DEF SyncInv, PageInv, Paged, Strict
  <2>6. Covered'
    BY <1>1, <1>3, <1>4, <2>1, <2>2, <2>4 DEF Covered, Fetching
  <2> QED BY <2>3, <2>5, <2>6 DEF SyncInv, PageInv
<1>7. CASE NextPage = 0
  <2>1. Finishes(events) /\ partial' = FALSE
    BY <1>7 DEF FetchPage
  <2> HIDE DEF events
  <2>2. ASSUME phase = "final", NEW n \in known PROVE n \in ToSet(events)
    BY <1>2, <1>4, <1>5, <1>7, <2>2
  <2>3. extras' \in 0 .. MaxExtras /\ partial' \in BOOLEAN
    BY <1>3, <2>1 DEF SyncInv, PageInv, TypeOK, ServiceTypeOK, serviceVars, bounds
  <2>4. UNCHANGED <<status, log, created, late, pausing, unseen, answered, runVars, delayed,
                    network, runs, messages, info, isReady, known, applied, lossy>>
    BY <1>3 DEF serviceVars, conversation, bounds
  <2> QED BY <1>1, <1>2, <2>1, <2>2, <2>3, <2>4, FinishesStep
<1> QED BY <1>6, <1>7

\* A page cannot be read.
LEMMA FetchFailsStep ==
  ASSUME SyncInv, FetchFails
  PROVE  SyncInv'
<1>1. /\ phase \in Fetching /\ partial' = TRUE
      /\ UNCHANGED <<status, log, created, late, pausing, unseen, answered, runVars, delayed,
                     network, runs, messages, info, isReady, known, applied, lossy>>
  BY DEF FetchFails, conversation
<1>2. extras' \in 0 .. MaxExtras
  BY ServiceAssumption DEF FetchFails, Extra, SyncInv, PageInv, TypeOK, ServiceTypeOK
<1>3. fetched \in Seq(Ids) /\ Strict(fetched)
  BY DEF SyncInv, PageInv, TypeOK, Paged
<1>4. CASE phase = "sync"
  <2>1. phase' = "failed" /\ UNCHANGED <<page, fetched, cache, link>>
    BY <1>4 DEF FetchFails
  <2>2. TypeOK' /\ Numbered'
    BY <1>1, <1>2, <2>1 DEF SyncInv, PageInv, TypeOK, ServiceTypeOK, runVars, network,
                           Numbered, Pending, Phases
  <2>3. Paged' /\ Covered'
    BY <1>1, <2>1 DEF SyncInv, PageInv, Paged, Covered, Fetching
  <2> QED BY <2>2, <2>3 DEF SyncInv, PageInv
<1>5. CASE phase # "sync"
  <2>1. Finishes(fetched)
    BY <1>5 DEF FetchFails
  <2>2. partial' \in BOOLEAN /\ (phase = "final" /\ ~ partial' => known \subseteq ToSet(fetched))
    BY <1>1
  <2> QED BY <1>1, <1>2, <1>3, <2>1, <2>2, FinishesStep
<1> QED BY <1>4, <1>5

\* The websocket is opened.
LEMMA ConnectStep ==
  ASSUME SyncInv, Connect
  PROVE  SyncInv'
<1>1. /\ link' = "open" /\ socket' = sockets + 1 /\ sockets' = sockets + 1
      /\ created' = created + 1 /\ wire' = <<Snapshot({})>> /\ phase # "sync"
      /\ UNCHANGED <<status, log, late, pausing, unseen, answered, runVars, delayed, bounds,
                     phase, page, fetched, cache, info, isReady, history>>
  BY DEF Connect, SyncInv, PageInv, Paged
<1>2. ServiceTypeOK
  BY DEF SyncInv, PageInv, TypeOK
<1>3. Snapshot({}) \in Events
  BY <1>2 DEF ServiceTypeOK, Snapshot, Events, Ids
<1>4. wire' \in Seq(Events) /\ socket' \in 0 .. sockets' /\ sockets' \in Nat /\ socket' # 0
      /\ created' \in Nat /\ 1 .. created \subseteq 1 .. created'
  BY <1>1, <1>2, <1>3 DEF ServiceTypeOK
<1>5. ServiceTypeOK'
  BY <1>1, <1>2, <1>4 DEF ServiceTypeOK, runVars, bounds
<1>6. (socket' # 0) = (link' = "open")
  BY <1>1, <1>4
<1>7. TypeOK'
  BY <1>1, <1>5, <1>6 DEF SyncInv, PageInv, TypeOK, history
<1>8. Numbered'
  BY <1>1, <1>4 DEF SyncInv, Numbered, Pending, runVars
<1>9. Paged' /\ Covered'
  BY <1>1 DEF SyncInv, PageInv, Paged, Covered, history
<1> QED BY <1>7, <1>8, <1>9 DEF SyncInv, PageInv

\* AddEventIs for lists of ids.
LEMMA AddIs ==
  ASSUME NEW seq \in Seq(Ids), Strict(seq), NEW n \in Ids
  PROVE  LET new == AddEvent(seq, n) IN
         new \in Seq(Ids) /\ Strict(new) /\ ToSet(new) = ToSet(seq) \cup {n}
<1> DEFINE new == AddEvent(seq, n)
<1>1. seq \in Seq(Nat) /\ n \in Nat /\ ToSet(seq) \subseteq Ids
  BY DEF Ids, ToSet
<1>2. new \in Seq(Nat) /\ Strict(new) /\ ToSet(new) = ToSet(seq) \cup {n}
  BY <1>1, AddEventIs
<1> HIDE DEF new
<1>3. \A i \in 1 .. Len(new) : new[i] \in Ids
  <2>1. DOMAIN new = 1 .. Len(new) /\ ToSet(new) \subseteq Ids
    BY <1>1, <1>2
  <2> QED BY <2>1 DEF ToSet
<1>4. new \in Seq(Ids)
  BY <1>2, <1>3
<1> QED BY <1>2, <1>4 DEF new

\* An event is received.
LEMMA ReceiveStep ==
  ASSUME SyncInv, Receive
  PROVE  /\ SyncInv' /\ ToSet(cache') = ToSet(cache) \cup {Head(wire).id}
         /\ Head(wire) \in Events
<1> DEFINE e == Head(wire)
<1>1. /\ link = "open" /\ wire # <<>> /\ wire' = Tail(wire)
      /\ cache' = AddEvent(cache, e.id)
      /\ info' = IF e.status = NoStatus THEN info ELSE e.status
      /\ isReady' = (isReady \/ e.status # NoStatus)
      /\ applied' = IF e.after = {} THEN applied ELSE e
      /\ UNCHANGED <<conversation, runVars, delayed, socket, sockets, bounds,
                     phase, page, fetched, link, known, partial, lossy>>
  BY DEF Receive
<1>2. wire \in Seq(Events) /\ cache \in Seq(Ids) /\ Strict(cache)
  BY DEF SyncInv, PageInv, TypeOK, ServiceTypeOK, Paged
<1>3. e \in Events /\ wire' \in Seq(Events)
  BY <1>1, <1>2, HeadTailProperties
<1> HIDE DEF e
<1>4. e.id \in Ids /\ e.status \in Statuses \cup {NoStatus}
  BY <1>3 DEF Events
<1>5. cache' \in Seq(Ids) /\ Strict(cache') /\ ToSet(cache') = ToSet(cache) \cup {e.id}
  BY <1>1, <1>2, <1>4, AddIs
<1>6. info' \in Statuses \cup {NoStatus} /\ applied' \in Events \cup {NoEvent} /\ isReady' \in BOOLEAN
  BY <1>1, <1>3, <1>4 DEF SyncInv, PageInv, TypeOK
<1>7. ServiceTypeOK'
  BY <1>1, <1>3 DEF SyncInv, PageInv, TypeOK, ServiceTypeOK, conversation, runVars, bounds
<1>8. TypeOK'
  BY <1>1, <1>5, <1>6, <1>7 DEF SyncInv, PageInv, TypeOK
<1>9. Numbered' /\ log' = log
  BY <1>1 DEF SyncInv, Numbered, Pending, conversation, runVars
<1>10. Paged' /\ Covered'
  BY <1>1, <1>5, <1>9 DEF SyncInv, PageInv, Paged, Covered, Strict
<1> QED BY <1>3, <1>5, <1>8, <1>9, <1>10 DEF SyncInv, PageInv, e

\* Every step keeps the first invariant.
LEMMA SyncStep == SyncInv /\ [Next]_vars => SyncInv'
<1> SUFFICES ASSUME SyncInv, [Next]_vars PROVE SyncInv'
  OBVIOUS
<1> USE DEF SyncInv, PageInv
<1>1. CASE Drop
  <2>1. /\ link' \in {"connecting", "broken"} /\ wire' = <<>> /\ socket' = 0
        /\ lossy' = TRUE /\ link = "open"
        /\ UNCHANGED <<conversation, runVars, delayed, sockets, runs, messages,
                       phase, page, fetched, cache, info, isReady, known, partial, applied>>
    BY <1>1 DEF Drop, Unsubscribe
  <2>2. extras' \in 0 .. MaxExtras
    <3>1. extras \in 0 .. MaxExtras /\ MaxExtras \in Nat
      BY ServiceAssumption DEF TypeOK, ServiceTypeOK
    <3>2. extras < MaxExtras /\ extras' = extras + 1
      BY <1>1 DEF Drop, Extra
    <3> HIDE DEF SyncInv, PageInv
    <3> QED BY <3>1, <3>2
  <2>3. ServiceTypeOK' /\ Numbered'
    <3>1. Numbered'
      BY <2>1 DEF Numbered, Pending, conversation, runVars
    <3>2. /\ status' \in Statuses /\ log' \in Seq(Ids) /\ created' \in Nat
          /\ thread' \in {"none", "queued", "running"}
          /\ task' \in {"none", "running", "flushing"}
          /\ {flush', ended', late'} \subseteq SUBSET Ids
          /\ {pausing', unseen', answered'} \subseteq BOOLEAN
      BY <2>1 DEF TypeOK, ServiceTypeOK, conversation, runVars
    <3>3. /\ delayed' \subseteq Deliveries /\ socket' \in 0 .. sockets' /\ sockets' \in Nat
          /\ wire' \in Seq(Events)
      BY <2>1 DEF TypeOK, ServiceTypeOK
    <3>4. runs' \in 0 .. MaxRuns /\ messages' \in 0 .. MaxMessages
      BY <2>1 DEF TypeOK, ServiceTypeOK
    <3> QED BY <2>2, <3>1, <3>2, <3>3, <3>4 DEF ServiceTypeOK
  <2>4. (socket' # 0) = (link' = "open")
    BY <2>1
  <2>5. TypeOK'
    BY <2>1, <2>3, <2>4 DEF TypeOK
  <2>6. Paged' /\ Covered'
    BY <2>1 DEF Paged, Covered, conversation
  <2> QED BY <2>3, <2>5, <2>6
<1>2. CASE Ready
  <2>1. /\ phase = "connect" /\ phase' = "reconcile" /\ page' = 0 /\ fetched' = <<>>
        /\ UNCHANGED <<serviceVars, cache, info, link, isReady, history>>
    BY <1>2 DEF Ready, Begins
  <2>2. ToSet(fetched') = {} /\ Strict(fetched') /\ fetched' \in Seq(Ids)
    BY <2>1 DEF ToSet, Strict
  <2>3. TypeOK' /\ Numbered'
    BY <2>1, <2>2 DEF TypeOK, ServiceTypeOK, Numbered, Pending, serviceVars, conversation,
                      runVars, network, bounds, history, Phases
  <2>4. Paged' /\ Covered'
    BY <2>1, <2>2 DEF Paged, Covered, Strict, Fetching
  <2> QED BY <2>3, <2>4
<1>3. CASE ReadyTimesOut
  <2>1. /\ phase' = "failed" /\ link' = "broken" /\ wire' = <<>> /\ socket' = 0
        /\ UNCHANGED <<conversation, runVars, delayed, sockets, bounds,
                       page, fetched, cache, info, isReady, history>>
    BY <1>3 DEF ReadyTimesOut, Unsubscribe
  <2>2. ServiceTypeOK' /\ Numbered'
    BY <2>1 DEF TypeOK, ServiceTypeOK, Numbered, Pending, conversation, runVars, bounds
  <2>3. (socket' # 0) = (link' = "open")
    BY <2>1
  <2>4. TypeOK'
    BY <2>1, <2>2, <2>3 DEF TypeOK, history, Phases
  <2>5. Paged' /\ Covered'
    BY <2>1 DEF Paged, Covered, conversation, history, Fetching
  <2> QED BY <2>2, <2>4, <2>5
<1>4. CASE Run
  <2>1. /\ phase = "idle" /\ phase' = "poll"
        /\ UNCHANGED <<conversation, delayed, network, messages, extras,
                       page, fetched, cache, info, link, isReady, history, flush, ended>>
    BY <1>4 DEF Run, StartTask, runVars
  <2>2. task' \in {task, "running"} /\ thread' \in {thread, "queued"} /\ runs' \in 0 .. MaxRuns
    BY <1>4, ServiceAssumption DEF Run, StartTask, runVars, TypeOK, ServiceTypeOK
  <2>3. TypeOK' /\ Numbered'
    BY <2>1, <2>2 DEF TypeOK, ServiceTypeOK, Numbered, Pending, conversation, network, history,
                      Phases
  <2>4. Paged' /\ Covered'
    BY <2>1 DEF Paged, Covered, conversation, history, Fetching
  <2> QED BY <2>3, <2>4
<1>5. CASE Poll
  <2>1. /\ phase = "poll"
        /\ \/ phase' = "final" /\ page' = 0 /\ fetched' = <<>> /\ known' = ToSet(log)
           \/ phase' = "failed" /\ UNCHANGED <<page, fetched, known>>
        /\ UNCHANGED <<serviceVars, cache, info, link, isReady, partial, applied, lossy>>
    BY <1>5 DEF Poll, Begins
  <2>2. ToSet(<<>>) = {} /\ Strict(<<>>) /\ <<>> \in Seq(Ids)
    BY DEF ToSet, Strict
  <2>3. ToSet(log) \subseteq Ids
    BY DEF TypeOK, ServiceTypeOK, ToSet
  <2>4. ServiceTypeOK' /\ Numbered' /\ log' = log
    BY <2>1 DEF TypeOK, ServiceTypeOK, Numbered, Pending, serviceVars, conversation, runVars,
                network, bounds
  <2>5. socket' = socket /\ link' = link
    BY <2>1 DEF serviceVars, network
  <2>6. TypeOK'
    <3>1. phase' \in Phases /\ page' \in Nat /\ fetched' \in Seq(Ids) /\ known' \subseteq Ids
      <4> DEFINE none == <<>>
      <4>1. none \in Seq(Ids) /\ fetched' \in {none, fetched}
        BY <2>1
      <4> HIDE DEF none
      <4>2. fetched' \in Seq(Ids)
        BY <4>1 DEF TypeOK
      <4>3. phase' \in Phases /\ page' \in Nat /\ known' \subseteq Ids
        BY <2>1, <2>3 DEF TypeOK, Phases
      <4> QED BY <4>2, <4>3
    <3>2. (socket' # 0) = (link' = "open")
      BY <2>5 DEF TypeOK
    <3> QED BY <2>1, <2>4, <3>1, <3>2 DEF TypeOK
  <2>7. Paged' /\ Covered'
    <3>1. known \subseteq Ids /\ ToSet(log) \subseteq Nat
      BY <2>3 DEF TypeOK, Ids
    <3> QED BY <2>1, <2>2, <2>4, <3>1 DEF Paged, Covered, Fetching, Strict
  <2> QED BY <2>4, <2>6, <2>7
<1>6. CASE UNCHANGED vars
  <2>1. TypeOK' /\ Numbered'
    BY <1>6 DEF vars, serviceVars, conversation, runVars, network, bounds, client, history,
                TypeOK, ServiceTypeOK, Numbered, Pending
  <2>2. Paged' /\ Covered'
    BY <1>6 DEF vars, serviceVars, conversation, client, history, Paged, Covered, Strict
  <2> QED BY <2>1, <2>2
<1> HIDE DEF SyncInv, PageInv
<1> QED BY <1>1, <1>2, <1>3, <1>4, <1>5, <1>6, ReceiveStep, FetchPageStep, FetchFailsStep,
           ConnectStep, SyncServerStep DEF Next, Caller

\* The first invariant holds always.
LEMMA SyncInvariant == Spec => []SyncInv
<1>1. Init => SyncInv
  <2> SUFFICES ASSUME Init PROVE SyncInv
    OBVIOUS
  <2>1. Numbered
    BY DEF Init, ServiceInit, Numbered, ToSet
  <2> QED BY <2>1, PageInit DEF SyncInv
<1> QED BY <1>1, SyncStep, PTL DEF Spec

\* The state of server and client keeps its types.
THEOREM RemoteTyped == Spec => []TypeOK
<1>1. SyncInv => TypeOK
  BY DEF SyncInv, PageInv
<1> QED BY <1>1, SyncInvariant, PTL

\* However pages, pushes and reconciliations overlap, the client has each event once and in
\* the order of time.
THEOREM CacheStaysOrdered == Spec => []CacheOrdered
<1>1. SyncInv => CacheOrdered
  BY DEF SyncInv, PageInv, TypeOK, Paged, CacheOrdered, Strict
<1> QED BY <1>1, SyncInvariant, PTL

\* For any size of a page, any events that come while pages are read and whatever happens
\* to the socket: what was logged when run() saw its end is there when it has returned.
THEOREM NothingIsMissed == Spec => []CompleteAfterRun
<1>1. SyncInv => CompleteAfterRun
  BY DEF SyncInv, PageInv, Covered, CompleteAfterRun
<1> QED BY <1>1, SyncInvariant, PTL

-----------------------------------------------------------------------------
(***************************************************************************)
(* The second inductive invariant: where the events of a snapshot are.     *)
(* What a snapshot claims to come after is logged, and on nobody's way to  *)
(* the socket, nor behind it on the wire (Kept): wait_for_pending saw to   *)
(* that.  On a connection that holds, an event of the log is with the      *)
(* client, on the wire, or on its way (Arrives), where a page that was     *)
(* read counts as long as it is read.                                      *)
(***************************************************************************)
OnWire == {e.id : e \in {x \in ToSet(wire) : x.tracked}}
OnTheWay == {d.event.id : d \in {x \in delayed : x.event.tracked /\ x.to = socket /\ socket # 0}}
Near == ToSet(cache) \cup OnWire \cup OnTheWay

NotBehind == \A i, j \in 1 .. Len(wire) : i < j /\ wire[j].tracked => wire[j].id \notin wire[i].after
Kept == /\ \A d \in delayed : Claims(d.event.after) /\ Reports(d.event)
        /\ \A e \in ToSet(wire) : Claims(e.after) /\ Reports(e)
        /\ NotBehind
        /\ Claims(applied.after) /\ applied.after \cap OnWire = {}
        /\ ~ isReady => applied.after = {}
Attached == /\ ~ lossy /\ isReady => link = "open"
            /\ phase \notin {"sync", "connect", "failed"} => isReady
            /\ phase = "sync" => ~ isReady
            /\ phase = "failed" /\ ~ isReady => link \in {"off", "broken"}
Arrives ==
  ~ lossy =>
    /\ phase \in {"reconcile", "final"} =>
         \A n \in ToSet(log) : n < page => n \in ToSet(fetched) \cup Near
    /\ phase \in {"idle", "poll", "final", "returned", "failed"} /\ ~ partial /\ isReady =>
         ToSet(log) \subseteq Near

OrderInv == SyncInv /\ Kept /\ Attached /\ Arrives

\* The second invariant holds when the client is made.
LEMMA OrderInit == Init => Kept /\ Attached /\ Arrives
<1> SUFFICES ASSUME Init PROVE Kept /\ Attached /\ Arrives
  OBVIOUS
<1>1. applied.after = {} /\ ToSet(wire) = {} /\ Len(wire) = 0
  BY DEF Init, ServiceInit, NoEvent, ToSet
<1>2. OnWire = {} /\ NotBehind
  BY <1>1 DEF OnWire, NotBehind
<1>3. Kept
  BY <1>1, <1>2 DEF Init, ServiceInit, Kept, Claims
<1> QED BY <1>3 DEF Init, Attached, Arrives

\* An event that is published is on the wire or on its way; nothing else gets there.
LEMMA OrderGoesOn ==
  ASSUME OrderInv, GoesOn, UNCHANGED <<cache, applied, isReady>>
  PROVE  /\ Kept' /\ Near \subseteq Near'
         /\ socket # 0 => ToSet(log') \subseteq ToSet(log) \cup Near'
<1>1. PICK new, more : Steps(new, more)
  BY DEF GoesOn
<1> DEFINE ids == {e.id : e \in {x \in new : x.tracked}}
<1>2. /\ new \subseteq Events /\ more \in Seq(Events)
      /\ wire' = wire \o more /\ ToSet(more) \subseteq new
      /\ delayed \subseteq delayed'
      /\ \A d \in delayed' \ delayed : d.event \in new /\ d.to = socket
      /\ socket # 0 => \A e \in new : e \in ToSet(more) \/ \E d \in delayed' : d.event = e /\ d.to = socket
      /\ socket' = socket
      /\ \A e \in new : /\ e.tracked => e.after = {} /\ e.id \notin ToSet(log)
                        /\ ~ e.tracked => Claims(e.after)
                        /\ Reports(e)
      /\ ToSet(log') = ToSet(log) \cup ids
  BY <1>1 DEF Steps, Published
<1>3. wire \in Seq(Events)
  BY DEF OrderInv, SyncInv, PageInv, TypeOK, ServiceTypeOK
<1>4. /\ ToSet(wire') = ToSet(wire) \cup ToSet(more) /\ Len(wire') = Len(wire) + Len(more)
      /\ \A i \in 1 .. Len(wire') :
            \/ i \in 1 .. Len(wire) /\ wire'[i] = wire[i]
            \/ \E j \in 1 .. Len(more) : i = Len(wire) + j /\ wire'[i] = more[j]
  BY <1>2, <1>3, ConcatIs
<1>5. Pending' \subseteq Pending \cup ids
  BY <1>1, PendingGrows DEF Steps
<1>6. ids \cap ToSet(log) = {}
  BY <1>2
<1>7. ASSUME NEW after, Claims(after) PROVE Claims(after)'
  BY <1>2, <1>5, <1>6, <1>7 DEF Claims
<1>8. \A e \in new : Claims(e.after) /\ Reports(e)
  BY <1>2 DEF Claims
<1>9. \A d \in delayed' : Claims(d.event.after)' /\ Reports(d.event)
  BY <1>2, <1>7, <1>8 DEF OrderInv, Kept
<1>10. \A e \in ToSet(wire') : Claims(e.after) /\ Reports(e)
  BY <1>2, <1>4, <1>8 DEF OrderInv, Kept
<1>11. \A e \in ToSet(wire') : Claims(e.after)' /\ Reports(e)
  BY <1>7, <1>10
<1>12. OnWire' \subseteq OnWire \cup ids /\ OnWire \subseteq OnWire'
  BY <1>2, <1>4 DEF OnWire
<1>13. NotBehind'
  <2> SUFFICES ASSUME NEW i \in 1 .. Len(wire'), NEW j \in 1 .. Len(wire'), i < j, wire'[j].tracked
               PROVE  wire'[j].id \notin wire'[i].after
    BY DEF NotBehind
  <2>1. wire'[i] \in ToSet(wire')
    <3>1. wire' \in Seq(Events)
      BY <1>2, <1>3, ConcatIs
    <3>2. DOMAIN wire' = 1 .. Len(wire')
      BY <3>1
    <3> QED BY <3>2 DEF ToSet
  <2>2. wire'[i].after \subseteq ToSet(log)
    BY <1>10, <2>1 DEF Claims
  <2>3. CASE j \in 1 .. Len(wire) /\ wire'[j] = wire[j]
    <3>1. i \in 1 .. Len(wire) /\ wire'[i] = wire[i]
      BY <1>4, <2>3
    <3> QED BY <2>3, <3>1 DEF OrderInv, Kept, NotBehind
  <2>4. ASSUME NEW k \in 1 .. Len(more), wire'[j] = more[k] PROVE wire'[j].id \notin ToSet(log)
    <3>1. more[k] \in new
      BY <1>2 DEF ToSet
    <3> QED BY <1>2, <2>4, <3>1
  <2> QED BY <1>4, <2>2, <2>3, <2>4
<1>14. Claims(applied.after)' /\ applied'.after \cap OnWire' = {}
  <2>1. Claims(applied.after) /\ applied.after \cap OnWire = {}
    BY DEF OrderInv, Kept
  <2>2. applied.after \cap ids = {}
    BY <1>6, <2>1 DEF Claims
  <2> DEFINE after == applied.after
  <2>3. Claims(after) /\ after' = after
    BY <2>1
  <2>4. after \subseteq ToSet(log') /\ after \cap Pending' = {}
    BY <1>2, <1>5, <2>2, <2>3 DEF Claims
  <2>5. Claims(applied.after)'
    BY <2>4 DEF Claims
  <2> QED BY <1>12, <2>1, <2>2, <2>5
<1>15. Kept'
  <2>1. ~ isReady' => applied'.after = {}
    BY DEF OrderInv, Kept
  <2> QED BY <1>9, <1>11, <1>13, <1>14, <2>1 DEF Kept
<1>16. OnTheWay \subseteq OnTheWay'
  BY <1>2 DEF OnTheWay
<1>17. Near \subseteq Near'
  BY <1>12, <1>16 DEF Near
<1>18. ASSUME socket # 0, NEW n \in ids PROVE n \in Near'
  <2>1. PICK e \in new : e.tracked /\ e.id = n
    OBVIOUS
  <2>2. CASE e \in ToSet(more)
    BY <1>4, <2>1, <2>2 DEF Near, OnWire
  <2>3. ASSUME NEW d \in delayed', d.event = e, d.to = socket PROVE n \in Near'
    <3>1. n \in OnTheWay'
      BY <1>2, <1>18, <2>1, <2>3 DEF OnTheWay
    <3> QED BY <3>1 DEF Near
  <2> QED BY <1>2, <1>18, <2>2, <2>3
<1> QED BY <1>2, <1>15, <1>17, <1>18

\* A delivery that was delayed goes to the end of the wire: nothing there claims to come
\* after it.
LEMMA OrderResume ==
  ASSUME OrderInv, NEW d \in delayed, Resume(d), UNCHANGED <<cache, applied, isReady>>
  PROVE  /\ Kept' /\ Near \subseteq Near' /\ log' = log
<1> DEFINE e == d.event
<1>1. /\ delayed' = delayed \ {d} /\ log' = log /\ socket' = socket
      /\ wire' = IF d.to # 0 /\ d.to = socket THEN Append(wire, e) ELSE wire
  BY DEF Resume, conversation
<1>2. e \in Events /\ wire \in Seq(Events)
  BY DEF OrderInv, SyncInv, PageInv, TypeOK, ServiceTypeOK, Deliveries
<1>3. e.tracked => e.id \in Pending
  BY DEF Pending
<1>4. Claims(e.after) /\ Reports(e)
  BY DEF OrderInv, Kept
<1> HIDE DEF e
<1>5. Pending' \subseteq Pending
  BY <1>1 DEF Pending
<1>6. ASSUME NEW after, Claims(after) PROVE Claims(after)'
  BY <1>1, <1>5, <1>6 DEF Claims
<1>7. \A x \in delayed' : Claims(x.event.after)' /\ Reports(x.event)
  BY <1>1, <1>6 DEF OrderInv, Kept
<1>8. CASE ~(d.to # 0 /\ d.to = socket)
  <2>1. wire' = wire
    BY <1>1, <1>8
  <2>2. OnWire' = OnWire
    BY <2>1 DEF OnWire
  <2>3. OnTheWay \subseteq OnTheWay'
    BY <1>1, <1>8 DEF OnTheWay
  <2>4. Claims(applied.after)'
    <3> DEFINE after == applied.after
    <3>1. Claims(after) /\ after' = after
      BY DEF OrderInv, Kept
    <3>2. after \subseteq ToSet(log) /\ after \cap Pending = {}
      BY <3>1 DEF Claims
    <3> HIDE DEF after
    <3>3. after' \subseteq ToSet(log') /\ after' \cap Pending' = {}
      BY <1>1, <1>5, <3>1, <3>2
    <3> QED BY <3>3 DEF Claims, after
  <2>5. Kept'
    BY <1>6, <1>7, <2>1, <2>2, <2>4 DEF OrderInv, Kept, NotBehind
  <2>6. Near \subseteq Near'
    BY <2>2, <2>3 DEF Near
  <2> QED BY <1>1, <2>5, <2>6
<1>9. CASE d.to # 0 /\ d.to = socket
  <2> DEFINE n == Len(wire)
  <2>1. /\ wire' = Append(wire, e) /\ wire' \in Seq(Events) /\ Len(wire') = n + 1 /\ n \in Nat
        /\ DOMAIN wire = 1 .. n /\ DOMAIN wire' = 1 .. n + 1
        /\ \A i \in 1 .. n : wire'[i] = wire[i]
        /\ wire'[n + 1] = e
    BY <1>1, <1>2, <1>9
  <2> HIDE DEF n
  <2>2. ToSet(wire') = ToSet(wire) \cup {e}
    <3>1. \A i \in 1 .. n + 1 : i \in 1 .. n \/ i = n + 1
      BY <2>1
    <3>2. 1 .. n \subseteq 1 .. n + 1 /\ n + 1 \in 1 .. n + 1
      BY <2>1
    <3>3. ToSet(wire') \subseteq ToSet(wire) \cup {e}
      BY <2>1, <3>1 DEF ToSet
    <3>4. ToSet(wire) \cup {e} \subseteq ToSet(wire')
      BY <2>1, <3>2 DEF ToSet
    <3> QED BY <3>3, <3>4
  <2>3. OnWire' = OnWire \cup {x.id : x \in {y \in {e} : y.tracked}}
    BY <2>2 DEF OnWire
  <2>4. OnTheWay \subseteq OnTheWay' \cup OnWire'
    <3>1. ASSUME NEW x \in delayed, x.event.tracked, x.to = socket, socket # 0
          PROVE  x.event.id \in OnTheWay' \cup OnWire'
      <4>1. CASE x = d
        <5>1. x.event = e
          BY <4>1 DEF e
        <5> QED BY <2>3, <3>1, <5>1
      <4>2. CASE x # d
        BY <1>1, <3>1, <4>2 DEF OnTheWay
      <4> QED BY <4>1, <4>2
    <3> QED BY <3>1 DEF OnTheWay
  <2>5. \A x \in ToSet(wire') : Claims(x.after)' /\ Reports(x)
    BY <1>4, <1>6, <2>2 DEF OrderInv, Kept
  <2>6. NotBehind'
    <3> SUFFICES ASSUME NEW i \in 1 .. n + 1, NEW j \in 1 .. n + 1, i < j, wire'[j].tracked
                 PROVE  wire'[j].id \notin wire'[i].after
      BY <2>1 DEF NotBehind
    <3>1. i \in 1 .. n /\ wire'[i] = wire[i]
      BY <2>1
    <3>2. CASE j \in 1 .. n
      <4>1. wire'[j] = wire[j]
        BY <2>1, <3>2
      <4> QED BY <3>1, <3>2, <4>1 DEF OrderInv, Kept, NotBehind, n
    <3>3. CASE j = n + 1
      <4>1. wire[i] \in ToSet(wire)
        BY <2>1, <3>1 DEF ToSet
      <4>2. wire[i].after \cap Pending = {}
        BY <4>1 DEF OrderInv, Kept, Claims
      <4>3. wire'[j] = e
        BY <2>1, <3>3
      <4> QED BY <1>3, <3>1, <4>2, <4>3
    <3> QED BY <2>1, <3>2, <3>3
  <2>7. Claims(applied.after)' /\ applied'.after \cap OnWire' = {}
    <3> DEFINE after == applied.after
    <3>1. Claims(after) /\ after' = after /\ after \cap OnWire = {}
      BY DEF OrderInv, Kept
    <3>2. after \subseteq ToSet(log) /\ after \cap Pending = {}
      BY <3>1 DEF Claims
    <3> HIDE DEF after
    <3>3. after' \subseteq ToSet(log') /\ after' \cap Pending' = {}
      BY <1>1, <1>5, <3>1, <3>2
    <3>4. after' \cap OnWire' = {}
      BY <1>3, <2>3, <3>1, <3>2
    <3> QED BY <3>3, <3>4 DEF Claims, after
  <2>8. Kept'
    <3>1. ~ isReady' => applied'.after = {}
      BY DEF OrderInv, Kept
    <3> QED BY <1>7, <2>5, <2>6, <2>7, <3>1 DEF Kept
  <2>9. Near \subseteq Near'
    BY <2>3, <2>4 DEF Near
  <2> QED BY <1>1, <2>8, <2>9
<1> QED BY <1>8, <1>9

\* A step that leaves the client its place, and loses nothing on its way.
LEMMA OrderMoves ==
  ASSUME OrderInv, Near \subseteq Near', socket # 0 => ToSet(log') \subseteq ToSet(log) \cup Near',
         UNCHANGED <<page, fetched, link, isReady, partial, lossy>>,
         \/ phase' = phase
         \/ phase \in {"idle", "returned", "poll"} /\ phase' \in {"idle", "poll", "failed"}
  PROVE  Attached' /\ Arrives'
<1>1. ~ lossy /\ isReady => socket # 0
  BY DEF OrderInv, Attached, SyncInv, PageInv, TypeOK
<1>2. Attached'
  BY DEF OrderInv, Attached
<1>3. ASSUME ~ lossy, phase' \in {"reconcile", "final"}, NEW n \in ToSet(log'), n < page
      PROVE  n \in ToSet(fetched) \cup Near'
  <2>1. isReady /\ phase \in {"reconcile", "final"}
    BY <1>3 DEF OrderInv, Attached
  <2> QED BY <1>1, <1>3, <2>1 DEF OrderInv, Arrives
<1>4. ASSUME ~ lossy, phase' \in {"idle", "poll", "final", "returned", "failed"}, ~ partial, isReady
      PROVE  ToSet(log') \subseteq Near'
  <2>1. phase \in {"idle", "poll", "final", "returned", "failed"}
    BY <1>4
  <2>2. ToSet(log) \subseteq Near
    BY <1>4, <2>1 DEF OrderInv, Arrives
  <2> QED BY <1>1, <1>4, <2>2
<1> QED BY <1>2, <1>3, <1>4 DEF Arrives

\* The server and its users.
LEMMA OrderServer ==
  ASSUME OrderInv, ~ FlushTimesOut, ServerNext \/ SendMessage
  PROVE  Kept' /\ Attached' /\ Arrives'
<1>1. /\ UNCHANGED <<cache, applied, page, fetched, link, isReady, partial, lossy>>
      /\ \/ phase' = phase
         \/ phase \in {"idle", "returned"} /\ phase' = "idle"
  BY DEF ServerNext, SendMessage, client, history
<1>2. ServerInv
  BY DEF OrderInv, SyncInv, PageInv, TypeOK, ServerInv
<1>3. /\ Kept' /\ Near \subseteq Near'
      /\ socket # 0 => ToSet(log') \subseteq ToSet(log) \cup Near'
  <2>1. ASSUME NEW d \in delayed, Resume(d)
        PROVE  Kept' /\ Near \subseteq Near' /\ log' = log
    BY <1>1, <2>1, OrderResume
  <2>2. CASE \/ TaskPublishes \/ RunThread \/ TaskFlushes \/ CreateLate
             \/ \E n \in late : AppendLate(n)
             \/ PausePublishes \/ OthersStep \/ Sends
    <3>1. GoesOn
      BY <1>2, <2>2, ServerGoesOn, TaskPublishesStep
    <3> QED BY <1>1, <3>1, OrderGoesOn
  <2>3. \/ \E d \in delayed : Resume(d)
        \/ TaskPublishes \/ RunThread \/ TaskFlushes \/ CreateLate
        \/ \E n \in late : AppendLate(n)
        \/ PausePublishes \/ OthersStep \/ Sends
    BY DEF ServerNext, SendMessage, ServerStep, RunTask, Sends
  <2> QED BY <2>1, <2>2, <2>3
<1> QED BY <1>1, <1>3, OrderMoves

\* What is received was at the head of the wire: nothing it claims to come after is left there.
LEMMA OrderReceive ==
  ASSUME OrderInv, Receive
  PROVE  Kept' /\ Attached' /\ Arrives'
<1> DEFINE e == Head(wire)
           n == Len(wire)
<1>1. /\ link = "open" /\ wire # <<>> /\ wire' = Tail(wire)
      /\ isReady' = (isReady \/ e.status # NoStatus)
      /\ applied' = IF e.after = {} THEN applied ELSE e
      /\ UNCHANGED <<conversation, runVars, delayed, socket, phase, page, fetched, link, partial,
                     lossy>>
  BY DEF Receive
<1>2. ToSet(cache') = ToSet(cache) \cup {e.id} /\ e \in Events
  BY ReceiveStep DEF OrderInv
<1>3. wire \in Seq(Events)
  BY DEF OrderInv, SyncInv, PageInv, TypeOK, ServiceTypeOK
<1>4. /\ n \in Nat /\ n >= 1 /\ DOMAIN wire = 1 .. n /\ e = wire[1]
      /\ DOMAIN wire' = 1 .. n - 1 /\ Len(wire') = n - 1
      /\ \A i \in 1 .. n - 1 : wire'[i] = wire[i + 1]
  <2>1. n \in Nat /\ n >= 1 /\ DOMAIN wire = 1 .. n /\ e = wire[1]
    BY <1>1, <1>3
  <2>2. /\ wire' \in Seq(Events) /\ Len(wire') = n - 1
        /\ \A i \in 1 .. n - 1 : wire'[i] = wire[i + 1]
    <3>1. wire # <<>> /\ wire' = Tail(wire)
      BY <1>1
    <3> QED BY <1>3, <3>1, HeadTailProperties
  <2>3. DOMAIN wire' = 1 .. n - 1
    BY <2>2
  <2> QED BY <2>1, <2>2, <2>3
<1> HIDE DEF e, n
<1>5. ToSet(wire) = {e} \cup ToSet(wire')
  <2>1. \A i \in 1 .. n - 1 : i + 1 \in 1 .. n
    BY <1>4
  <2>2. ToSet(wire') \subseteq ToSet(wire) /\ e \in ToSet(wire)
    BY <1>4, <2>1 DEF ToSet
  <2>3. ASSUME NEW i \in 1 .. n, i # 1 PROVE wire[i] \in ToSet(wire')
    <3>1. i - 1 \in 1 .. n - 1 /\ (i - 1) + 1 = i
      BY <1>4, <2>3
    <3>2. wire'[i - 1] = wire[i]
      BY <1>4, <3>1
    <3> QED BY <1>4, <3>1, <3>2 DEF ToSet
  <2>4. ASSUME NEW x \in ToSet(wire) PROVE x \in {e} \cup ToSet(wire')
    <3>1. PICK i \in 1 .. n : x = wire[i]
      BY <1>4 DEF ToSet
    <3> QED BY <1>4, <2>3, <3>1
  <2> QED BY <2>2, <2>4
<1>6. Pending' = Pending /\ log' = log
  BY <1>1 DEF Pending, conversation
<1>7. Claims(e.after) /\ Reports(e)
  BY <1>5 DEF OrderInv, Kept
<1>8. e.after \cap OnWire' = {}
  <2> SUFFICES ASSUME NEW x \in ToSet(wire'), x.tracked PROVE x.id \notin e.after
    BY DEF OnWire
  <2>1. PICK i \in 1 .. n - 1 : x = wire'[i]
    BY <1>4 DEF ToSet
  <2>2. 1 \in 1 .. n /\ i + 1 \in 1 .. n /\ 1 < i + 1 /\ x = wire[i + 1]
    BY <1>4, <2>1
  <2> QED BY <1>4, <2>2 DEF OrderInv, Kept, NotBehind, n
<1>9. OnWire' \subseteq OnWire /\ OnWire \subseteq OnWire' \cup {e.id}
  BY <1>5 DEF OnWire
<1>10. NotBehind'
  <2> SUFFICES ASSUME NEW i \in 1 .. n - 1, NEW j \in 1 .. n - 1, i < j, wire'[j].tracked
               PROVE  wire'[j].id \notin wire'[i].after
    BY <1>4 DEF NotBehind
  <2>1. /\ i + 1 \in 1 .. n /\ j + 1 \in 1 .. n /\ i + 1 < j + 1
        /\ wire'[i] = wire[i + 1] /\ wire'[j] = wire[j + 1]
    BY <1>4
  <2> QED BY <2>1 DEF OrderInv, Kept, NotBehind, n
<1>11. /\ Claims(applied'.after) /\ applied'.after \cap OnWire' = {}
       /\ ~ isReady' => applied'.after = {}
  <2>1. CASE e.after = {}
    BY <1>1, <1>9, <2>1 DEF OrderInv, Kept
  <2>2. CASE e.after # {}
    BY <1>1, <1>7, <1>8, <2>2 DEF Reports
  <2> QED BY <2>1, <2>2
<1>12. ASSUME NEW after, Claims(after) PROVE Claims(after)'
  BY <1>6, <1>12 DEF Claims
<1>13. \A d \in delayed' : Claims(d.event.after)' /\ Reports(d.event)
  BY <1>1, <1>12 DEF OrderInv, Kept
<1>14. \A x \in ToSet(wire') : Claims(x.after)' /\ Reports(x)
  BY <1>5, <1>12 DEF OrderInv, Kept
<1>15. Claims(applied.after)'
  <2>1. applied'.after \subseteq ToSet(log') /\ applied'.after \cap Pending' = {}
    BY <1>6, <1>11 DEF Claims
  <2> QED BY <2>1 DEF Claims
<1>16. Kept'
  BY <1>10, <1>11, <1>13, <1>14, <1>15 DEF Kept
<1>17. Near \subseteq Near'
  <2>1. OnTheWay' = OnTheWay
    BY <1>1 DEF OnTheWay
  <2> QED BY <1>2, <1>9, <2>1 DEF Near
<1>18. phase # "sync" /\ (isReady => isReady') /\ (phase = "failed" => isReady)
  BY <1>1 DEF OrderInv, Attached, SyncInv, PageInv, Paged
<1>19. Attached'
  BY <1>1, <1>18 DEF OrderInv, Attached
<1>20. phase # "connect" => isReady
  BY <1>18 DEF OrderInv, Attached
<1>21. ToSet(fetched)' = ToSet(fetched) /\ ToSet(log)' = ToSet(log)
  BY <1>1, <1>6
<1>22. Arrives'
  BY <1>1, <1>17, <1>20, <1>21 DEF OrderInv, Arrives
<1> QED BY <1>16, <1>19, <1>22

\* The steps that do not touch what is on the way: the pages.
LEMMA OrderFetch ==
  ASSUME OrderInv, FetchPage \/ FetchFails
  PROVE  Kept' /\ Attached' /\ Arrives'
<1> DEFINE events == fetched \o Items
<1>1. /\ phase \in Fetching /\ log' = log /\ delayed' = delayed /\ wire' = wire /\ socket' = socket
      /\ UNCHANGED <<isReady, applied, lossy>>
  BY DEF FetchPage, FetchFails, serviceVars, conversation, network
<1>2. Kept'
  BY <1>1 DEF OrderInv, Kept, Claims, Pending, NotBehind, OnWire
<1>3. OnWire' = OnWire /\ OnTheWay' = OnTheWay
  BY <1>1 DEF OnWire, OnTheWay
<1>4. phase = "sync" => ~ isReady /\ link = "off"
  BY DEF OrderInv, Attached, SyncInv, PageInv, Paged
<1>5. /\ events \in Seq(Ids) /\ Strict(events)
      /\ ToSet(events) = ToSet(fetched) \cup ToSet(Items)
      /\ NextPage \in Nat
      /\ \A n \in ToSet(log) : page <= n /\ (NextPage # 0 => n < NextPage) => n \in ToSet(Items)
  BY <1>1, CollectedIs DEF OrderInv
<1>6. ToSet(log) \subseteq Nat /\ page \in Nat /\ ToSet(log') = ToSet(log)
  BY <1>1 DEF OrderInv, SyncInv, PageInv, TypeOK, ServiceTypeOK, ToSet, Ids
<1>7. ASSUME NEW some \in Seq(Ids), Strict(some), Finishes(some),
             UNCHANGED <<status, log, created, late, pausing, unseen, answered, runVars, delayed,
                         network, runs, messages, info, isReady, known, applied, lossy>>,
             extras' \in 0 .. MaxExtras, partial' \in BOOLEAN,
             phase = "final" /\ ~ partial' => known \subseteq ToSet(some),
             ~ lossy /\ ~ partial' /\ phase # "sync" => ToSet(log) \subseteq ToSet(some) \cup Near
      PROVE  Attached' /\ Arrives'
  <2>1. /\ phase = "sync" => phase' = "connect" /\ link' = "connecting"
        /\ phase # "sync" => phase' \in {"idle", "returned"} /\ link' = link
    BY <1>1, <1>7 DEF Finishes, Begins, After, Fetching
  <2>2. Attached'
    BY <1>1, <1>4, <2>1 DEF OrderInv, Attached, Fetching
  <2>3. phase # "sync" => ToSet(cache') = ToSet(cache) \cup ToSet(some)
    BY <1>1, <1>7, FinishesStep DEF OrderInv
  <2>4. ASSUME ~ lossy, ~ partial', phase # "sync" PROVE ToSet(log') \subseteq Near'
    BY <1>3, <1>6, <1>7, <2>3, <2>4 DEF Near
  <2>5. phase' \notin {"reconcile", "final"} /\ (phase' # "connect" => phase # "sync")
    BY <2>1
  <2>6. Arrives'
    BY <1>1, <2>1, <2>4, <2>5 DEF Arrives
  <2> QED BY <2>2, <2>6
<1>8. CASE FetchPage /\ NextPage # 0
  <2>1. page' = NextPage /\ fetched' = events /\ UNCHANGED <<phase, cache, link, partial>>
    BY <1>8 DEF FetchPage
  <2> HIDE DEF events
  <2>2. Attached' /\ Near' = Near
    BY <1>1, <1>3, <2>1 DEF OrderInv, Attached, Near
  <2>3. ASSUME ~ lossy, phase \in {"reconcile", "final"}, NEW n \in ToSet(log), n < NextPage
        PROVE  n \in ToSet(events) \cup Near
    <3>1. CASE n < page
      BY <1>5, <2>3, <3>1 DEF OrderInv, Arrives
    <3>2. CASE ~(n < page)
      BY <1>5, <1>6, <2>3, <3>2
    <3> QED BY <3>1, <3>2
  <2>4. ASSUME ~ lossy, phase = "final", ~ partial, isReady PROVE ToSet(log) \subseteq Near
    BY <2>4 DEF OrderInv, Arrives
  <2>5. Arrives'
    BY <1>1, <1>6, <2>1, <2>2, <2>3, <2>4 DEF Arrives, Fetching
  <2> QED BY <1>2, <2>2, <2>5
<1>9. CASE FetchPage /\ NextPage = 0
  <2>1. /\ Finishes(events) /\ partial' = FALSE
        /\ UNCHANGED <<status, log, created, late, pausing, unseen, answered, runVars, delayed,
                       network, runs, messages, info, isReady, known, applied, lossy>>
    BY <1>9 DEF FetchPage, serviceVars, conversation, bounds
  <2> HIDE DEF events
  <2>2. extras' \in 0 .. MaxExtras
    BY <1>9 DEF FetchPage, serviceVars, bounds, OrderInv, SyncInv, PageInv, TypeOK, ServiceTypeOK
  <2>3. phase = "final" => known \subseteq ToSet(events)
    <3> SUFFICES ASSUME phase = "final", NEW n \in known PROVE n \in ToSet(events)
      OBVIOUS
    <3>1. n \in ToSet(log) /\ (n < page => n \in ToSet(fetched))
      BY DEF OrderInv, SyncInv, PageInv, Covered
    <3> QED BY <1>5, <1>6, <1>9, <3>1
  <2>4. ~ lossy /\ phase # "sync" => ToSet(log) \subseteq ToSet(events) \cup Near
    <3> SUFFICES ASSUME ~ lossy, phase # "sync", NEW n \in ToSet(log)
                 PROVE  n \in ToSet(events) \cup Near
      OBVIOUS
    <3>1. phase \in {"reconcile", "final"}
      BY <1>1 DEF Fetching
    <3>2. n < page => n \in ToSet(fetched) \cup Near
      BY <3>1 DEF OrderInv, Arrives
    <3> QED BY <1>5, <1>6, <1>9, <3>2
  <2>5. Attached' /\ Arrives'
    BY <1>5, <1>7, <2>1, <2>2, <2>3, <2>4
  <2> QED BY <1>2, <2>5
<1>10. CASE FetchFails
  <2>1. /\ partial' = TRUE
        /\ UNCHANGED <<status, log, created, late, pausing, unseen, answered, runVars, delayed,
                       network, runs, messages, info, isReady, known, applied, lossy>>
    BY <1>10 DEF FetchFails, conversation
  <2>2. extras' \in 0 .. MaxExtras
    BY <1>10, ServiceAssumption
    DEF FetchFails, Extra, OrderInv, SyncInv, PageInv, TypeOK, ServiceTypeOK
  <2>3. fetched \in Seq(Ids) /\ Strict(fetched)
    BY DEF OrderInv, SyncInv, PageInv, TypeOK, Paged
  <2>4. CASE phase = "sync"
    <3>1. phase' = "failed" /\ link' = link
      BY <1>10, <2>4 DEF FetchFails
    <3> QED BY <1>1, <1>2, <1>4, <2>1, <2>4, <3>1 DEF Attached, Arrives
  <2>5. CASE phase # "sync"
    <3>1. Finishes(fetched)
      BY <1>10, <2>5 DEF FetchFails
    <3>2. Attached' /\ Arrives'
      BY <1>7, <2>1, <2>2, <2>3, <3>1
    <3> QED BY <1>2, <3>2
  <2> QED BY <2>4, <2>5
<1> QED BY <1>8, <1>9, <1>10

\* A connection that ends takes its wire with it; a new one begins with a snapshot that
\* claims nothing.
LEMMA OrderConnection ==
  ASSUME OrderInv, Connect \/ Drop \/ ReadyTimesOut
  PROVE  Kept' /\ Attached' /\ Arrives'
<1>1. /\ log' = log /\ delayed' = delayed /\ UNCHANGED <<isReady, applied, partial>>
      /\ lossy => lossy'
      /\ \A e \in ToSet(wire') : ~ e.tracked /\ e.after = {}
  <2>1. wire' = <<>> \/ wire' = <<Snapshot({})>>
    BY DEF Connect, Drop, ReadyTimesOut, Unsubscribe
  <2>2. \A e \in ToSet(wire') : e = Snapshot({})
    BY <2>1 DEF ToSet
  <2>3. log' = log /\ delayed' = delayed /\ UNCHANGED <<isReady, applied, partial>> /\ (lossy => lossy')
    BY DEF Connect, Drop, ReadyTimesOut, conversation, history
  <2> QED BY <2>2, <2>3 DEF Snapshot
<1>2. NotBehind'
  <2>1. wire' = <<>> \/ wire' = <<Snapshot({})>>
    BY DEF Connect, Drop, ReadyTimesOut, Unsubscribe
  <2>2. Len(wire') \in {0, 1}
    BY <2>1
  <2> QED BY <2>2 DEF NotBehind
<1>3. OnWire' = {}
  BY <1>1 DEF OnWire
<1>4. Kept'
  BY <1>1, <1>2, <1>3 DEF OrderInv, Kept, Claims, Pending, Reports
<1>5. CASE Connect
  <2>1. link = "connecting" /\ link' = "open" /\ phase' = phase /\ lossy' = lossy
    BY <1>5 DEF Connect, history
  <2>2. (lossy \/ ~ isReady) /\ phase # "sync" /\ (phase = "failed" => isReady)
    BY <2>1 DEF OrderInv, Attached, SyncInv, PageInv, Paged
  <2>3. Attached'
    BY <1>1, <2>1, <2>2 DEF OrderInv, Attached
  <2>4. ~ lossy => phase = "connect"
    BY <2>2 DEF OrderInv, Attached
  <2> QED BY <1>4, <2>1, <2>3, <2>4 DEF Arrives
<1>6. CASE Drop
  <2>1. link = "open" /\ lossy' /\ phase' = phase
    BY <1>6 DEF Drop
  <2>2. Attached'
    BY <1>1, <2>1 DEF OrderInv, Attached
  <2> QED BY <1>4, <2>1, <2>2 DEF Arrives
<1>7. CASE ReadyTimesOut
  <2>1. ~ isReady /\ phase' = "failed" /\ link' = "broken"
    BY <1>7 DEF ReadyTimesOut
  <2> QED BY <1>1, <1>4, <2>1 DEF Attached, Arrives
<1> QED BY <1>5, <1>6, <1>7

\* The calling thread's other steps.
LEMMA OrderCaller ==
  ASSUME OrderInv, Ready \/ Run \/ Poll \/ UNCHANGED vars
  PROVE  Kept' /\ Attached' /\ Arrives'
<1>1. /\ log' = log /\ delayed' = delayed /\ wire' = wire /\ socket' = socket
      /\ UNCHANGED <<cache, isReady, link, applied, partial, lossy>>
  BY DEF Ready, Run, Poll, vars, client, history, serviceVars, conversation, network
<1>2. Kept'
  BY <1>1 DEF OrderInv, Kept, Claims, Pending, NotBehind, OnWire
<1>3. Near' = Near
  BY <1>1 DEF Near, OnWire, OnTheWay
<1>4. ToSet(log) \subseteq Nat
  BY DEF OrderInv, SyncInv, PageInv, TypeOK, ServiceTypeOK, ToSet, Ids
<1>5. CASE Ready
  <2>1. isReady /\ phase' = "reconcile" /\ page' = 0
    BY <1>5 DEF Ready, Begins
  <2>2. Attached'
    BY <1>1, <2>1 DEF OrderInv, Attached
  <2>3. \A n \in ToSet(log') : ~(n < 0)
    BY <1>1, <1>4
  <2> QED BY <1>2, <2>1, <2>2, <2>3 DEF Arrives
<1>6. CASE Poll /\ phase' = "final"
  <2>1. phase = "poll" /\ page' = 0
    BY <1>6 DEF Poll, Begins
  <2>2. Attached'
    BY <1>1, <1>6, <2>1 DEF OrderInv, Attached
  <2>3. \A n \in ToSet(log') : ~(n < 0)
    BY <1>1, <1>4
  <2>4. ~ lossy /\ ~ partial /\ isReady => ToSet(log') \subseteq Near'
    BY <1>1, <1>3, <2>1 DEF OrderInv, Arrives
  <2> QED BY <1>1, <1>2, <1>6, <2>1, <2>2, <2>3, <2>4 DEF Arrives
<1>7. CASE Run \/ (Poll /\ phase' # "final") \/ UNCHANGED vars
  <2>1. /\ UNCHANGED <<page, fetched>>
        /\ \/ phase' = phase
           \/ phase \in {"idle", "poll"} /\ phase' \in {"poll", "failed"}
    BY <1>7 DEF Run, Poll, Begins, vars, client
  <2>2. Near \subseteq Near' /\ ToSet(log') \subseteq ToSet(log) \cup Near'
    BY <1>1, <1>3
  <2> QED BY <1>1, <1>2, <2>1, <2>2, OrderMoves
<1> QED BY <1>5, <1>6, <1>7

\* Every step keeps the second invariant, if wait_for_pending does not give up.
LEMMA OrderStep == ~ FlushTimesOut /\ OrderInv /\ [Next]_vars => OrderInv'
<1> SUFFICES ASSUME ~ FlushTimesOut, OrderInv, [Next]_vars PROVE OrderInv'
  OBVIOUS
<1>1. SyncInv'
  BY SyncStep DEF OrderInv
<1>2. Kept' /\ Attached' /\ Arrives'
  <2>1. \/ Receive \/ Connect \/ Drop \/ ReadyTimesOut \/ FetchPage \/ FetchFails
        \/ ServerNext \/ SendMessage \/ Ready \/ Run \/ Poll \/ UNCHANGED vars
    BY DEF Next, Caller
  <2> QED BY <2>1, OrderReceive, OrderConnection, OrderFetch, OrderServer, OrderCaller
<1> QED BY <1>1, <1>2 DEF OrderInv

\* On a connection that holds, a client that has the final state of a run has every event
\* of that run: wait_for_pending, when it does not give up, orders what the loop, slow
\* subscribers, pages and the socket may each have delayed.
THEOREM SnapshotComesLast == ~ FlushTimesOut => (Spec => []SnapshotAfterEvents)
<1> SUFFICES ASSUME ~ FlushTimesOut PROVE Spec => []SnapshotAfterEvents
  OBVIOUS
<1>1. Init => OrderInv
  <2> SUFFICES ASSUME Init PROVE OrderInv
    OBVIOUS
  <2>1. Numbered
    BY DEF Init, ServiceInit, Numbered, ToSet
  <2> QED BY <2>1, PageInit, OrderInit DEF OrderInv, SyncInv
<1>2. OrderInv /\ [Next]_vars => OrderInv'
  BY OrderStep
<1>3. OrderInv => SnapshotAfterEvents
  <2> SUFFICES ASSUME OrderInv, ~ lossy, ~ partial, phase \notin {"sync", "connect", "reconcile"},
                      NEW n \in applied.after
               PROVE  n \in ToSet(cache)
    BY DEF SnapshotAfterEvents
  <2>1. isReady
    BY DEF OrderInv, Kept
  <2>2. ToSet(log) \subseteq Near
    BY <2>1 DEF OrderInv, Arrives, SyncInv, PageInv, TypeOK, Phases
  <2>3. n \in ToSet(log) /\ n \notin Pending /\ n \notin OnWire
    BY DEF OrderInv, Kept, Claims
  <2>4. OnTheWay \subseteq Pending
    BY DEF OnTheWay, Pending
  <2> QED BY <2>2, <2>3, <2>4 DEF Near
<1> QED BY <1>1, <1>2, <1>3, PTL DEF Spec
=============================================================================
