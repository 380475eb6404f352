---------------------------- MODULE HistoryProofs ----------------------------
(***************************************************************************)
(* Theorems about View and History: what the LLM is shown, for any log and *)
(* in any run; about three tools: the undo history of FileEditor, the      *)
(* output of a command of BashService, the screen of TerminalSession; and  *)
(* about the stuck detector.                                               *)
(***************************************************************************)
EXTENDS History, FileEditor, SequencesExt, SequenceTheorems, FiniteSetTheorems,
        WellFoundedInduction, TLAPS

\* The filters only take events away, and the last one no call.
LEMMA FilterShrinks ==
  ASSUME NEW S, NEW all
  PROVE  /\ Whole(S, all) \subseteq S /\ Paired(S) \subseteq S
         /\ WithoutOrphans(S, all) \subseteq S
         /\ Actions(WithoutOrphans(S, all)) = Actions(S)
<1>1. \A e : IsAction(e) => ~ IsResult(e)
  BY DEF IsAction, IsResult, ResultKinds
<1> QED BY <1>1 DEF Whole, Paired, WithoutOrphans, Actions

\* What is left of a batch after the incomplete ones were removed is all of it.
LEMMA WholeIsWhole ==
  ASSUME NEW S, NEW all, NEW a \in Actions(Whole(S, all))
  PROVE  BatchOf(a, all) \subseteq Whole(S, all)
<1>1. IsAction(a) /\ BatchOf(a, all) \subseteq S
  BY DEF Actions, Whole
<1>2. SUFFICES ASSUME NEW b \in BatchOf(a, all) PROVE b \in Whole(S, all)
  OBVIOUS
<1>3. BatchOf(b, all) = BatchOf(a, all) /\ b \in S
  BY <1>1 DEF BatchOf
<1> QED BY <1>1, <1>3 DEF Whole

\* One pass of each filter is enough: to drop a batch for a call that has no result, and the
\* results of its other calls after it, leaves no call and no result alone.
LEMMA FilteredIsMatched ==
  ASSUME NEW out, NEW all,
         Actions(out) \subseteq all,
         \A a, b \in Actions(all) : a.call = b.call => a = b
  PROVE  LET shown == Filtered(out, all)
         IN  /\ \A a \in Actions(shown) : /\ ResultsOf(a, shown) # {}
                                          /\ BatchOf(a, all) \subseteq shown
             /\ \A e \in shown : IsResult(e) => \E a \in Actions(shown) : a.call = e.call
<1> DEFINE paired == Paired(out)
           whole == Whole(paired, all)
           shown == Filtered(out, all)
<1>1. shown = WithoutOrphans(whole, all)
  BY DEF Filtered
<1>2. /\ shown \subseteq whole /\ whole \subseteq paired /\ paired \subseteq out
      /\ Actions(shown) = Actions(whole)
  <2>1. paired \subseteq out
    BY FilterShrinks
  <2>2. whole \subseteq paired
    BY FilterShrinks
  <2>3. WithoutOrphans(whole, all) \subseteq whole
        /\ Actions(WithoutOrphans(whole, all)) = Actions(whole)
    BY FilterShrinks
  <2> QED BY <1>1, <2>1, <2>2, <2>3
<1>3. Actions(whole) \subseteq Actions(all) /\ Actions(whole) \subseteq Actions(out)
  BY <1>2 DEF Actions
<1>4. ASSUME NEW a \in Actions(shown) PROVE BatchOf(a, all) \subseteq shown
  <2>1. BatchOf(a, all) \subseteq whole /\ BatchOf(a, all) \subseteq Actions(all)
    BY <1>2, WholeIsWhole DEF BatchOf
  <2>2. BatchOf(a, all) \subseteq Actions(whole)
    BY <2>1 DEF Actions
  <2> QED BY <1>2, <2>2 DEF Actions
<1>5. ASSUME NEW a \in Actions(shown) PROVE ResultsOf(a, shown) # {}
  <2>1. a \in Actions(whole) /\ a \in paired /\ IsAction(a)
    BY <1>2 DEF Actions
  <2>2. PICK r \in out : IsResult(r) /\ r.call = a.call
    BY <2>1 DEF Paired, ResultsOf
  <2>3. ~ IsAction(r)
    BY <2>2 DEF IsAction, IsResult, ResultKinds
  <2>4. a \in Actions(out)
    BY <1>3, <2>1
  <2>5. r \in paired /\ r \in whole
    BY <2>2, <2>3, <2>4 DEF Paired, Whole
  <2>6. \A b \in Actions(all) : b.call = r.call => b = a
    BY <1>3, <2>1, <2>2
  <2>7. r \in shown
    BY <1>1, <2>1, <2>5, <2>6 DEF WithoutOrphans, Actions
  <2> QED BY <2>2, <2>7 DEF ResultsOf
<1>6. ASSUME NEW e \in shown, IsResult(e) PROVE \E a \in Actions(shown) : a.call = e.call
  <2>1. PICK a \in Actions(out) : a.call = e.call
    BY <1>2, <1>6 DEF Paired
  <2>2. a \in Actions(all) /\ IsAction(a)
    BY DEF Actions
  <2>3. a \in whole
    BY <1>1, <1>6, <2>1, <2>2 DEF WithoutOrphans
  <2>4. a \in Actions(shown)
    BY <1>2, <2>2, <2>3 DEF Actions
  <2> QED BY <2>1, <2>4
<1> HIDE DEF shown
<1> QED BY <1>4, <1>5, <1>6 DEF shown

\* The view of any log, however it came about: every call that is shown has its result, every
\* result its call, and batches are whole.
THEOREM ViewIsMatched == OutputIsLogged /\ CallsAreDistinct => Matched
<1> SUFFICES ASSUME OutputIsLogged, CallsAreDistinct PROVE Matched
  OBVIOUS
<1> DEFINE all == Elements(log)
           out == Whole(Elements(Output(log)), all)
<1>1. Actions(out) \subseteq all
  BY FilterShrinks DEF OutputIsLogged, Actions
<1>2. \A a, b \in Actions(all) : a.call = b.call => a = b
  BY DEF CallsAreDistinct
<1>3. Shown(log) = Filtered(out, all)
  BY DEF Shown
<1> HIDE DEF all, out
<1> QED BY <1>1, <1>2, <1>3, FilteredIsMatched DEF Matched, all

-----------------------------------------------------------------------------
(***************************************************************************)
(* Lists that are defined by recursion: what holds of the first and goes   *)
(* over from each to the next holds of the last.                           *)
(***************************************************************************)

\* A set of numbers that is not empty has a smallest member.
LEMMA Smallest ==
  ASSUME NEW S, S \subseteq Nat, S # {}
  PROVE  \E a \in S : \A b \in S : a <= b
<1> DEFINE R == {ss \in Nat \X Nat : ss[1] < ss[2]}
<1>1. IsWellFoundedOn(R, Nat)
  BY NatLessThanWellFounded DEF OpToRel
<1> HIDE DEF R
<1>2. PICK a \in S : \A b \in S : ~ (<<b, a>> \in R)
  BY <1>1, WFMin
<1>3. ASSUME NEW b \in S PROVE a <= b
  <2>1. a \in Nat /\ b \in Nat /\ <<b, a>> \notin R
    BY <1>2
  <2> QED BY <2>1 DEF R
<1> QED BY <1>3

\* What holds first and goes over from one place to the next holds to the end.
LEMMA Reached ==
  ASSUME NEW n \in Nat, NEW f, NEW G, f[0] \in G[0],
         \A i \in 1 .. n : f[i - 1] \in G[i - 1] => f[i] \in G[i]
  PROVE  \A i \in 0 .. n : f[i] \in G[i]
<1> DEFINE Bad == {i \in 0 .. n : f[i] \notin G[i]}
<1>1. SUFFICES ASSUME Bad # {} PROVE FALSE
  OBVIOUS
<1>2. PICK a \in Bad : \A b \in Bad : a <= b
  <2>1. Bad \subseteq Nat
    OBVIOUS
  <2> HIDE DEF Bad
  <2> QED BY <1>1, <2>1, Smallest
<1>3. a \in 1 .. n /\ a - 1 \in 0 .. n /\ ~ (a <= a - 1) /\ f[a] \notin G[a]
  BY <1>2
<1>4. a - 1 \notin Bad
  BY <1>2, <1>3
<1>5. f[a - 1] \in G[a - 1]
  BY <1>3, <1>4
<1> QED BY <1>3, <1>5

\* A function that is defined by its value at the place before exists, with whatever goes
\* over from one place to the next.
GoesOver(n, G, step) == \A i \in 1 .. n : \A s \in G[i - 1] : step[i][s] \in G[i]
Computes(f, n, G, step, first) == /\ f = [i \in 0 .. n |-> f[i]]
                                  /\ f[0] = first
                                  /\ \A i \in 1 .. n : f[i] = step[i][f[i - 1]]
                                  /\ \A i \in 0 .. n : f[i] \in G[i]
LEMMA Recursion ==
  ASSUME NEW n \in Nat, NEW G, NEW step, NEW first, first \in G[0], GoesOver(n, G, step)
  PROVE  \E f : Computes(f, n, G, step, first)
<1> DEFINE All == UNION {G[i] : i \in 0 .. n}
           Good(k, f) == /\ f[0] = first
                         /\ \A i \in 1 .. k : f[i] = step[i][f[i - 1]]
                         /\ \A i \in 0 .. k : f[i] \in G[i]
           Bad == {k \in 0 .. n : ~ \E f \in [0 .. k -> All] : Good(k, f)}
<1>1. 0 \notin Bad
  <2> DEFINE f == [i \in 0 .. 0 |-> first]
  <2>1. 0 .. 0 = {0} /\ 1 .. 0 = {} /\ 0 \in 0 .. n
    OBVIOUS
  <2>2. f \in [0 .. 0 -> All] /\ f[0] = first
    BY <2>1
  <2>3. Good(0, f)
    <3> HIDE DEF f
    <3> QED BY <2>1, <2>2
  <2> HIDE DEF f, Good, All
  <2> QED BY <2>2, <2>3
<1>2. ASSUME NEW k \in 1 .. n, k - 1 \notin Bad PROVE k \notin Bad
  <2>0. k - 1 \in 0 .. n /\ k \in 0 .. n /\ 0 \in 0 .. k - 1 /\ k - 1 \in 0 .. k - 1
    OBVIOUS
  <2>1. PICK f \in [0 .. k - 1 -> All] : Good(k - 1, f)
    <3> HIDE DEF Good, All
    <3> QED BY <1>2, <2>0
  <2> DEFINE latest == step[k][f[k - 1]]
             g == [i \in 0 .. k |-> IF i = k THEN latest ELSE f[i]]
  <2>2. f[k - 1] \in G[k - 1]
    BY <2>0, <2>1
  <2>3. latest \in G[k]
    BY <2>2 DEF GoesOver
  <2> HIDE DEF latest
  <2>a. latest \in All
    BY <2>0, <2>3
  <2>4. \A i \in 0 .. k : i # k => i \in 0 .. k - 1
    BY <2>0
  <2>5. g \in [0 .. k -> All]
    <3> HIDE DEF All
    <3> QED BY <2>1, <2>a, <2>4
  <2>b. \A i \in 0 .. k - 1 : i \in 0 .. k /\ i # k
    BY <2>0
  <2>6. g[k] = latest /\ \A i \in 0 .. k - 1 : g[i] = f[i]
    BY <2>0, <2>b
  <2> HIDE DEF g
  <2>7. Good(k, g)
    <3>1. g[0] = first
      BY <2>0, <2>1, <2>6
    <3>2. ASSUME NEW i \in 1 .. k PROVE g[i] = step[i][g[i - 1]]
      <4>1. CASE i = k
        BY <2>0, <2>6, <4>1 DEF latest
      <4>2. CASE i # k
        <5>1. i \in 1 .. k - 1 /\ i \in 0 .. k - 1 /\ i - 1 \in 0 .. k - 1
          BY <4>2
        <5>2. f[i] = step[i][f[i - 1]]
          BY <2>1, <5>1
        <5> QED BY <2>6, <5>1, <5>2
      <4> QED BY <4>1, <4>2
    <3>3. ASSUME NEW i \in 0 .. k PROVE g[i] \in G[i]
      <4>1. \A j \in 0 .. k - 1 : f[j] \in G[j]
        BY <2>1
      <4> QED BY <2>3, <2>4, <2>6, <4>1
    <3> QED BY <3>1, <3>2, <3>3
  <2> HIDE DEF Good, All
  <2> QED BY <2>5, <2>7
<1>3. n \notin Bad
  <2>1. Bad \subseteq 0 .. n
    OBVIOUS
  <2> HIDE DEF Bad
  <2>2. SUFFICES ASSUME Bad # {} PROVE FALSE
    OBVIOUS
  <2>3. Bad \subseteq Nat
    BY <2>1
  <2>4. PICK a \in Bad : \A b \in Bad : a <= b
    BY <2>2, <2>3, Smallest
  <2>5. a \in 1 .. n /\ ~ (a <= a - 1)
    <3>1. a \in 0 .. n /\ a # 0
      BY <1>1, <2>1
    <3> QED BY <3>1
  <2>6. a - 1 \notin Bad
    BY <2>4, <2>5
  <2> QED BY <1>2, <2>4, <2>5, <2>6
<1>4. PICK f \in [0 .. n -> All] : Good(n, f)
  <2>1. n \in 0 .. n
    OBVIOUS
  <2> HIDE DEF Good, All
  <2> QED BY <1>3, <2>1
<1>5. f = [i \in 0 .. n |-> f[i]]
  <2> HIDE DEF All
  <2> QED BY <1>4
<1> QED BY <1>4, <1>5 DEF Computes

\* The elements of a list, and of one with another at its end.
LEMMA AppendElements ==
  ASSUME NEW R, NEW s \in Seq(R), NEW x \in R
  PROVE  /\ Append(s, x) \in Seq(R)
         /\ Elements(Append(s, x)) = Elements(s) \cup {x}
<1>1. /\ Append(s, x) \in Seq(R) /\ Len(Append(s, x)) = Len(s) + 1 /\ Len(s) \in Nat
      /\ \A i \in 1 .. Len(s) : Append(s, x)[i] = s[i]
      /\ Append(s, x)[Len(s) + 1] = x
      /\ DOMAIN s = 1 .. Len(s) /\ DOMAIN Append(s, x) = 1 .. Len(s) + 1
  BY AppendProperties, LenProperties
<1>2. 1 .. Len(s) + 1 = 1 .. Len(s) \cup {Len(s) + 1}
  BY <1>1
<1> QED BY <1>1, <1>2 DEF Elements

\* The events of a list that are in S, taken one after the other.
Takes(f, seq, S) ==
  /\ f[0] = <<>>
  /\ \A i \in 1 .. Len(seq) : f[i] = IF seq[i] \in S THEN Append(f[i - 1], seq[i]) ELSE f[i - 1]

\* What Only leaves of a list are its elements in S.
LEMMA OnlyRuns ==
  ASSUME NEW R, NEW seq \in Seq(R), NEW S
  PROVE  /\ \E f : Takes(f, seq, S) /\ Only(seq, S) = f[Len(seq)]
         /\ Only(seq, S) \in Seq(R)
         /\ Elements(Only(seq, S)) = Elements(seq) \cap S
<1> DEFINE n == Len(seq)
           Next1(i, s) == IF seq[i] \in S THEN Append(s, seq[i]) ELSE s
           Upto(i) == {seq[j] : j \in 1 .. i} \cap S
           G == [i \in 0 .. n |-> {s \in Seq(R) : Elements(s) = Upto(i)}]
           step == [i \in 1 .. n |-> [s \in G[i - 1] |-> Next1(i, s)]]
           only[i \in 0 .. n] ==
             IF i = 0 THEN <<>>
             ELSE IF seq[i] \in S THEN Append(only[i - 1], seq[i]) ELSE only[i - 1]
           Is(f) == f = [i \in 0 .. n |-> IF i = 0 THEN <<>>
                           ELSE IF seq[i] \in S THEN Append(f[i - 1], seq[i]) ELSE f[i - 1]]
<1>1. n \in Nat /\ DOMAIN seq = 1 .. n /\ \A i \in 1 .. n : seq[i] \in R
  OBVIOUS
<1>2. Only(seq, S) = only[n]
  BY DEF Only
<1> HIDE DEF n
<1>3. <<>> \in G[0]
  BY <1>1 DEF Elements
<1>4. ASSUME NEW i \in 1 .. n, NEW s \in G[i - 1] PROVE Next1(i, s) \in G[i]
  <2>1. i - 1 \in 0 .. n /\ i \in 0 .. n /\ 1 .. i = 1 .. (i - 1) \cup {i}
    BY <1>1
  <2>2. s \in Seq(R) /\ Elements(s) = Upto(i - 1)
    BY <1>4, <2>1
  <2>3. Upto(i) = Upto(i - 1) \cup ({seq[i]} \cap S)
    BY <2>1
  <2>4. /\ Append(s, seq[i]) \in Seq(R)
        /\ Elements(Append(s, seq[i])) = Elements(s) \cup {seq[i]}
    BY <1>1, <2>2, AppendElements
  <2> HIDE DEF Upto
  <2>5. CASE seq[i] \in S
    BY <2>1, <2>2, <2>3, <2>4, <2>5
  <2>6. CASE seq[i] \notin S
    BY <2>1, <2>2, <2>3, <2>6
  <2> QED BY <2>5, <2>6
<1>5. \A i \in 1 .. n : \A s \in G[i - 1] : step[i][s] = Next1(i, s)
  <2> HIDE DEF G, Next1
  <2> QED OBVIOUS
<1>6. \E f : Is(f)
  <2>1. PICK f : Computes(f, n, G, step, <<>>)
    <3> HIDE DEF G, step, Next1
    <3>1. GoesOver(n, G, step)
      BY <1>4, <1>5 DEF GoesOver
    <3> QED BY <1>1, <1>3, <3>1, Recursion
  <2>2. \A i \in 1 .. n : f[i] = Next1(i, f[i - 1])
    <3>1. \A i \in 1 .. n : i - 1 \in 0 .. n
      BY <1>1
    <3> HIDE DEF G, step, Next1
    <3> QED BY <1>5, <2>1, <3>1 DEF Computes
  <2>3. \A i \in 0 .. n : i # 0 => i \in 1 .. n
    BY <1>1
  <2>4. Is(f)
    BY <2>1, <2>2, <2>3 DEF Computes
  <2> QED BY <2>4
<1>7. Is(only)
  <2> HIDE DEF Is
  <2>1. only = CHOOSE f : Is(f)
    BY DEF Is
  <2> QED BY <1>6, <2>1
<1> HIDE DEF only
<1>8. only[0] = <<>> /\ \A i \in 1 .. n : only[i] = Next1(i, only[i - 1])
  <2>1. 0 \in 0 .. n /\ \A i \in 1 .. n : i \in 0 .. n /\ i # 0
    BY <1>1
  <2> QED BY <1>7, <2>1
<1>9. \A i \in 0 .. n : only[i] \in G[i]
  <2> HIDE DEF G, Next1
  <2> QED BY <1>1, <1>3, <1>4, <1>8, Reached
<1>10. only[n] \in G[n] /\ G[n] = {s \in Seq(R) : Elements(s) = Upto(n)}
  <2>1. n \in 0 .. n
    BY <1>1
  <2>2. G[n] = {s \in Seq(R) : Elements(s) = Upto(n)}
    BY <2>1
  <2> HIDE DEF G
  <2> QED BY <1>9, <2>1, <2>2
<1>11. Upto(n) = Elements(seq) \cap S
  BY <1>1 DEF Elements
<1>12. Takes(only, seq, S)
  BY <1>8 DEF Takes, n
<1> HIDE DEF G, Upto
<1> QED BY <1>2, <1>10, <1>11, <1>12 DEF n

LEMMA OnlyIs ==
  ASSUME NEW R, NEW seq \in Seq(R), NEW S
  PROVE  /\ Only(seq, S) \in Seq(R)
         /\ Elements(Only(seq, S)) = Elements(seq) \cap S
  BY OnlyRuns

-----------------------------------------------------------------------------
(***************************************************************************)
(* The log (History): the inductive invariant, for any number of events    *)
(* and calls and any sizes.                                                *)
(***************************************************************************)

Kinds == {"other", "system", "user", "agent", "action", "observation", "error", "rejection",
          "summary", "condensation", "condensation_request"}
Records == [id : Int, kind : Kinds, call : Nat, batch : Nat, thinking : BOOLEAN, content : Nat,
            forgets : SUBSET Int, offset : Nat \cup {-1}]

\* The log alone: ids are places, calls get numbers no action of the log has, a
\* result answers an action before it, a condensation forgets what is before it.
Placed(l) == \A i \in 1 .. Len(l) : l[i].id = i
CallsOnce(l) ==
  /\ \A i \in 1 .. Len(l) : IsAction(l[i]) => l[i].call <= Len(l)
  /\ \A i, j \in 1 .. Len(l) : IsAction(l[i]) /\ IsAction(l[j]) /\ l[i].call = l[j].call => i = j
Answers(l) == \A i \in 1 .. Len(l) : IsResult(l[i]) =>
                \E j \in 1 .. i - 1 : IsAction(l[j]) /\ l[j].call = l[i].call
LooksBack(l) == \A i \in 1 .. Len(l) : l[i].kind = "condensation" =>
                  l[i].forgets \subseteq -(i - 1) .. i - 1
Logged(l) == l \in Seq(Records) /\ Placed(l) /\ CallsOnce(l) /\ Answers(l) /\ LooksBack(l)

\* What a step may append: new calls, results of actions of the log or before them, a
\* condensation of what there is.
Fits(l, s) ==
  /\ s \in Seq(Records)
  /\ \A i \in 1 .. Len(s) : IsAction(s[i]) => s[i].call \in Len(l) + 1 .. Len(l) + Len(s)
  /\ \A i, j \in 1 .. Len(s) : IsAction(s[i]) /\ IsAction(s[j]) /\ s[i].call = s[j].call => i = j
  /\ \A i \in 1 .. Len(s) : IsResult(s[i]) =>
       \/ \E j \in 1 .. Len(l) : IsAction(l[j]) /\ l[j].call = s[i].call
       \/ \E j \in 1 .. i - 1 : IsAction(s[j]) /\ s[j].call = s[i].call
  /\ \A i \in 1 .. Len(s) : s[i].kind = "condensation" => s[i].forgets \subseteq -Len(l) .. Len(l)

\* The fields of an event made from Blank.
LEMMA Made ==
  ASSUME NEW k \in Kinds
  PROVE  /\ Event(k) \in Records /\ Event(k).kind = k
         /\ \A c \in Nat, s \in Nat :
              LET e == [Event(k) EXCEPT !.call = c, !.content = s]
              IN  e \in Records /\ e.kind = k /\ e.call = c
<1> DEFINE e == Event(k)
<1>1. Blank \in Records
  BY DEF Records, Kinds, Blank
<1>2. e \in Records /\ e.kind = k
  BY <1>1 DEF Records, Event
<1> HIDE DEF e
<1>3. ASSUME NEW c \in Nat, NEW s \in Nat
      PROVE  LET d == [e EXCEPT !.call = c, !.content = s]
             IN  d \in Records /\ d.kind = k /\ d.call = c
  BY <1>2, <1>3 DEF Records
<1> QED BY <1>2, <1>3 DEF e

\* An event gets its place as its id, and nothing else of it changes.
LEMMA Renumbered ==
  ASSUME NEW e \in Records, NEW n \in Int
  PROVE  LET d == [e EXCEPT !.id = n]
         IN  /\ d \in Records /\ d.id = n /\ d.kind = e.kind /\ d.call = e.call
             /\ d.forgets = e.forgets /\ d.batch = e.batch /\ d.thinking = e.thinking
             /\ (IsAction(d) <=> IsAction(e)) /\ (IsResult(d) <=> IsResult(e))
  BY DEF Records, IsAction, IsResult

\* To append what fits keeps the invariant.
LEMMA ExtendKeeps ==
  ASSUME NEW l, Logged(l), NEW s, Fits(l, s)
  PROVE  Logged(Extend(l, s)) /\ Len(Extend(l, s)) = Len(l) + Len(s)
<1> DEFINE n == Len(l)
           m == Len(s)
           e == Numbered(l, s)
           x == Extend(l, s)
<1>1. /\ l \in Seq(Records) /\ s \in Seq(Records) /\ n \in Nat /\ m \in Nat
      /\ \A i \in 1 .. n : l[i] \in Records
      /\ \A i \in 1 .. m : s[i] \in Records
      /\ DOMAIN s = 1 .. m
  BY DEF Logged, Fits
<1>2. /\ e \in Seq(Records) /\ Len(e) = m
      /\ \A i \in 1 .. m : e[i] = [s[i] EXCEPT !.id = n + i]
  <2>1. e = [i \in 1 .. m |-> [s[i] EXCEPT !.id = n + i]]
    BY <1>1 DEF Numbered
  <2>2. \A i \in 1 .. m : [s[i] EXCEPT !.id = n + i] \in Records
    <3>1. \A i \in 1 .. m : n + i \in Int
      BY <1>1
    <3> QED BY <1>1, <3>1, Renumbered
  <2>3. [i \in 1 .. m |-> [s[i] EXCEPT !.id = n + i]] \in [1 .. m -> Records]
    BY <2>2
  <2> HIDE DEF n, m, e
  <2>4. e \in [1 .. m -> Records] /\ \A i \in 1 .. m : e[i] = [s[i] EXCEPT !.id = n + i]
    BY <2>1, <2>3
  <2>5. e \in Seq(Records) /\ Len(e) = m
    BY <1>1, <2>4
  <2> QED BY <2>4, <2>5
<1> HIDE DEF n, m, e
<1>3. /\ x \in Seq(Records) /\ Len(x) = n + m
      /\ \A i \in 1 .. n : x[i] = l[i]
      /\ \A i \in 1 .. m : x[n + i] = e[i]
  <2>1. x = l \o e
    BY DEF Extend, e
  <2> HIDE DEF x
  <2>0. l \in Seq(Records) /\ e \in Seq(Records)
    BY <1>1, <1>2
  <2>2. /\ l \o e \in Seq(Records) /\ Len(l \o e) = Len(l) + Len(e)
        /\ \A i \in 1 .. Len(l) + Len(e) : (l \o e)[i] = IF i <= Len(l) THEN l[i] ELSE e[i - Len(l)]
    BY <2>0, ConcatProperties
  <2>3. \A i \in 1 .. n + m : x[i] = IF i <= n THEN l[i] ELSE e[i - n]
    BY <1>2, <2>1, <2>2 DEF n
  <2>5. \A i \in 1 .. m : x[n + i] = e[i]
    <3> TAKE i \in 1 .. m
    <3> DEFINE k == n + i
    <3>1. k \in 1 .. n + m /\ ~ (k <= n) /\ k - n = i
      BY <1>1
    <3> HIDE DEF k
    <3>2. x[k] = e[k - n]
      BY <2>3, <3>1
    <3>3. x[k] = e[i]
      BY <3>1, <3>2
    <3> QED BY <3>3 DEF k
  <2>6. \A i \in 1 .. n : i \in 1 .. n + m /\ i <= n
    BY <1>1
  <2>7. x \in Seq(Records) /\ Len(x) = n + m
    BY <1>2, <2>1, <2>2 DEF n
  <2> QED BY <2>3, <2>5, <2>6, <2>7
<1>4. \A i \in 1 .. m : /\ e[i].id = n + i /\ e[i].kind = s[i].kind /\ e[i].call = s[i].call
                        /\ e[i].forgets = s[i].forgets
                        /\ (IsAction(e[i]) <=> IsAction(s[i]))
                        /\ (IsResult(e[i]) <=> IsResult(s[i]))
  <2> TAKE i \in 1 .. m
  <2>1. s[i] \in Records /\ n + i \in Int /\ e[i] = [s[i] EXCEPT !.id = n + i]
    BY <1>1, <1>2
  <2> QED BY <2>1, Renumbered
<1> HIDE DEF x
<1>5. ASSUME NEW i \in 1 .. n + m
      PROVE  \/ i \in 1 .. n /\ x[i] = l[i]
             \/ \E k \in 1 .. m : i = n + k /\ x[i] = e[k]
  <2>1. CASE i <= n
    BY <1>1, <1>3, <2>1
  <2>2. CASE i > n
    <3>1. i - n \in 1 .. m /\ i = n + (i - n)
      BY <1>1, <2>2
    <3> QED BY <1>3, <3>1
  <2> QED BY <1>1, <2>1, <2>2
<1>6. Placed(x)
  <2>1. \A i \in 1 .. n : l[i].id = i
    BY DEF Logged, Placed, n
  <2> QED BY <1>3, <1>4, <1>5, <2>1 DEF Placed
<1>a. /\ \A i \in 1 .. n : IsAction(l[i]) => l[i].call <= n /\ l[i].call \in Nat
      /\ \A i, j \in 1 .. n : IsAction(l[i]) /\ IsAction(l[j]) /\ l[i].call = l[j].call => i = j
  BY <1>1 DEF Logged, CallsOnce, Records, n
<1>b. /\ \A i \in 1 .. m : IsAction(s[i]) => s[i].call \in n + 1 .. n + m
      /\ \A i, j \in 1 .. m : IsAction(s[i]) /\ IsAction(s[j]) /\ s[i].call = s[j].call => i = j
  BY DEF Fits, n, m
<1>7. CallsOnce(x)
  <2>1. ASSUME NEW i \in 1 .. n + m, IsAction(x[i]) PROVE x[i].call <= n + m
    <3>1. CASE i \in 1 .. n /\ x[i] = l[i]
      BY <1>1, <1>a, <2>1, <3>1
    <3>2. ASSUME NEW k \in 1 .. m, i = n + k, x[i] = e[k] PROVE x[i].call <= n + m
      <4>1. x[i].call \in n + 1 .. n + m
        BY <1>4, <1>b, <2>1, <3>2
      <4> QED BY <1>1, <4>1
    <3> QED BY <1>5, <3>1, <3>2
  <2>2. ASSUME NEW i \in 1 .. n + m, NEW j \in 1 .. n + m,
               IsAction(x[i]), IsAction(x[j]), x[i].call = x[j].call
        PROVE  i = j
    <3>1. CASE i \in 1 .. n /\ x[i] = l[i] /\ j \in 1 .. n /\ x[j] = l[j]
      BY <1>a, <2>2, <3>1
    <3>2. ASSUME NEW k \in 1 .. m, i = n + k, x[i] = e[k], NEW h \in 1 .. m, j = n + h, x[j] = e[h]
          PROVE i = j
      <4>1. k = h
        BY <1>4, <1>b, <2>2, <3>2
      <4> QED BY <3>2, <4>1
    <3>3. ASSUME NEW a \in 1 .. n, IsAction(l[a]), NEW k \in 1 .. m, IsAction(e[k]) PROVE l[a].call # e[k].call
      <4>1. l[a].call <= n /\ l[a].call \in Nat
        BY <1>a, <3>3
      <4>2. e[k].call \in n + 1 .. n + m
        BY <1>4, <1>b, <3>3
      <4> QED BY <1>1, <4>1, <4>2
    <3> QED BY <1>5, <2>2, <3>1, <3>2, <3>3
  <2> QED BY <1>3, <2>1, <2>2 DEF CallsOnce
<1>8. Answers(x)
  <2> SUFFICES ASSUME NEW i \in 1 .. n + m, IsResult(x[i])
               PROVE  \E j \in 1 .. i - 1 : IsAction(x[j]) /\ x[j].call = x[i].call
    BY <1>3 DEF Answers
  <2>1. CASE i \in 1 .. n /\ x[i] = l[i]
    <3>1. PICK j \in 1 .. i - 1 : IsAction(l[j]) /\ l[j].call = l[i].call
      BY <2>1 DEF Logged, Answers, n
    <3>2. j \in 1 .. n /\ x[j] = l[j]
      BY <1>1, <1>3, <2>1, <3>1
    <3> QED BY <2>1, <3>1, <3>2
  <2>2. ASSUME NEW k \in 1 .. m, i = n + k, x[i] = e[k]
        PROVE  \E j \in 1 .. i - 1 : IsAction(x[j]) /\ x[j].call = x[i].call
    <3>0. IsResult(s[k]) /\ x[i].call = s[k].call
      BY <1>4, <2>2
    <3>1. \/ \E j \in 1 .. n : IsAction(l[j]) /\ l[j].call = s[k].call
          \/ \E j \in 1 .. k - 1 : IsAction(s[j]) /\ s[j].call = s[k].call
      BY <3>0 DEF Fits, n, m
    <3>2. ASSUME NEW j \in 1 .. n, IsAction(l[j]), l[j].call = s[k].call
          PROVE  \E h \in 1 .. i - 1 : IsAction(x[h]) /\ x[h].call = x[i].call
      <4>1. j \in 1 .. i - 1 /\ x[j] = l[j]
        BY <1>1, <1>3, <2>2
      <4> QED BY <3>0, <3>2, <4>1
    <3>3. ASSUME NEW j \in 1 .. k - 1, IsAction(s[j]), s[j].call = s[k].call
          PROVE  \E h \in 1 .. i - 1 : IsAction(x[h]) /\ x[h].call = x[i].call
      <4>1. n + j \in 1 .. i - 1 /\ j \in 1 .. m
        BY <1>1, <2>2
      <4>2. IsAction(x[n + j]) /\ x[n + j].call = s[j].call
        BY <1>3, <1>4, <3>3, <4>1
      <4> QED BY <3>0, <3>3, <4>1, <4>2
    <3> QED BY <3>1, <3>2, <3>3
  <2> QED BY <1>5, <2>1, <2>2
<1>9. LooksBack(x)
  <2> SUFFICES ASSUME NEW i \in 1 .. n + m, x[i].kind = "condensation"
               PROVE  x[i].forgets \subseteq -(i - 1) .. i - 1
    BY <1>3 DEF LooksBack
  <2>1. CASE i \in 1 .. n /\ x[i] = l[i]
    BY <2>1 DEF Logged, LooksBack, n
  <2>2. ASSUME NEW k \in 1 .. m, i = n + k, x[i] = e[k]
        PROVE  x[i].forgets \subseteq -(i - 1) .. i - 1
    <3>1. x[i].forgets \subseteq -n .. n
      BY <1>4, <2>2 DEF Fits, n, m
    <3>2. -n .. n \subseteq -(i - 1) .. i - 1
      BY <1>1, <2>2
    <3> QED BY <3>1, <3>2
  <2> QED BY <1>5, <2>1, <2>2
<1>10. Logged(x)
  BY <1>3, <1>6, <1>7, <1>8, <1>9 DEF Logged
<1> QED BY <1>3, <1>10 DEF x, n, m

-----------------------------------------------------------------------------
\* What a view consists of.

\* What a log is shown as: events of it, and summaries of condensations in it.
Shows(l) == {r \in Records : r \in Elements(l) \/ (r.kind = "summary" /\ -r.id \in 1 .. Len(l))}

\* A summary is put into a list of events.
LEMMA InsertIs ==
  ASSUME NEW R, NEW s \in Seq(R), NEW k \in Nat, NEW e \in R
  PROVE  InsertAfter(s, k, e) \in Seq(R)
<1>1. CASE k >= Len(s)
  BY <1>1, AppendProperties DEF InsertAfter
<1>2. CASE ~ (k >= Len(s))
  <2>1. Len(s) \in Nat /\ \A i \in 1 .. Len(s) : s[i] \in R
    BY LenProperties
  <2>2. \A i \in 1 .. k : s[i] \in R
    BY <1>2, <2>1
  <2>3. \A i \in k + 1 .. Len(s) : s[i] \in R
    BY <1>2, <2>1
  <2>4. SubSeq(s, 1, k) \in Seq(R)
    BY <2>2, SubSeqProperties
  <2>5. SubSeq(s, k + 1, Len(s)) \in Seq(R)
    BY <2>1, <2>3, SubSeqProperties
  <2>6. <<e>> \in Seq(R)
    OBVIOUS
  <2>7. SubSeq(s, 1, k) \o <<e>> \in Seq(R)
    BY <2>4, <2>6, ConcatProperties
  <2>8. SubSeq(s, 1, k) \o <<e>> \o SubSeq(s, k + 1, Len(s)) \in Seq(R)
    BY <2>5, <2>7, ConcatProperties
  <2> QED BY <1>2, <2>8 DEF InsertAfter
<1> QED BY <1>1, <1>2

\* The summary of a condensation is no event of the log: its id is negative.
LEMMA SummaryIs ==
  ASSUME NEW c \in Records
  PROVE  SummaryOf(c) \in Records /\ SummaryOf(c).id = -c.id /\ SummaryOf(c).kind = "summary"
<1>1. Blank \in Records
  BY DEF Records, Kinds, Blank
<1>2. -c.id \in Int
  BY DEF Records
<1>3. SummaryOf(c) = [Blank EXCEPT !.id = -c.id, !.kind = "summary"]
  BY DEF SummaryOf
<1> QED BY <1>1, <1>2, <1>3 DEF Records, Kinds

\* What is left after each event of a log: condensations are applied, others join or not.
NextOutput(e, s) == CASE e.kind = "condensation" -> Apply(e, s)
                      [] e.kind \in Convertible -> Append(s, e)
                      [] OTHER -> s
Runs(f, l) == f[0] = <<>> /\ \A i \in 1 .. Len(l) : f[i] = NextOutput(l[i], f[i - 1])
LEMMA OutputRuns ==
  ASSUME NEW l, Logged(l)
  PROVE  \E f : /\ Runs(f, l) /\ Output(l) = f[Len(l)]
               /\ \A i \in 0 .. Len(l) : f[i] \in Seq(Shows(l))
<1> DEFINE n == Len(l)
           K == Shows(l)
           Next1(i, s) == NextOutput(l[i], s)
           G == [i \in 0 .. n |-> Seq(K)]
           step == [i \in 1 .. n |-> [s \in G[i - 1] |-> Next1(i, s)]]
           out[i \in 0 .. n] ==
             IF i = 0 THEN <<>>
             ELSE CASE l[i].kind = "condensation" -> Apply(l[i], out[i - 1])
                    [] l[i].kind \in Convertible -> Append(out[i - 1], l[i])
                    [] OTHER -> out[i - 1]
           Is(f) == f = [i \in 0 .. n |->
                           IF i = 0 THEN <<>>
                           ELSE CASE l[i].kind = "condensation" -> Apply(l[i], f[i - 1])
                                  [] l[i].kind \in Convertible -> Append(f[i - 1], l[i])
                                  [] OTHER -> f[i - 1]]
<1>1. /\ n \in Nat /\ DOMAIN l = 1 .. n
      /\ \A i \in 1 .. n : l[i] \in Records /\ l[i] \in Elements(l) /\ l[i].id = i
  BY DEF Logged, Placed, Elements
<1>2. Output(l) = out[n]
  BY DEF Output
<1> HIDE DEF n, out
<1>3. \A i \in 1 .. n : l[i] \in K /\ SummaryOf(l[i]) \in K
  <2> TAKE i \in 1 .. n
  <2>1. l[i] \in Records /\ l[i] \in Elements(l) /\ l[i].id = i
    BY <1>1
  <2>2. SummaryOf(l[i]) \in Records /\ SummaryOf(l[i]).id = -i /\ SummaryOf(l[i]).kind = "summary"
    BY <2>1, SummaryIs
  <2>3. - (-i) \in 1 .. Len(l)
    BY <1>1 DEF n
  <2>4. - SummaryOf(l[i]).id \in 1 .. Len(l)
    BY <2>2, <2>3
  <2> QED BY <2>1, <2>2, <2>4 DEF Shows
<1> HIDE DEF K
<1>4. ASSUME NEW i \in 1 .. n, NEW s \in Seq(K) PROVE Next1(i, s) \in Seq(K)
  <2>1. CASE l[i].kind = "condensation"
    <3>1. Forget(s, l[i].forgets) \in Seq(K)
      BY OnlyIs DEF Forget
    <3>2. l[i].offset # -1 => l[i].offset \in Nat
      BY <1>1 DEF Records
    <3>3. Apply(l[i], s) \in Seq(K)
      <4>1. CASE l[i].offset = -1
        BY <3>1, <4>1 DEF Apply
      <4>2. CASE l[i].offset # -1
        <5>1. InsertAfter(Forget(s, l[i].forgets), l[i].offset, SummaryOf(l[i])) \in Seq(K)
          <6>1. l[i].offset \in Nat /\ SummaryOf(l[i]) \in K
            BY <1>3, <3>2, <4>2
          <6> QED BY <3>1, <6>1, InsertIs
        <5> QED BY <4>2, <5>1 DEF Apply
      <4> QED BY <4>1, <4>2
    <3> QED BY <2>1, <3>3 DEF NextOutput, Convertible, ResultKinds
  <2>2. CASE l[i].kind # "condensation" /\ l[i].kind \in Convertible
    BY <1>3, <2>2, AppendProperties DEF NextOutput
  <2>3. CASE l[i].kind # "condensation" /\ l[i].kind \notin Convertible
    BY <2>3 DEF NextOutput
  <2> QED BY <2>1, <2>2, <2>3
<1>a. \A i \in 1 .. n : i - 1 \in 0 .. n /\ i \in 0 .. n /\ i # 0
  BY <1>1
<1>b. 0 \in 0 .. n /\ n \in 0 .. n /\ \A i \in 0 .. n : i # 0 => i \in 1 .. n
  BY <1>1
<1>c. \A i \in 0 .. n : G[i] = Seq(K)
  OBVIOUS
<1>d. <<>> \in G[0]
  BY <1>b, <1>c, EmptySeq
<1>e. \A i \in 1 .. n : \A s \in G[i - 1] : step[i][s] = Next1(i, s) /\ Next1(i, s) \in G[i]
  <2>1. \A i \in 1 .. n : \A s \in G[i - 1] : step[i][s] = Next1(i, s)
    <3> HIDE DEF G, Next1
    <3> QED OBVIOUS
  <2> HIDE DEF step, G, Next1
  <2> QED BY <1>4, <1>a, <1>c, <2>1
<1>5. \E f : Is(f)
  <2>1. PICK f : Computes(f, n, G, step, <<>>)
    <3> HIDE DEF G, step, Next1
    <3>1. GoesOver(n, G, step)
      BY <1>e DEF GoesOver
    <3> QED BY <1>1, <1>d, <3>1, Recursion
  <2>2. \A i \in 1 .. n : f[i] = Next1(i, f[i - 1])
    <3> HIDE DEF G, step, Next1
    <3> QED BY <1>a, <1>e, <2>1 DEF Computes
  <2>3. Is(f)
    BY <1>b, <2>1, <2>2 DEF Computes, NextOutput
  <2> QED BY <2>3
<1>6. Is(out)
  <2> HIDE DEF Is
  <2>1. out = CHOOSE f : Is(f)
    BY DEF Is, out
  <2> QED BY <1>5, <2>1
<1>7. out[0] = <<>> /\ \A i \in 1 .. n : out[i] = Next1(i, out[i - 1])
  BY <1>6, <1>a, <1>b DEF NextOutput
<1>8. \A i \in 0 .. n : out[i] \in G[i]
  <2> HIDE DEF G, Next1, step
  <2>1. \A i \in 1 .. n : out[i - 1] \in G[i - 1] => out[i] \in G[i]
    BY <1>e, <1>7
  <2>2. n \in Nat /\ out[0] \in G[0]
    BY <1>1, <1>d, <1>7
  <2> QED BY <2>1, <2>2, Reached
<1>9. \A i \in 0 .. n : out[i] \in Seq(K)
  BY <1>8, <1>c
<1> QED BY <1>2, <1>7, <1>9 DEF K, n, Runs

\* What is left when the condensations are applied, and what of it is shown.
LEMMA OutputIs ==
  ASSUME NEW l, Logged(l)
  PROVE  Output(l) \in Seq(Shows(l)) /\ FromEvents(l) \in Seq(Shows(l))
<1>1. Len(l) \in 0 .. Len(l)
  BY DEF Logged
<1>2. Output(l) \in Seq(Shows(l))
  BY <1>1, OutputRuns
<1> QED BY <1>2, OnlyIs DEF FromEvents

\* Its ids belong to events that were written, and its actions are the log's.
LEMMA ShowsIs ==
  ASSUME NEW l, Logged(l), NEW r \in Shows(l)
  PROVE  /\ r.id \in -Len(l) .. Len(l)
         /\ IsAction(r) => r \in Elements(l)
<1>1. Len(l) \in Nat /\ DOMAIN l = 1 .. Len(l) /\ \A i \in 1 .. Len(l) : l[i].id = i
  BY DEF Logged, Placed
<1>2. CASE r \in Elements(l)
  BY <1>1, <1>2 DEF Elements
<1>3. CASE r.kind = "summary" /\ -r.id \in 1 .. Len(l)
  BY <1>1, <1>3 DEF IsAction, Shows, Records
<1> QED BY <1>2, <1>3 DEF Shows

\* One event that is no call and no result, and looks back if it is a condensation.
LEMMA OneFits ==
  ASSUME NEW l, Logged(l), NEW e \in Records, ~ IsAction(e), ~ IsResult(e),
         e.kind = "condensation" => e.forgets \subseteq -Len(l) .. Len(l)
  PROVE  Fits(l, <<e>>)
<1>1. <<e>> \in Seq(Records) /\ Len(<<e>>) = 1 /\ <<e>>[1] = e /\ \A i \in 1 .. 1 : i = 1
  OBVIOUS
<1> DEFINE s == <<e>>
<1> HIDE DEF s
<1>2. s \in Seq(Records) /\ Len(s) = 1 /\ \A i \in 1 .. Len(s) : i = 1 /\ s[i] = e
  BY <1>1 DEF s
<1>3. Fits(l, s)
  BY <1>2 DEF Fits
<1> QED BY <1>3 DEF s

\* The unmatched actions.
Unmatched(l) == {a \in Actions(Elements(l)) : ResultsOf(a, Elements(l)) = {}}
LEMMA PendingIs ==
  ASSUME NEW l, Logged(l)
  PROVE  Pending(l) \in Seq(Unmatched(l))
<1> DEFINE S == Unmatched(l)
           p == Only(l, S)
<1>1. p \in Seq(Records) /\ Elements(p) = Elements(l) \cap S
  BY OnlyIs DEF Logged
<1>2. Pending(l) = p
  BY DEF Pending, Unmatched
<1> HIDE DEF p, S
<1>4. \A i \in 1 .. Len(p) : p[i] \in Elements(p)
  BY <1>1 DEF Elements
<1>5. \A i \in 1 .. Len(p) : p[i] \in S
  BY <1>1, <1>4
<1>6. p = [i \in 1 .. Len(p) |-> p[i]] /\ Len(p) \in Nat
  BY <1>1
<1> QED BY <1>2, <1>5, <1>6 DEF S

\* Results of such actions.
LEMMA ResultsFit ==
  ASSUME NEW l, Logged(l), NEW acts \in Seq(Actions(Elements(l))),
         NEW kind \in ResultKinds, NEW size \in Nat
  PROVE  LET s == Results(acts, kind, size)
         IN  /\ Fits(l, s) /\ Len(s) = Len(acts)
             /\ \A i \in 1 .. Len(s) : s[i].kind = kind /\ s[i].call = acts[i].call
<1> DEFINE m == Len(acts)
           s == Results(acts, kind, size)
<1>1. /\ m \in Nat /\ DOMAIN acts = 1 .. m
      /\ \A i \in 1 .. m : acts[i] \in Actions(Elements(l))
  OBVIOUS
<1>2. s = [i \in 1 .. m |-> [Event(kind) EXCEPT !.call = acts[i].call, !.content = size]]
  BY <1>1 DEF Results
<1> HIDE DEF m, s
<1>3. ASSUME NEW i \in 1 .. m
      PROVE  \E j \in 1 .. Len(l) : IsAction(l[j]) /\ l[j].call = acts[i].call /\ acts[i].call \in Nat
  <2>1. acts[i] \in Elements(l) /\ IsAction(acts[i])
    BY <1>1 DEF Actions
  <2>2. l \in Seq(Records) /\ DOMAIN l = 1 .. Len(l) /\ \A j \in 1 .. Len(l) : l[j] \in Records
    BY DEF Logged
  <2>3. PICK j \in 1 .. Len(l) : l[j] = acts[i]
    BY <2>1, <2>2 DEF Elements
  <2>4. l[j].call \in Nat
    BY <2>2 DEF Records
  <2> QED BY <2>1, <2>3, <2>4
<1>4. kind \in Kinds /\ kind # "action" /\ kind # "condensation"
  BY DEF ResultKinds, Kinds
<1>5. ASSUME NEW i \in 1 .. m
      PROVE  /\ s[i] \in Records /\ s[i].kind = kind /\ s[i].call = acts[i].call
             /\ \E j \in 1 .. Len(l) : IsAction(l[j]) /\ l[j].call = s[i].call
  <2>1. s[i] = [Event(kind) EXCEPT !.call = acts[i].call, !.content = size]
    BY <1>2
  <2>a. acts[i].call \in Nat
    BY <1>3
  <2>b. \A c \in Nat, z \in Nat :
          LET e == [Event(kind) EXCEPT !.call = c, !.content = z]
          IN  e \in Records /\ e.kind = kind /\ e.call = c
    BY <1>4, Made
  <2>c. LET e == [Event(kind) EXCEPT !.call = acts[i].call, !.content = size]
        IN  e \in Records /\ e.kind = kind /\ e.call = acts[i].call
    BY <2>a, <2>b
  <2>2. s[i] \in Records /\ s[i].kind = kind /\ s[i].call = acts[i].call
    BY <2>1, <2>c
  <2> QED BY <1>3, <2>2
<1>6. s \in Seq(Records) /\ Len(s) = m
  <2>1. s \in [1 .. m -> Records]
    BY <1>2, <1>5
  <2> QED BY <1>1, <2>1
<1>7. Fits(l, s)
  BY <1>4, <1>5, <1>6 DEF Fits, IsAction
<1> QED BY <1>5, <1>6, <1>7 DEF s, m

\* FlattenSeq: what holds of the empty list and goes over when the next part is put behind it.
LEMMA FlattenIs ==
  ASSUME NEW n \in Nat \ {0}, NEW R, NEW parts \in [1 .. n -> Seq(R)], NEW G, <<>> \in G[0],
         \A i \in 1 .. n : \A s \in G[i - 1] : s \o parts[i] \in G[i]
  PROVE  FlattenSeq(parts) \in G[n]
<1> DEFINE step == [i \in 1 .. n |-> [s \in G[i - 1] |-> s \o parts[i]]]
           flatten[i \in 1 .. n] == IF i = 1 THEN parts[i] ELSE flatten[i - 1] \o parts[i]
           Is(f) == f = [i \in 1 .. n |-> IF i = 1 THEN parts[i] ELSE f[i - 1] \o parts[i]]
<1>1. Len(parts) = n
  OBVIOUS
<1>2. FlattenSeq(parts) = flatten[n]
  BY <1>1 DEF FlattenSeq
<1> HIDE DEF flatten
<1>3. /\ \A i \in 1 .. n : i \in 0 .. n /\ (i # 1 => i - 1 \in 1 .. n)
      /\ 1 \in 1 .. n /\ n \in 1 .. n /\ n \in Nat
  OBVIOUS
<1>4. <<>> \o parts[1] = parts[1]
  BY <1>3, ConcatEmptySeq
<1>5. \A i \in 1 .. n : \A s \in G[i - 1] : step[i][s] = s \o parts[i]
  OBVIOUS
<1>6. \E f : Is(f)
  <2>1. PICK f : Computes(f, n, G, step, <<>>)
    <3> HIDE DEF step
    <3>1. GoesOver(n, G, step)
      BY <1>5 DEF GoesOver
    <3> QED BY <1>3, <3>1, Recursion
  <2>2. f[0] = <<>> /\ \A i \in 1 .. n : f[i] = step[i][f[i - 1]]
    BY <2>1 DEF Computes
  <2>3. \A i \in 1 .. n : f[i] = f[i - 1] \o parts[i]
    <3> HIDE DEF step
    <3>1. \A i \in 1 .. n : i - 1 \in 0 .. n
      OBVIOUS
    <3>2. \A i \in 1 .. n : f[i - 1] \in G[i - 1]
      BY <2>1, <3>1 DEF Computes
    <3> QED BY <1>5, <2>2, <3>2
  <2> DEFINE g == [i \in 1 .. n |-> f[i]]
  <2>4. \A i \in 1 .. n : g[i] = IF i = 1 THEN parts[i] ELSE g[i - 1] \o parts[i]
    <3>1. f[1] = parts[1]
      <4>1. f[1] = f[0] \o parts[1]
        BY <1>3, <2>3
      <4> QED BY <1>4, <2>2, <4>1
    <3> QED BY <1>3, <2>3, <3>1
  <2>5. Is(g)
    BY <2>4
  <2> QED BY <2>5
<1>7. Is(flatten)
  <2> HIDE DEF Is
  <2>1. flatten = CHOOSE f : Is(f)
    BY DEF Is, flatten
  <2> QED BY <1>6, <2>1
<1> DEFINE h == [i \in 0 .. n |-> IF i = 0 THEN <<>> ELSE flatten[i]]
<1>8. h[0] = <<>> /\ \A i \in 1 .. n : h[i] = h[i - 1] \o parts[i]
  <2>1. \A i \in 1 .. n : flatten[i] = IF i = 1 THEN parts[i] ELSE flatten[i - 1] \o parts[i]
    BY <1>7
  <2>2. 0 \in 0 .. n /\ \A i \in 1 .. n : i \in 0 .. n /\ i - 1 \in 0 .. n /\ i # 0 /\ (i # 1 => i - 1 # 0)
    OBVIOUS
  <2>3. h[0] = <<>> /\ \A i \in 1 .. n : h[i] = flatten[i]
    BY <2>2
  <2>4. ASSUME NEW i \in 1 .. n PROVE h[i] = h[i - 1] \o parts[i]
    <3>1. CASE i = 1
      BY <1>4, <2>1, <2>3, <3>1
    <3>2. CASE i # 1
      BY <1>3, <2>1, <2>3, <3>2
    <3> QED BY <3>1, <3>2
  <2> QED BY <2>3, <2>4
<1>9. h[n] = flatten[n]
  BY <1>3
<1> HIDE DEF h
<1>10. \A i \in 0 .. n : h[i] \in G[i]
  <2>1. \A i \in 1 .. n : h[i - 1] \in G[i - 1] => h[i] \in G[i]
    BY <1>8
  <2>2. h[0] \in G[0]
    BY <1>8
  <2> QED BY <1>3, <2>1, <2>2, Reached
<1> QED BY <1>2, <1>3, <1>9, <1>10

-----------------------------------------------------------------------------
\* What the first i calls of a response, and the errors of the malformed ones, have written.
Calls(l, i) ==
  {s \in Seq(Records) :
     /\ i <= Len(s) /\ (i = 0 => Len(s) = 0)
     /\ \A k \in 1 .. Len(s) : s[k].kind \in {"action", "error"}
     /\ \A k \in 1 .. Len(s) : IsAction(s[k]) => /\ s[k].batch = Len(l) + 1
                                                 /\ s[k].thinking => k = 1
     /\ \A k \in 1 .. Len(s) : IsAction(s[k]) => s[k].call \in Len(l) + 1 .. Len(l) + i
     /\ \A k, j \in 1 .. Len(s) : IsAction(s[k]) /\ IsAction(s[j]) /\ s[k].call = s[j].call => k = j
     /\ \A k \in 1 .. Len(s) : IsResult(s[k]) =>
          \E j \in 1 .. k - 1 : IsAction(s[j]) /\ s[j].call = s[k].call}

\* All of it fits behind the log.
LEMMA CallsFit ==
  ASSUME NEW l, Logged(l), NEW n \in Nat, NEW s \in Calls(l, n)
  PROVE  Fits(l, s)
<1>1. s \in Seq(Records) /\ Len(s) \in Nat /\ n <= Len(s) /\ Len(l) \in Nat
  BY DEF Calls, Logged
<1>2. Len(l) + 1 .. Len(l) + n \subseteq Len(l) + 1 .. Len(l) + Len(s)
  BY <1>1
<1>3. \A k \in 1 .. Len(s) : IsAction(s[k]) => s[k].call \in Len(l) + 1 .. Len(l) + Len(s)
  BY <1>2 DEF Calls
<1>4. \A k \in 1 .. Len(s) : s[k].kind # "condensation"
  BY DEF Calls
<1> QED BY <1>1, <1>3, <1>4 DEF Calls, Fits

\* The next call, with the next number.
LEMMA AppendCall ==
  ASSUME NEW l, Len(l) \in Nat, NEW i \in Nat \ {0}, NEW s \in Calls(l, i - 1),
         NEW a \in Records, a.kind = "action", a.call = Len(l) + i,
         a.batch = Len(l) + 1, a.thinking => i = 1
  PROVE  Append(s, a) \in Calls(l, i)
<1> DEFINE t == Append(s, a)
           m == Len(s)
<1> DEFINE h == i - 1
<1>0. h \in Nat /\ i = h + 1 /\ s \in Calls(l, h)
  OBVIOUS
<1> HIDE DEF h
<1>b. \A k \in 1 .. m : IsAction(s[k]) => s[k].batch = Len(l) + 1 /\ (s[k].thinking => k = 1)
  BY <1>0 DEF Calls
<1>c. h = 0 => m = 0
  BY <1>0 DEF Calls
<1>1. /\ s \in Seq(Records) /\ m \in Nat /\ h <= m
      /\ \A k \in 1 .. m : s[k].kind \in {"action", "error"}
      /\ \A k \in 1 .. m : IsAction(s[k]) => s[k].call \in Len(l) + 1 .. Len(l) + h
      /\ \A k, j \in 1 .. m : IsAction(s[k]) /\ IsAction(s[j]) /\ s[k].call = s[j].call => k = j
      /\ \A k \in 1 .. m : IsResult(s[k]) =>
           \E j \in 1 .. k - 1 : IsAction(s[j]) /\ s[j].call = s[k].call
  BY <1>0 DEF Calls
<1>2. /\ t \in Seq(Records) /\ Len(t) = m + 1 /\ t[m + 1] = a
      /\ \A k \in 1 .. m : t[k] = s[k]
  BY <1>1, AppendProperties
<1> HIDE DEF t, m
<1>3. IsAction(a) /\ ~ IsResult(a)
  BY DEF IsAction, IsResult, ResultKinds
<1>4. \A k \in 1 .. m + 1 : k \in 1 .. m \/ k = m + 1
  BY <1>1
<1>5. i <= m + 1
  BY <1>0, <1>1
<1>6. \A k \in 1 .. m + 1 : t[k].kind \in {"action", "error"}
  BY <1>1, <1>2, <1>4
<1>7. ASSUME NEW k \in 1 .. m + 1, IsAction(t[k]) PROVE t[k].call \in Len(l) + 1 .. Len(l) + i
  <2>1. CASE k \in 1 .. m
    <3>1. s[k].call \in Len(l) + 1 .. Len(l) + h
      BY <1>1, <1>2, <1>7, <2>1
    <3> QED BY <1>0, <1>2, <2>1, <3>1
  <2>2. CASE k = m + 1
    BY <1>2, <2>2
  <2> QED BY <1>4, <2>1, <2>2
<1>8. ASSUME NEW k \in 1 .. m, IsAction(s[k]) PROVE s[k].call # a.call
  <2>1. s[k].call \in Len(l) + 1 .. Len(l) + h
    BY <1>1, <1>8
  <2> QED BY <1>0, <2>1
<1>9. ASSUME NEW k \in 1 .. m + 1, NEW j \in 1 .. m + 1,
             IsAction(t[k]), IsAction(t[j]), t[k].call = t[j].call
      PROVE  k = j
  <2>1. CASE k \in 1 .. m /\ j \in 1 .. m
    <3>1. t[k] = s[k] /\ t[j] = s[j]
      BY <1>2, <2>1
    <3> QED BY <1>1, <1>9, <2>1, <3>1
  <2>2. CASE k \in 1 .. m /\ j = m + 1
    BY <1>2, <1>8, <1>9, <2>2
  <2>3. CASE k = m + 1 /\ j \in 1 .. m
    BY <1>2, <1>8, <1>9, <2>3
  <2> QED BY <1>4, <2>1, <2>2, <2>3
<1>10. ASSUME NEW k \in 1 .. m + 1, IsResult(t[k])
       PROVE  \E j \in 1 .. k - 1 : IsAction(t[j]) /\ t[j].call = t[k].call
  <2>1. k \in 1 .. m /\ t[k] = s[k]
    BY <1>2, <1>3, <1>4, <1>10
  <2>2. PICK j \in 1 .. k - 1 : IsAction(s[j]) /\ s[j].call = s[k].call
    BY <1>1, <1>10, <2>1
  <2>3. j \in 1 .. m
    BY <1>1, <2>1
  <2> QED BY <1>2, <2>1, <2>2, <2>3
<1>d. ASSUME NEW k \in 1 .. m + 1, IsAction(t[k])
      PROVE  t[k].batch = Len(l) + 1 /\ (t[k].thinking => k = 1)
  <2>1. CASE k \in 1 .. m
    BY <1>2, <1>b, <1>d, <2>1
  <2>2. CASE k = m + 1
    <3>1. a.thinking => m = 0
      BY <1>0, <1>c
    <3> QED BY <1>1, <1>2, <2>2, <3>1
  <2> QED BY <1>4, <2>1, <2>2
<1>11. t \in Calls(l, i)
  BY <1>2, <1>5, <1>6, <1>7, <1>9, <1>10, <1>d DEF Calls
<1> QED BY <1>11 DEF t

\* The error of a malformed call, after it.
LEMMA AppendError ==
  ASSUME NEW l, NEW i \in Nat, NEW s \in Calls(l, i), NEW r \in Records, r.kind = "error",
         NEW h \in 1 .. Len(s), IsAction(s[h]), s[h].call = r.call
  PROVE  Append(s, r) \in Calls(l, i)
<1> DEFINE t == Append(s, r)
           m == Len(s)
<1>b. \A k \in 1 .. m : IsAction(s[k]) => s[k].batch = Len(l) + 1 /\ (s[k].thinking => k = 1)
  BY DEF Calls
<1>1. /\ s \in Seq(Records) /\ m \in Nat /\ i <= m /\ (i = 0 => m = 0)
      /\ \A k \in 1 .. m : s[k].kind \in {"action", "error"}
      /\ \A k \in 1 .. m : IsAction(s[k]) => s[k].call \in Len(l) + 1 .. Len(l) + i
      /\ \A k, j \in 1 .. m : IsAction(s[k]) /\ IsAction(s[j]) /\ s[k].call = s[j].call => k = j
      /\ \A k \in 1 .. m : IsResult(s[k]) =>
           \E j \in 1 .. k - 1 : IsAction(s[j]) /\ s[j].call = s[k].call
  BY DEF Calls
<1>2. /\ t \in Seq(Records) /\ Len(t) = m + 1 /\ t[m + 1] = r
      /\ \A k \in 1 .. m : t[k] = s[k]
  BY <1>1, AppendProperties
<1>a. h \in 1 .. m
  OBVIOUS
<1> HIDE DEF t, m
<1>3. ~ IsAction(r)
  BY DEF IsAction
<1>4. \A k \in 1 .. m + 1 : k \in 1 .. m \/ k = m + 1
  BY <1>1
<1>5. i <= m + 1
  BY <1>1
<1>6. \A k \in 1 .. m + 1 : t[k].kind \in {"action", "error"}
  BY <1>1, <1>2, <1>4
<1>7. \A k \in 1 .. m + 1 : IsAction(t[k]) => t[k].call \in Len(l) + 1 .. Len(l) + i
  BY <1>1, <1>2, <1>3, <1>4
<1>8. \A k, j \in 1 .. m + 1 : IsAction(t[k]) /\ IsAction(t[j]) /\ t[k].call = t[j].call => k = j
  BY <1>1, <1>2, <1>3, <1>4
<1>9. ASSUME NEW k \in 1 .. m + 1, IsResult(t[k])
      PROVE  \E j \in 1 .. k - 1 : IsAction(t[j]) /\ t[j].call = t[k].call
  <2>1. CASE k \in 1 .. m
    <3>1. PICK j \in 1 .. k - 1 : IsAction(s[j]) /\ s[j].call = s[k].call
      BY <1>1, <1>2, <1>9, <2>1
    <3>2. j \in 1 .. m
      BY <1>1, <2>1
    <3> QED BY <1>2, <2>1, <3>1, <3>2
  <2>2. CASE k = m + 1
    <3>1. h \in 1 .. k - 1 /\ t[h] = s[h]
      BY <1>1, <1>2, <1>a, <2>2
    <3> QED BY <1>2, <2>2, <3>1
  <2> QED BY <1>4, <2>1, <2>2
<1>c. \A k \in 1 .. m + 1 : IsAction(t[k]) => t[k].batch = Len(l) + 1 /\ (t[k].thinking => k = 1)
  BY <1>2, <1>3, <1>4, <1>b
<1>d. i # 0
  BY <1>1, <1>a
<1>10. t \in Calls(l, i)
  BY <1>2, <1>5, <1>6, <1>7, <1>8, <1>9, <1>c, <1>d DEF Calls
<1> QED BY <1>10 DEF t

\* A response with any number of calls, any of them malformed.
LEMMA ResponseFits ==
  ASSUME NEW l, Logged(l), NEW n \in Nat \ {0}, NEW bad, NEW thinking \in BOOLEAN
  PROVE  LET s == Response(l, n, bad, thinking) IN s \in Calls(l, n) /\ Fits(l, s)
<1> DEFINE a(i) == [Event("action") EXCEPT !.call = Len(l) + i, !.batch = Len(l) + 1,
                                           !.thinking = thinking /\ i = 1]
           r(i) == [Event("error") EXCEPT !.call = a(i).call, !.content = 0]
           parts == [i \in 1 .. n |-> IF i \in bad THEN <<a(i)>> \o Results(<<a(i)>>, "error", 0)
                                      ELSE <<a(i)>>]
           G == [i \in 0 .. n |-> Calls(l, i)]
<1>1. Response(l, n, bad, thinking) = FlattenSeq(parts)
  BY DEF Response
<1>2. Len(l) \in Nat
  BY DEF Logged
<1>3. ASSUME NEW i \in 1 .. n
      PROVE  /\ a(i) \in Records /\ a(i).kind = "action" /\ a(i).call = Len(l) + i
             /\ a(i).batch = Len(l) + 1 /\ (a(i).thinking => i = 1)
  <2>1. Len(l) + i \in Nat /\ Len(l) + 1 \in Nat /\ (thinking /\ i = 1) \in BOOLEAN
    BY <1>2
  <2>2. "action" \in Kinds
    BY DEF Kinds
  <2>3. Event("action") \in Records /\ Event("action").kind = "action"
    BY <2>2, Made
  <2> DEFINE first == thinking /\ i = 1
             c == Len(l) + i
             b == Len(l) + 1
  <2>a. first \in BOOLEAN /\ c \in Nat /\ b \in Nat
    BY <2>1
  <2> HIDE DEF first, c, b
  <2>4. LET e == [Event("action") EXCEPT !.call = c, !.batch = b, !.thinking = first]
        IN  e \in Records /\ e.kind = "action" /\ e.call = c /\ e.batch = b /\ e.thinking = first
    BY <2>3, <2>a DEF Records
  <2> QED BY <2>4 DEF first, c, b
<1> HIDE DEF a
<1>4. ASSUME NEW i \in 1 .. n
      PROVE  r(i) \in Records /\ r(i).kind = "error" /\ r(i).call = a(i).call
  <2>1. a(i).call \in Nat /\ 0 \in Nat
    BY <1>2, <1>3
  <2>2. "error" \in Kinds
    BY DEF Kinds
  <2>3. \A c \in Nat, z \in Nat :
          LET e == [Event("error") EXCEPT !.call = c, !.content = z]
          IN  e \in Records /\ e.kind = "error" /\ e.call = c
    BY <2>2, Made
  <2> QED BY <2>1, <2>3
<1>5. ASSUME NEW i \in 1 .. n PROVE Results(<<a(i)>>, "error", 0) = <<r(i)>>
  <2> DEFINE acts == <<a(i)>>
  <2>1. DOMAIN acts = 1 .. 1 /\ acts[1] = a(i) /\ \A k \in 1 .. 1 : k = 1
    OBVIOUS
  <2> HIDE DEF acts
  <2>2. Results(acts, "error", 0) = [k \in 1 .. 1 |-> r(i)]
    BY <2>1 DEF Results
  <2>3. [k \in 1 .. 1 |-> r(i)] = <<r(i)>>
    <3> HIDE DEF r
    <3> QED OBVIOUS
  <2> QED BY <2>2, <2>3 DEF acts
<1> HIDE DEF r
<1>6. ASSUME NEW i \in 1 .. n
      PROVE  /\ parts[i] \in Seq(Records)
             /\ \/ parts[i] = <<a(i)>>
                \/ parts[i] = <<a(i)>> \o <<r(i)>>
  <2>1. <<a(i)>> \in Seq(Records) /\ <<r(i)>> \in Seq(Records)
    BY <1>3, <1>4
  <2>2. <<a(i)>> \o <<r(i)>> \in Seq(Records)
    BY <2>1, ConcatProperties
  <2>3. parts[i] = <<a(i)>> \/ parts[i] = <<a(i)>> \o <<r(i)>>
    BY <1>5
  <2> HIDE DEF parts
  <2> QED BY <2>1, <2>2, <2>3
<1>7. parts \in [1 .. n -> Seq(Records)]
  BY <1>6
<1> HIDE DEF parts
<1>8. ASSUME NEW i \in 1 .. n, NEW s \in Calls(l, i - 1) PROVE s \o parts[i] \in Calls(l, i)
  <2>0. s \in Seq(Records) /\ Len(s) \in Nat
    BY DEF Calls
  <2>1. s \o <<a(i)>> = Append(s, a(i))
    BY <2>0, <1>3, AppendIsConcat
  <2>2. Append(s, a(i)) \in Calls(l, i)
    BY <1>2, <1>3, AppendCall
  <2>3. CASE parts[i] = <<a(i)>>
    BY <2>1, <2>2, <2>3
  <2>4. CASE parts[i] = <<a(i)>> \o <<r(i)>>
    <3> DEFINE t == Append(s, a(i))
    <3>1. t \in Seq(Records) /\ Len(t) = Len(s) + 1 /\ t[Len(s) + 1] = a(i)
      BY <2>0, <1>3, AppendProperties
    <3>2. s \o parts[i] = t \o <<r(i)>>
      <4>1. <<a(i)>> \in Seq(Records) /\ <<r(i)>> \in Seq(Records)
        BY <1>3, <1>4
      <4>2. (s \o <<a(i)>>) \o <<r(i)>> = s \o (<<a(i)>> \o <<r(i)>>)
        BY <2>0, <4>1, ConcatAssociative
      <4> QED BY <2>1, <2>4, <4>2
    <3> HIDE DEF t
    <3>3. t \o <<r(i)>> = Append(t, r(i))
      BY <1>4, <3>1, AppendIsConcat
    <3>4. /\ Len(s) + 1 \in 1 .. Len(t) /\ IsAction(t[Len(s) + 1])
          /\ t[Len(s) + 1].call = r(i).call
      BY <1>3, <1>4, <2>0, <3>1 DEF IsAction
    <3>5. t \in Calls(l, i)
      BY <2>2 DEF t
    <3>6. Append(t, r(i)) \in Calls(l, i)
      BY <1>4, <3>4, <3>5, AppendError
    <3> QED BY <3>2, <3>3, <3>6
  <2> QED BY <1>6, <2>3, <2>4
<1>9. FlattenSeq(parts) \in G[n]
  <2>1. <<>> \in Calls(l, 0)
    BY EmptySeq DEF Calls
  <2>2. <<>> \in G[0]
    BY <2>1
  <2>3. \A i \in 1 .. n : G[i - 1] = Calls(l, i - 1) /\ G[i] = Calls(l, i)
    OBVIOUS
  <2> HIDE DEF G
  <2>4. \A i \in 1 .. n : \A s \in G[i - 1] : s \o parts[i] \in G[i]
    BY <1>8, <2>3
  <2> QED BY <1>7, <2>2, <2>4, FlattenIs
<1>10. FlattenSeq(parts) \in Calls(l, n) /\ n \in Nat
  BY <1>9
<1>11. Fits(l, FlattenSeq(parts))
  BY <1>10, CallsFit
<1> QED BY <1>1, <1>10, <1>11

-----------------------------------------------------------------------------
(***************************************************************************)
(* What the view shows of a log, and where it may be cut.                  *)
(***************************************************************************)

\* An action with the actions of its batch, and with its results.
Together(x, y) ==
  IsAction(x) /\ \/ IsAction(y) /\ y.batch = x.batch
                 \/ IsResult(y) /\ y.call = x.call

\* The events in the order of the log; a summary, whose id is negative, may be anywhere.
InOrder(s) ==
  \A i, j \in 1 .. Len(s) : i < j => /\ s[i].id # s[j].id
                                     /\ 0 < s[i].id /\ 0 < s[j].id => s[i].id < s[j].id

\* Of what belongs together all or nothing was forgotten.
WholeOrHidden(l) ==
  \A x, y \in Elements(l) :
    Together(x, y) => (x \in Elements(Output(l)) <=> y \in Elements(Output(l)))

\* An action without result was not forgotten.
PendingShown(l) ==
  \A x \in Actions(Elements(l)) : ResultsOf(x, Elements(l)) = {} => x \in Elements(Output(l))

\* A batch has the number of its first action, which alone can have thinking blocks, and is
\* written before the next begins.
Batched(l) ==
  /\ \A i \in 1 .. Len(l) : IsAction(l[i]) => /\ l[i].batch \in 1 .. i
                                              /\ l[i].thinking => l[i].batch = i
  /\ \A i, j \in 1 .. Len(l) :
       IsAction(l[i]) /\ IsAction(l[j]) /\ l[i].batch < l[j].batch => i < l[j].batch

\* The inductive invariant: the log alone, and what it is shown as.
Kept(l) == /\ Logged(l) /\ Batched(l)
           /\ InOrder(Output(l)) /\ WholeOrHidden(l) /\ PendingShown(l)
LogInv == going \in BOOLEAN /\ Kept(log)

\* What a step that does not condense appends: at most one batch, results of actions that
\* were not forgotten.
Follows(l, s) ==
  /\ Fits(l, s)
  /\ \A k \in 1 .. Len(s) :
       /\ s[k].kind # "condensation"
       /\ IsAction(s[k]) => s[k].batch = Len(l) + 1 /\ (s[k].thinking => k = 1)
       /\ IsResult(s[k]) =>
            \A x \in Actions(Elements(l)) : x.call = s[k].call => x \in Elements(Output(l))

\* A function on 1 .. z is a list of length z.
LEMMA FunctionIsList ==
  ASSUME NEW R, NEW z \in Nat, NEW p \in [1 .. z -> R]
  PROVE  p \in Seq(R) /\ Len(p) = z
  OBVIOUS

\* What a log and what follows it make.
LEMMA ExtendIs ==
  ASSUME NEW l, Logged(l), NEW s, Follows(l, s)
  PROVE  LET x == Extend(l, s)
             n == Len(l)
             m == Len(s)
         IN  /\ Logged(x) /\ Len(x) = n + m /\ n \in Nat /\ m \in Nat
             /\ \A i \in 1 .. n : x[i] = l[i]
             /\ \A k \in 1 .. m : /\ x[n + k].kind # "condensation"
                                  /\ x[n + k].kind = s[k].kind /\ x[n + k].call = s[k].call
                                  /\ x[n + k].batch = s[k].batch
                                  /\ x[n + k].thinking = s[k].thinking
<1> DEFINE n == Len(l)
           m == Len(s)
           e == Numbered(l, s)
           x == Extend(l, s)
<1>1. Fits(l, s) /\ \A k \in 1 .. Len(s) : s[k].kind # "condensation"
  BY DEF Follows
<1>2. Logged(x) /\ Len(x) = n + m
  BY <1>1, ExtendKeeps
<1>3. /\ l \in Seq(Records) /\ s \in Seq(Records) /\ n \in Nat /\ m \in Nat
      /\ \A i \in 1 .. m : s[i] \in Records
      /\ DOMAIN s = 1 .. m
  BY <1>1 DEF Logged, Fits
<1>4. e = [i \in 1 .. m |-> [s[i] EXCEPT !.id = n + i]]
  BY <1>3 DEF Numbered
<1>5. ASSUME NEW i \in 1 .. m
      PROVE  /\ e[i] \in Records /\ e[i].kind = s[i].kind /\ e[i].call = s[i].call
             /\ e[i].batch = s[i].batch /\ e[i].thinking = s[i].thinking
  <2>1. e[i] = [s[i] EXCEPT !.id = n + i] /\ n + i \in Int /\ s[i] \in Records
    BY <1>3, <1>4
  <2> QED BY <2>1, Renumbered
<1> HIDE DEF e, n, m
<1>6. e \in Seq(Records) /\ Len(e) = m
  <2>1. e \in [1 .. m -> Records]
    BY <1>4, <1>5
  <2> QED BY <1>3, <2>1, FunctionIsList
<1>7. x = l \o e
  BY DEF Extend, e
<1>8. /\ Len(l \o e) = n + m
      /\ \A i \in 1 .. n + m : (l \o e)[i] = IF i <= n THEN l[i] ELSE e[i - n]
  BY <1>3, <1>6, ConcatProperties DEF n
<1> HIDE DEF x
<1>9. \A i \in 1 .. n : x[i] = l[i]
  BY <1>3, <1>7, <1>8
<1>10. ASSUME NEW k \in 1 .. m PROVE x[n + k] = e[k]
  <2> DEFINE h == n + k
  <2>1. h \in 1 .. n + m /\ ~ (h <= n) /\ h - n = k
    BY <1>3
  <2> HIDE DEF h
  <2>2. x[h] = e[k]
    BY <1>7, <1>8, <2>1
  <2> QED BY <2>2 DEF h
<1>11. \A k \in 1 .. m : /\ x[n + k].kind # "condensation"
                         /\ x[n + k].kind = s[k].kind /\ x[n + k].call = s[k].call
                         /\ x[n + k].batch = s[k].batch
                         /\ x[n + k].thinking = s[k].thinking
  <2>1. \A k \in 1 .. m : s[k].kind # "condensation"
    BY <1>1 DEF m
  <2> QED BY <1>5, <1>10, <2>1
<1> QED BY <1>2, <1>3, <1>9, <1>11 DEF x, n, m

\* A slice is taken out of a list.
LEMMA WithoutIs ==
  ASSUME NEW R, NEW seq \in Seq(R), NEW i \in 0 .. Len(seq), NEW j \in i .. Len(seq)
  PROVE  LET t == Without(seq, i, j)
         IN  /\ t \in Seq(R) /\ Len(t) = Len(seq) - (j - i)
             /\ \A k \in 1 .. Len(t) : t[k] = IF k <= i THEN seq[k] ELSE seq[k + (j - i)]
<1> DEFINE a == SubSeq(seq, 1, i)
           b == SubSeq(seq, j + 1, Len(seq))
           n == Len(seq)
<1>1. n \in Nat /\ i \in Nat /\ j \in Nat /\ i <= j /\ j <= n /\ \A k \in 1 .. n : seq[k] \in R
  OBVIOUS
<1>2. a \in Seq(R) /\ Len(a) = i /\ \A k \in 1 .. i : a[k] = seq[k]
  OBVIOUS
<1>3. b \in Seq(R) /\ Len(b) = n - j /\ \A k \in 1 .. n - j : b[k] = seq[j + k]
  OBVIOUS
<1>4. Without(seq, i, j) = a \o b
  BY DEF Without
<1> HIDE DEF a, b, n
<1> DEFINE t == a \o b
<1>5. /\ t \in Seq(R) /\ Len(t) = i + (n - j)
      /\ \A k \in 1 .. i + (n - j) : t[k] = IF k <= i THEN a[k] ELSE b[k - i]
  <2>1. a \in Seq(R) /\ b \in Seq(R)
    BY <1>2, <1>3
  <2>2. /\ a \o b \in Seq(R) /\ Len(a \o b) = Len(a) + Len(b)
        /\ \A k \in 1 .. Len(a) + Len(b) : (a \o b)[k] = IF k <= Len(a) THEN a[k] ELSE b[k - Len(a)]
    BY <2>1, ConcatProperties
  <2> QED BY <1>2, <1>3, <2>2
<1> HIDE DEF t
<1>6. ASSUME NEW k \in 1 .. Len(t) PROVE t[k] = IF k <= i THEN seq[k] ELSE seq[k + (j - i)]
  <2>1. CASE k <= i
    BY <1>1, <1>2, <1>5, <2>1
  <2>2. CASE ~ (k <= i)
    <3>1. k - i \in 1 .. n - j /\ j + (k - i) = k + (j - i)
      BY <1>1, <1>5, <2>2
    <3>2. b[k - i] = seq[k + (j - i)]
      BY <1>3, <3>1
    <3> QED BY <1>5, <2>2, <3>2
  <2> QED BY <2>1, <2>2
<1>7. Len(t) = Len(seq) - (j - i)
  BY <1>1, <1>5 DEF n
<1> QED BY <1>4, <1>5, <1>6, <1>7 DEF t

\* To leave out what stands between two places of a list is to take the slice out.
LEMMA SliceIs ==
  ASSUME NEW R, NEW seq \in Seq(R), NEW S, NEW i \in 0 .. Len(seq), NEW j \in i .. Len(seq),
         \A k \in 1 .. Len(seq) : seq[k] \in S <=> ~ (i < k /\ k <= j)
  PROVE  Only(seq, S) = Without(seq, i, j)
<1> DEFINE n == Len(seq)
           long(m) == IF m <= i THEN m ELSE IF m <= j THEN i ELSE m - (j - i)
           part(m) == [k \in 1 .. long(m) |-> IF k <= i THEN seq[k] ELSE seq[k + (j - i)]]
<1>1. n \in Nat /\ i \in Nat /\ j \in Nat /\ i <= j /\ j <= n /\ \A k \in 1 .. n : seq[k] \in R
  OBVIOUS
<1>2. PICK f : Takes(f, seq, S) /\ Only(seq, S) = f[n]
  BY OnlyRuns
<1> HIDE DEF n
<1>3. f[0] = <<>> /\ \A m \in 1 .. n : f[m] = IF seq[m] \in S THEN Append(f[m - 1], seq[m]) ELSE f[m - 1]
  BY <1>2 DEF Takes, n
<1>4. part(0) = <<>>
  <2>1. long(0) = 0
    BY <1>1
  <2> HIDE DEF long
  <2> QED BY <2>1
<1>5. ASSUME NEW m \in 0 .. n
      PROVE  part(m) \in Seq(R) /\ Len(part(m)) = long(m) /\ long(m) \in 0 .. n
  <2>1. long(m) \in 0 .. n
    BY <1>1
  <2>2. ASSUME NEW k \in 1 .. long(m) PROVE (IF k <= i THEN seq[k] ELSE seq[k + (j - i)]) \in R
    <3>1. CASE k <= i
      BY <1>1, <3>1
    <3>2. CASE ~ (k <= i)
      <4>1. k + (j - i) \in 1 .. n
        BY <1>1, <3>2
      <4> QED BY <1>1, <3>2, <4>1
    <3> QED BY <3>1, <3>2
  <2> DEFINE z == long(m)
  <2>3. part(m) = [k \in 1 .. z |-> IF k <= i THEN seq[k] ELSE seq[k + (j - i)]] /\ z \in Nat
    BY <1>1, <2>1
  <2>4. \A k \in 1 .. z : (IF k <= i THEN seq[k] ELSE seq[k + (j - i)]) \in R
    BY <2>2
  <2> HIDE DEF z, part
  <2>5. part(m) \in [1 .. z -> R]
    BY <2>3, <2>4
  <2>6. part(m) \in Seq(R) /\ Len(part(m)) = z
    BY <2>3, <2>5, FunctionIsList
  <2> QED BY <2>1, <2>6 DEF z
<1>6. ASSUME NEW m \in 1 .. n
      PROVE  part(m) = IF seq[m] \in S THEN Append(part(m - 1), seq[m]) ELSE part(m - 1)
  <2>1. m - 1 \in 0 .. n /\ m \in 0 .. n /\ m \in 1 .. Len(seq)
    BY <1>1 DEF n
  <2>2. CASE i < m /\ m <= j
    <3>1. long(m) = i /\ long(m - 1) = i
      BY <1>1, <2>2
    <3>2. part(m) = part(m - 1)
      <4> HIDE DEF long
      <4> QED BY <3>1
    <3>3. seq[m] \notin S
      BY <2>1, <2>2
    <3> HIDE DEF part
    <3> QED BY <3>2, <3>3
  <2>3. CASE ~ (i < m /\ m <= j)
    <3>1. long(m) = long(m - 1) + 1 /\ m = IF long(m) <= i THEN long(m) ELSE long(m) + (j - i)
      BY <1>1, <2>3
    <3>2. seq[m] \in S
      BY <2>1, <2>3
    <3> DEFINE p == part(m - 1)
               q == part(m)
               z == long(m - 1)
               a == Append(p, seq[m])
    <3>3. p \in Seq(R) /\ Len(p) = z /\ q \in Seq(R) /\ Len(q) = z + 1 /\ z \in Nat /\ seq[m] \in R
      <4>1. part(m - 1) \in Seq(R) /\ Len(part(m - 1)) = long(m - 1) /\ long(m - 1) \in Nat
        BY <1>5, <2>1
      <4>2. part(m) \in Seq(R) /\ Len(part(m)) = long(m - 1) + 1
        BY <1>5, <2>1, <3>1
      <4>3. seq[m] \in R
        BY <1>1
      <4> HIDE DEF part, long
      <4> QED BY <4>1, <4>2, <4>3
    <3>4. /\ \A k \in 1 .. z : p[k] = IF k <= i THEN seq[k] ELSE seq[k + (j - i)]
          /\ \A k \in 1 .. z + 1 : q[k] = IF k <= i THEN seq[k] ELSE seq[k + (j - i)]
          /\ q[z + 1] = seq[m]
      <4>1. long(m) = z + 1 /\ m = IF z + 1 <= i THEN z + 1 ELSE z + 1 + (j - i)
        BY <3>1
      <4>2. /\ p = [k \in 1 .. z |-> IF k <= i THEN seq[k] ELSE seq[k + (j - i)]]
            /\ q = [k \in 1 .. z + 1 |-> IF k <= i THEN seq[k] ELSE seq[k + (j - i)]]
        BY <4>1
      <4>3. z + 1 \in 1 .. z + 1
        BY <3>3
      <4> HIDE DEF p, q, z
      <4>4. q[z + 1] = seq[m]
        BY <4>1, <4>2, <4>3
      <4> QED BY <4>2, <4>4
    <3> HIDE DEF p, q, z, part, long
    <3>5. a \in Seq(R) /\ Len(a) = z + 1 /\ a[z + 1] = seq[m] /\ \A k \in 1 .. z : a[k] = p[k]
      BY <3>3, AppendProperties
    <3> HIDE DEF a
    <3>6. \A k \in 1 .. z + 1 : a[k] = q[k]
      <4>1. \A k \in 1 .. z + 1 : k \in 1 .. z \/ k = z + 1
        BY <3>3
      <4>2. \A k \in 1 .. z : k \in 1 .. z + 1
        BY <3>3
      <4> QED BY <3>4, <3>5, <4>1, <4>2
    <3>7. a = q
      BY <3>3, <3>5, <3>6, SeqEqual
    <3> QED BY <3>2, <3>7 DEF a, p, q
  <2> QED BY <2>2, <2>3
<1> DEFINE G == [m \in 0 .. n |-> {part(m)}]
<1>7. \A m \in 0 .. n : f[m] \in G[m]
  <2>1. f[0] \in G[0]
    BY <1>1, <1>3, <1>4
  <2>2. \A m \in 1 .. n : m \in 0 .. n /\ m - 1 \in 0 .. n
    BY <1>1
  <2>3. \A m \in 0 .. n : G[m] = {part(m)}
    OBVIOUS
  <2> HIDE DEF G, part
  <2>4. ASSUME NEW m \in 1 .. n, f[m - 1] \in G[m - 1] PROVE f[m] \in G[m]
    <3>1. f[m - 1] = part(m - 1)
      BY <2>2, <2>3, <2>4
    <3>2. f[m] = part(m)
      BY <1>3, <1>6, <3>1
    <3> QED BY <2>2, <2>3, <3>2
  <2> QED BY <1>1, <2>1, <2>4, Reached
<1>8. f[n] = part(n)
  <2>1. n \in 0 .. n
    BY <1>1
  <2>2. G[n] = {part(n)}
    BY <2>1
  <2> HIDE DEF G, part
  <2> QED BY <1>7, <2>1, <2>2
<1> DEFINE t == Without(seq, i, j)
           u == part(n)
<1>9. /\ t \in Seq(R) /\ Len(t) = n - (j - i)
      /\ \A k \in 1 .. Len(t) : t[k] = IF k <= i THEN seq[k] ELSE seq[k + (j - i)]
  BY WithoutIs DEF n
<1>10. long(n) = n - (j - i)
  BY <1>1
<1>11. /\ u \in Seq(R) /\ Len(u) = n - (j - i)
       /\ \A k \in 1 .. n - (j - i) : u[k] = IF k <= i THEN seq[k] ELSE seq[k + (j - i)]
  <2>1. n \in 0 .. n
    BY <1>1
  <2>2. u \in Seq(R) /\ Len(u) = n - (j - i)
    <3> HIDE DEF part, long
    <3> QED BY <1>5, <1>10, <2>1
  <2>3. u = [k \in 1 .. n - (j - i) |-> IF k <= i THEN seq[k] ELSE seq[k + (j - i)]]
    BY <1>10
  <2> HIDE DEF u
  <2> QED BY <2>2, <2>3
<1> HIDE DEF t, u, part, long
<1>12. t = u
  BY <1>9, <1>11, SeqEqual
<1> QED BY <1>2, <1>8, <1>12 DEF t, u

\* Where the elements of a list are after another was put behind the first k.
LEMMA InsertedIs ==
  ASSUME NEW R, NEW s \in Seq(R), NEW k \in 0 .. Len(s), NEW e \in R
  PROVE  LET t == InsertAfter(s, k, e)
         IN  /\ t \in Seq(R) /\ Len(t) = Len(s) + 1
             /\ \A h \in 1 .. Len(s) + 1 :
                  t[h] = IF h <= k THEN s[h] ELSE IF h = k + 1 THEN e ELSE s[h - 1]
<1> DEFINE n == Len(s)
<1>0. n \in Nat /\ k \in Nat /\ k <= n
  OBVIOUS
<1>1. CASE k >= n
  <2> DEFINE t == Append(s, e)
  <2>1. InsertAfter(s, k, e) = t
    BY <1>1 DEF InsertAfter
  <2>2. t \in Seq(R) /\ Len(t) = n + 1 /\ t[n + 1] = e /\ \A h \in 1 .. n : t[h] = s[h]
    BY AppendProperties
  <2> HIDE DEF t, n
  <2>3. \A h \in 1 .. n + 1 : t[h] = IF h <= k THEN s[h] ELSE IF h = k + 1 THEN e ELSE s[h - 1]
    BY <1>0, <1>1, <2>2
  <2> QED BY <2>1, <2>2, <2>3 DEF n
<1>2. CASE ~ (k >= n)
  <2> DEFINE a == SubSeq(s, 1, k)
             b == SubSeq(s, k + 1, n)
             c == a \o <<e>>
             t == c \o b
  <2>1. InsertAfter(s, k, e) = t
    BY <1>2 DEF InsertAfter
  <2>2. a \in Seq(R) /\ Len(a) = k /\ \A h \in 1 .. k : a[h] = s[h]
    BY <1>2
  <2>3. b \in Seq(R) /\ Len(b) = n - k /\ \A h \in 1 .. n - k : b[h] = s[k + h]
    BY <1>2
  <2>4. <<e>> \in Seq(R) /\ Len(<<e>>) = 1 /\ <<e>>[1] = e
    OBVIOUS
  <2> HIDE DEF a, b, n
  <2>5. /\ c \in Seq(R) /\ Len(c) = k + 1
        /\ \A h \in 1 .. k + 1 : c[h] = IF h <= k THEN a[h] ELSE e
    <3>1. c = Append(a, e)
      BY <2>2, AppendIsConcat
    <3>2. Append(a, e) \in Seq(R) /\ Len(Append(a, e)) = k + 1 /\ Append(a, e)[k + 1] = e
          /\ \A h \in 1 .. k : Append(a, e)[h] = a[h]
      BY <2>2, AppendProperties
    <3> HIDE DEF c
    <3>3. \A h \in 1 .. k + 1 : h <= k => h \in 1 .. k
      BY <1>0
    <3>4. \A h \in 1 .. k + 1 : ~ (h <= k) => h = k + 1
      BY <1>0
    <3> QED BY <3>1, <3>2, <3>3, <3>4
  <2> HIDE DEF c
  <2>6. /\ t \in Seq(R) /\ Len(t) = n + 1
        /\ \A h \in 1 .. n + 1 : t[h] = IF h <= k + 1 THEN c[h] ELSE b[h - (k + 1)]
    <3>1. /\ c \o b \in Seq(R) /\ Len(c \o b) = Len(c) + Len(b)
          /\ \A h \in 1 .. Len(c) + Len(b) : (c \o b)[h] = IF h <= Len(c) THEN c[h] ELSE b[h - Len(c)]
      BY <2>3, <2>5, ConcatProperties
    <3>2. Len(c) + Len(b) = n + 1
      BY <1>0, <2>3, <2>5
    <3> QED BY <2>5, <3>1, <3>2
  <2> HIDE DEF t
  <2>7. ASSUME NEW h \in 1 .. n + 1
        PROVE  t[h] = IF h <= k THEN s[h] ELSE IF h = k + 1 THEN e ELSE s[h - 1]
    <3>1. CASE h <= k + 1
      <4>1. h \in 1 .. k + 1 /\ t[h] = c[h]
        BY <2>6, <3>1
      <4>2. t[h] = IF h <= k THEN a[h] ELSE e
        BY <2>5, <4>1
      <4>3. h <= k => a[h] = s[h]
        BY <1>0, <2>2
      <4>4. ~ (h <= k) => h = k + 1
        BY <1>0, <3>1
      <4> QED BY <4>2, <4>3, <4>4
    <3>2. CASE ~ (h <= k + 1)
      <4>1. h - (k + 1) \in 1 .. n - k /\ k + (h - (k + 1)) = h - 1
        BY <1>0, <3>2
      <4>2. t[h] = b[h - (k + 1)]
        BY <2>6, <3>2
      <4>3. b[h - (k + 1)] = s[h - 1]
        BY <2>3, <4>1
      <4> QED BY <1>0, <3>2, <4>2, <4>3
    <3> QED BY <3>1, <3>2
  <2> QED BY <2>1, <2>6, <2>7 DEF n
<1> QED BY <1>1, <1>2

\* A log that begins with another: what was left of that is where it goes on.
LEMMA OutputGoesOn ==
  ASSUME NEW l, Logged(l), NEW x, Logged(x), Len(l) <= Len(x),
         \A i \in 1 .. Len(l) : x[i] = l[i]
  PROVE  \E g : /\ Runs(g, x) /\ g[Len(l)] = Output(l) /\ g[Len(x)] = Output(x)
                /\ \A i \in 0 .. Len(x) : g[i] \in Seq(Shows(x))
<1> DEFINE n == Len(l)
<1>1. PICK f : Runs(f, l) /\ Output(l) = f[n]
  BY OutputRuns
<1>2. PICK g : /\ Runs(g, x) /\ Output(x) = g[Len(x)]
               /\ \A i \in 0 .. Len(x) : g[i] \in Seq(Shows(x))
  BY OutputRuns
<1>3. n \in Nat /\ Len(x) \in Nat /\ \A i \in 1 .. n : i \in 1 .. Len(x)
  BY DEF Logged
<1>4. /\ f[0] = <<>> /\ \A i \in 1 .. n : f[i] = NextOutput(l[i], f[i - 1])
      /\ g[0] = <<>> /\ \A i \in 1 .. n : g[i] = NextOutput(l[i], g[i - 1])
  BY <1>1, <1>2, <1>3 DEF Runs
<1> HIDE DEF n
<1> DEFINE G == [i \in 0 .. n |-> {f[i]}]
<1>5. \A i \in 0 .. n : G[i] = {f[i]}
  OBVIOUS
<1> HIDE DEF G
<1>6. \A i \in 1 .. n : i \in 0 .. n /\ i - 1 \in 0 .. n
  BY <1>3
<1>7. g[0] \in G[0]
  BY <1>3, <1>4, <1>5
<1>8. ASSUME NEW i \in 1 .. n, g[i - 1] \in G[i - 1] PROVE g[i] \in G[i]
  <2>1. g[i - 1] = f[i - 1]
    BY <1>5, <1>6, <1>8
  <2> QED BY <1>4, <1>5, <1>6, <2>1
<1>9. \A i \in 0 .. n : g[i] \in G[i]
  BY <1>3, <1>7, <1>8, Reached
<1>10. g[n] = f[n]
  BY <1>3, <1>5, <1>9
<1> QED BY <1>1, <1>2, <1>10 DEF n

\* An event with a new number keeps the order.
LEMMA AppendInOrder ==
  ASSUME NEW t \in Seq(Records), InOrder(t), NEW n \in Nat,
         \A k \in 1 .. Len(t) : t[k].id \in -n .. n,
         NEW e \in Records, e.id = n + 1
  PROVE  /\ InOrder(Append(t, e))
         /\ \A k \in 1 .. Len(Append(t, e)) : Append(t, e)[k].id \in -(n + 1) .. n + 1
<1> DEFINE m == Len(t)
           u == Append(t, e)
<1>1. m \in Nat /\ Len(u) = m + 1 /\ u[m + 1] = e /\ \A k \in 1 .. m : u[k] = t[k]
  BY AppendProperties
<1>2. /\ \A k \in 1 .. m : t[k].id \in -n .. n
      /\ \A i, j \in 1 .. m : i < j => t[i].id # t[j].id
      /\ \A i, j \in 1 .. m : i < j /\ 0 < t[i].id /\ 0 < t[j].id => t[i].id < t[j].id
  BY DEF InOrder
<1> HIDE DEF m, u
<1>3. \A k \in 1 .. m + 1 : k \in 1 .. m \/ k = m + 1
  BY <1>1
<1>4. ASSUME NEW i \in 1 .. m + 1, NEW j \in 1 .. m + 1, i < j
      PROVE  u[i].id # u[j].id /\ (0 < u[i].id /\ 0 < u[j].id => u[i].id < u[j].id)
  <2>1. i \in 1 .. m
    BY <1>1, <1>4
  <2>2. CASE j \in 1 .. m
    BY <1>1, <1>2, <1>4, <2>1, <2>2
  <2>3. CASE j = m + 1
    <3>1. u[j].id = n + 1 /\ u[i].id \in -n .. n
      BY <1>1, <1>2, <2>1, <2>3
    <3> QED BY <3>1
  <2> QED BY <1>3, <2>2, <2>3
<1>5. ASSUME NEW k \in 1 .. m + 1 PROVE u[k].id \in -(n + 1) .. n + 1
  <2>1. CASE k \in 1 .. m
    <3>1. u[k].id \in -n .. n
      BY <1>1, <1>2, <2>1
    <3> QED BY <3>1
  <2>2. CASE k = m + 1
    BY <1>1, <2>2
  <2> QED BY <1>3, <2>1, <2>2
<1>6. InOrder(u)
  BY <1>1, <1>4 DEF InOrder
<1> QED BY <1>1, <1>5, <1>6 DEF u

\* The ids of what is shown of a log.
LEMMA ShownIds ==
  ASSUME NEW l, Logged(l)
  PROVE  /\ Output(l) \in Seq(Records) /\ Len(Output(l)) \in Nat
         /\ \A k \in 1 .. Len(Output(l)) : /\ Output(l)[k] \in Records
                                           /\ Output(l)[k].id \in -Len(l) .. Len(l)
                                           /\ 0 < Output(l)[k].id <=> Output(l)[k] \in Elements(l)
<1> DEFINE out == Output(l)
<1>1. out \in Seq(Shows(l)) /\ Shows(l) \subseteq Records
  BY OutputIs DEF Shows
<1> HIDE DEF out
<1>2. /\ out \in Seq(Records) /\ Len(out) \in Nat
      /\ \A k \in 1 .. Len(out) : out[k] \in Shows(l) /\ out[k] \in Records
  BY <1>1
<1>3. \A i \in 1 .. Len(l) : l[i].id = i
  BY DEF Logged, Placed
<1>4. Len(l) \in Nat /\ DOMAIN l = 1 .. Len(l)
  BY DEF Logged
<1>5. ASSUME NEW r \in Shows(l) PROVE r.id \in -Len(l) .. Len(l) /\ (0 < r.id <=> r \in Elements(l))
  <2>1. r.id \in -Len(l) .. Len(l)
    BY ShowsIs
  <2>2. CASE r \in Elements(l)
    BY <1>3, <1>4, <2>1, <2>2 DEF Elements
  <2>3. CASE r \notin Elements(l)
    BY <1>4, <2>1, <2>3 DEF Shows, Records
  <2> QED BY <2>1, <2>2, <2>3
<1> QED BY <1>2, <1>5 DEF out

\* What a step without condensation adds to what is shown.
LEMMA OutputExtends ==
  ASSUME NEW l, Logged(l), InOrder(Output(l)), NEW s, Follows(l, s)
  PROVE  LET x == Extend(l, s)
         IN  /\ InOrder(Output(x))
             /\ Elements(Output(x)) =
                  Elements(Output(l)) \cup
                  {x[k] : k \in {h \in Len(l) + 1 .. Len(l) + Len(s) : x[h].kind \in Convertible}}
<1> DEFINE n == Len(l)
           m == Len(s)
           x == Extend(l, s)
<1>1. /\ Logged(x) /\ Len(x) = n + m /\ n \in Nat /\ m \in Nat
      /\ \A i \in 1 .. n : x[i] = l[i]
      /\ \A k \in 1 .. m : x[n + k].kind # "condensation"
  <2>1. /\ Logged(x) /\ Len(x) = n + m /\ n \in Nat /\ m \in Nat
        /\ \A i \in 1 .. n : x[i] = l[i]
        /\ \A k \in 1 .. m : /\ x[n + k].kind # "condensation"
                             /\ x[n + k].kind = s[k].kind /\ x[n + k].call = s[k].call
                             /\ x[n + k].batch = s[k].batch
                             /\ x[n + k].thinking = s[k].thinking
    BY ExtendIs
  <2> QED BY <2>1
<1> HIDE DEF x
<1> DEFINE E == Elements(Output(l))
           New(i) == {x[k] : k \in {h \in n + 1 .. n + i : x[h].kind \in Convertible}}
           H(i) == {t \in Seq(Records) : /\ InOrder(t) /\ Elements(t) = E \cup New(i)
                                         /\ \A k \in 1 .. Len(t) : t[k].id \in -(n + i) .. n + i}
<1>2. \A k \in 1 .. n + m : x[k] \in Records /\ x[k].id = k
  BY <1>1 DEF Logged, Placed
<1>3. PICK g : Runs(g, x) /\ g[n] = Output(l) /\ g[n + m] = Output(x)
  <2>1. Len(l) <= Len(x) /\ \A i \in 1 .. Len(l) : x[i] = l[i]
    BY <1>1
  <2>2. \E g : /\ Runs(g, x) /\ g[Len(l)] = Output(l) /\ g[Len(x)] = Output(x)
              /\ \A i \in 0 .. Len(x) : g[i] \in Seq(Shows(x))
    BY <1>1, <2>1, OutputGoesOn
  <2> QED BY <1>1, <2>2
<1>4. \A k \in 1 .. n + m : g[k] = NextOutput(x[k], g[k - 1])
  BY <1>1, <1>3 DEF Runs
<1> DEFINE f == [i \in 0 .. m |-> g[n + i]]
           G == [i \in 0 .. m |-> H(i)]
<1>5. f[0] \in G[0]
  <2>1. 0 \in 0 .. m /\ n + 0 = n /\ n + 1 .. n + 0 = {}
    BY <1>1
  <2>2. New(0) = {}
    BY <2>1
  <2>3. f[0] = Output(l) /\ G[0] = H(0)
    BY <1>3, <2>1
  <2> HIDE DEF New, f, G
  <2>4. Output(l) \in H(0)
    BY <2>1, <2>2, ShownIds
  <2> QED BY <2>3, <2>4
<1>6. ASSUME NEW i \in 1 .. m, f[i - 1] \in G[i - 1] PROVE f[i] \in G[i]
  <2>1. i - 1 \in 0 .. m /\ i \in 0 .. m /\ n + i \in 1 .. n + m /\ n + (i - 1) = n + i - 1
    BY <1>1
  <2> DEFINE t == g[n + i - 1]
             e == x[n + i]
             p == n + i - 1
  <2>2. f[i - 1] = t /\ G[i - 1] = H(i - 1) /\ f[i] = g[n + i] /\ G[i] = H(i)
    BY <2>1
  <2>3. /\ t \in Seq(Records) /\ InOrder(t) /\ Elements(t) = E \cup New(i - 1)
        /\ \A k \in 1 .. Len(t) : t[k].id \in -p .. p
    <3>1. t \in H(i - 1)
      BY <1>6, <2>2
    <3> QED BY <2>1, <3>1
  <2>4. /\ e \in Records /\ e.id = p + 1 /\ p \in Nat /\ e.kind # "condensation" /\ n + i = p + 1
    BY <1>1, <1>2, <2>1
  <2>5. New(i) = New(i - 1) \cup (IF e.kind \in Convertible THEN {e} ELSE {})
    <3>1. n + 1 .. n + i = (n + 1 .. n + (i - 1)) \cup {n + i}
      <4>1. n \in Nat /\ i \in Nat /\ 1 <= i
        BY <1>1
      <4>2. \A k : k \in n + 1 .. n + i <=> k \in n + 1 .. n + (i - 1) \/ k = n + i
        BY <4>1
      <4> QED BY <4>2
    <3> QED BY <3>1
  <2>6. g[n + i] = IF e.kind \in Convertible THEN Append(t, e) ELSE t
    BY <1>4, <2>1, <2>4 DEF NextOutput
  <2> HIDE DEF f, G, New, E, t, e, p
  <2>7. CASE e.kind \in Convertible
    <3>1. /\ InOrder(Append(t, e))
          /\ \A k \in 1 .. Len(Append(t, e)) : Append(t, e)[k].id \in -(p + 1) .. p + 1
      BY <2>3, <2>4, AppendInOrder
    <3>2. Append(t, e) \in Seq(Records) /\ Elements(Append(t, e)) = Elements(t) \cup {e}
      BY <2>3, <2>4, AppendElements
    <3>3. Elements(Append(t, e)) = E \cup New(i)
      BY <2>3, <2>5, <2>7, <3>2
    <3>4. Append(t, e) \in H(i)
      BY <2>4, <3>1, <3>2, <3>3
    <3> QED BY <2>2, <2>6, <2>7, <3>4
  <2>8. CASE e.kind \notin Convertible
    <3>1. \A k \in 1 .. Len(t) : t[k].id \in -(n + i) .. n + i
      <4>1. -p .. p \subseteq -(n + i) .. n + i
        BY <2>4
      <4> QED BY <2>3, <4>1
    <3>2. Elements(t) = E \cup New(i)
      BY <2>3, <2>5, <2>8
    <3>3. t \in H(i)
      BY <2>3, <3>1, <3>2
    <3> QED BY <2>2, <2>6, <2>8, <3>3
  <2> QED BY <2>7, <2>8
<1>7. \A i \in 0 .. m : f[i] \in G[i]
  <2> HIDE DEF f, G
  <2> QED BY <1>1, <1>5, <1>6, Reached
<1>8. Output(x) \in H(m)
  <2>1. m \in 0 .. m
    BY <1>1
  <2>2. f[m] = Output(x) /\ G[m] = H(m)
    BY <1>3, <2>1
  <2> HIDE DEF f, G
  <2> QED BY <1>7, <2>1, <2>2
<1> HIDE DEF E
<1>9. InOrder(Output(x)) /\ Elements(Output(x)) = E \cup New(m)
  BY <1>8
<1> QED BY <1>9 DEF E, x

\* A step without condensation keeps what belongs together together: a new batch is shown, and
\* so is a result, whose action was.
LEMMA FollowsKeeps ==
  ASSUME NEW l, Kept(l), NEW s, Follows(l, s)
  PROVE  Kept(Extend(l, s))
<1> DEFINE n == Len(l)
           m == Len(s)
           x == Extend(l, s)
<1>1. /\ Logged(x) /\ Len(x) = n + m /\ n \in Nat /\ m \in Nat
      /\ \A i \in 1 .. n : x[i] = l[i]
      /\ \A k \in 1 .. m : /\ x[n + k].kind # "condensation"
                           /\ x[n + k].kind = s[k].kind /\ x[n + k].call = s[k].call
                           /\ x[n + k].batch = s[k].batch
                           /\ x[n + k].thinking = s[k].thinking
  BY ExtendIs DEF Kept
<1> DEFINE E == Elements(Output(l))
           F == Elements(Output(x))
           New == {x[k] : k \in {h \in n + 1 .. n + m : x[h].kind \in Convertible}}
<1>2. InOrder(Output(x)) /\ F = E \cup New
  <2>1. Logged(l) /\ InOrder(Output(l))
    BY DEF Kept
  <2>2. /\ InOrder(Output(Extend(l, s)))
        /\ Elements(Output(Extend(l, s))) =
             Elements(Output(l)) \cup
             {Extend(l, s)[k] : k \in {h \in Len(l) + 1 .. Len(l) + Len(s) :
                                         Extend(l, s)[h].kind \in Convertible}}
    BY <2>1, OutputExtends
  <2> QED BY <2>2
<1> HIDE DEF x, E, F
<1>3. /\ \A k \in 1 .. n + m : x[k] \in Records /\ x[k].id = k
      /\ DOMAIN x = 1 .. n + m /\ DOMAIN l = 1 .. n
  BY <1>1 DEF Kept, Logged, Placed
<1>4. ASSUME NEW i \in 1 .. n PROVE l[i] \in F <=> l[i] \in E
  <2>1. l[i].id = i /\ i \in 1 .. n + m
    BY <1>1, <1>3
  <2>2. \A z \in New : z.id > n
    BY <1>1, <1>3
  <2>3. l[i] \notin New
    BY <2>1, <2>2
  <2> HIDE DEF New
  <2> QED BY <1>2, <2>3
<1>5. ASSUME NEW i \in n + 1 .. n + m, IsAction(x[i]) \/ IsResult(x[i]) PROVE x[i] \in F
  <2>1. x[i].kind \in Convertible
    BY <1>5 DEF IsAction, IsResult, Convertible
  <2>2. x[i] \in New
    BY <2>1
  <2> HIDE DEF New
  <2> QED BY <1>2, <2>2
<1> HIDE DEF New
<1>6. ASSUME NEW z \in Elements(x)
      PROVE  \/ \E i \in 1 .. n : z = l[i] /\ z = x[i]
             \/ \E k \in 1 .. m : z = x[n + k]
  <2>1. PICK i \in 1 .. n + m : z = x[i]
    BY <1>3 DEF Elements
  <2>2. CASE i <= n
    BY <1>1, <2>1, <2>2
  <2>3. CASE ~ (i <= n)
    <3>1. i - n \in 1 .. m /\ n + (i - n) = i
      BY <1>1, <2>3
    <3> QED BY <2>1, <3>1
  <2> QED BY <2>2, <2>3
<1>7. ASSUME NEW k \in 1 .. m
      PROVE  /\ n + k \in n + 1 .. n + m /\ n + k \in 1 .. n + m
             /\ IsAction(x[n + k]) <=> IsAction(s[k])
             /\ IsResult(x[n + k]) <=> IsResult(s[k])
  BY <1>1 DEF IsAction, IsResult
<1>8. /\ \A i \in 1 .. n : IsAction(l[i]) => l[i].batch \in 1 .. i /\ (l[i].thinking => l[i].batch = i)
      /\ \A i, j \in 1 .. n :
           IsAction(l[i]) /\ IsAction(l[j]) /\ l[i].batch < l[j].batch => i < l[j].batch
      /\ \A i \in 1 .. n : IsAction(l[i]) => l[i].call \in Nat /\ l[i].call <= n
  <2>1. Batched(l) /\ Logged(l)
    BY DEF Kept
  <2>2. \A i \in 1 .. n : l[i].call \in Nat
    <3>1. l \in Seq(Records)
      BY <2>1 DEF Logged
    <3>2. \A i \in 1 .. n : l[i] \in Records
      BY <3>1
    <3> QED BY <3>2 DEF Records
  <2> QED BY <2>1, <2>2 DEF Batched, Logged, CallsOnce
<1>9. ASSUME NEW k \in 1 .. m, IsAction(x[n + k])
      PROVE  /\ x[n + k].batch = n + 1 /\ (x[n + k].thinking => k = 1)
             /\ x[n + k].call \in n + 1 .. n + m
  <2>1. s[k].batch = n + 1 /\ (s[k].thinking => k = 1)
    BY <1>7, <1>9 DEF Follows
  <2>2. s[k].call \in n + 1 .. n + m
    BY <1>7, <1>9 DEF Follows, Fits
  <2> QED BY <1>1, <2>1, <2>2
<1>10. Batched(x)
  <2>1. ASSUME NEW i \in 1 .. n + m, IsAction(x[i])
        PROVE  x[i].batch \in 1 .. i /\ (x[i].thinking => x[i].batch = i)
    <3>1. CASE i \in 1 .. n
      BY <1>1, <1>8, <2>1, <3>1
    <3>2. CASE i \notin 1 .. n
      <4>1. PICK k \in 1 .. m : i = n + k
        <5>1. i - n \in 1 .. m /\ i = n + (i - n)
          BY <1>1, <3>2
        <5> QED BY <5>1
      <4> QED BY <1>1, <1>9, <2>1, <4>1
    <3> QED BY <3>1, <3>2
  <2>2. ASSUME NEW i \in 1 .. n + m, NEW j \in 1 .. n + m,
               IsAction(x[i]), IsAction(x[j]), x[i].batch < x[j].batch
        PROVE  i < x[j].batch
    <3>1. \A h \in 1 .. n + m : h \in 1 .. n \/ \E k \in 1 .. m : h = n + k
      <4> TAKE h \in 1 .. n + m
      <4>1. h \in 1 .. n \/ (h - n \in 1 .. m /\ h = n + (h - n))
        BY <1>1
      <4> QED BY <4>1
    <3>2. CASE j \in 1 .. n
      <4>1. x[j] = l[j] /\ l[j].batch \in 1 .. j
        BY <1>1, <1>8, <2>2, <3>2
      <4>2. i \in 1 .. n
        <5>1. ASSUME NEW k \in 1 .. m, i = n + k PROVE FALSE
          <6>1. x[i].batch = n + 1
            BY <1>9, <2>2, <5>1
          <6> QED BY <1>1, <2>2, <3>2, <4>1, <6>1
        <5> QED BY <3>1, <5>1
      <4>3. x[i] = l[i]
        BY <1>1, <4>2
      <4> QED BY <1>8, <2>2, <3>2, <4>1, <4>2, <4>3
    <3>3. ASSUME NEW k \in 1 .. m, j = n + k PROVE i < x[j].batch
      <4>1. x[j].batch = n + 1
        BY <1>9, <2>2, <3>3
      <4>2. i \in 1 .. n
        <5>1. ASSUME NEW h \in 1 .. m, i = n + h PROVE FALSE
          <6>1. x[i].batch = n + 1
            BY <1>9, <2>2, <5>1
          <6> QED BY <1>1, <2>2, <4>1, <6>1
        <5> QED BY <3>1, <5>1
      <4> QED BY <1>1, <4>1, <4>2
    <3> QED BY <3>1, <3>2, <3>3
  <2> QED BY <1>1, <2>1, <2>2 DEF Batched
<1>11. WholeOrHidden(x)
  <2> SUFFICES ASSUME NEW a \in Elements(x), NEW y \in Elements(x), Together(a, y)
               PROVE  a \in F <=> y \in F
    BY DEF WholeOrHidden, F
  <2>0. /\ IsAction(a)
        /\ \/ IsAction(y) /\ y.batch = a.batch
           \/ IsResult(y) /\ y.call = a.call
    BY DEF Together
  <2>1. CASE \E k \in 1 .. m : a = x[n + k]
    <3>1. PICK k \in 1 .. m : a = x[n + k]
      BY <2>1
    <3>2. a \in F /\ a.batch = n + 1 /\ a.call \in n + 1 .. n + m
      BY <1>5, <1>7, <1>9, <2>0, <3>1
    <3>3. CASE \E h \in 1 .. m : y = x[n + h]
      <4>1. y \in F
        BY <1>5, <1>7, <2>0, <3>3
      <4> QED BY <3>2, <4>1
    <3>4. ASSUME NEW j \in 1 .. n, y = l[j] PROVE FALSE
      <4>1. CASE IsAction(y)
        <5>1. y.batch \in 1 .. j /\ y.batch = a.batch
          BY <1>8, <2>0, <3>4, <4>1 DEF IsAction, IsResult, ResultKinds
        <5> QED BY <1>1, <3>2, <5>1
      <4>2. CASE IsResult(y)
        <5>1. PICK i \in 1 .. j - 1 : IsAction(l[i]) /\ l[i].call = l[j].call
          BY <3>4, <4>2 DEF Kept, Logged, Answers
        <5>2. i \in 1 .. n
          BY <1>1
        <5>3. y.call = a.call
          BY <2>0, <4>2 DEF IsAction, IsResult, ResultKinds
        <5> QED BY <1>1, <1>8, <3>2, <3>4, <5>1, <5>2, <5>3
      <4> QED BY <2>0, <4>1, <4>2
    <3> QED BY <1>6, <3>3, <3>4
  <2>2. ASSUME NEW i \in 1 .. n, a = l[i] PROVE a \in F <=> y \in F
    <3>1. a \in F <=> a \in E
      BY <1>4, <2>2
    <3>2. ASSUME NEW j \in 1 .. n, y = l[j] PROVE a \in F <=> y \in F
      <4>1. y \in F <=> y \in E
        BY <1>4, <3>2
      <4>2. a \in Elements(l) /\ y \in Elements(l)
        BY <1>3, <2>2, <3>2 DEF Elements
      <4>3. a \in E <=> y \in E
        BY <4>2 DEF Kept, WholeOrHidden, E
      <4> QED BY <3>1, <4>1, <4>3
    <3>3. ASSUME NEW k \in 1 .. m, y = x[n + k] PROVE a \in F <=> y \in F
      <4>1. y \in F
        BY <1>5, <1>7, <2>0, <3>3
      <4>2. ~ IsAction(y)
        <5> SUFFICES ASSUME IsAction(y) PROVE FALSE
          OBVIOUS
        <5>1. y.batch = n + 1
          BY <1>9, <3>3
        <5>2. y.batch = a.batch
          BY <2>0 DEF IsAction, IsResult, ResultKinds
        <5>3. a.batch \in 1 .. i
          BY <1>8, <2>0, <2>2
        <5> QED BY <1>1, <5>1, <5>2, <5>3
      <4>3. IsResult(s[k]) /\ a.call = s[k].call
        BY <1>1, <1>7, <2>0, <3>3, <4>2
      <4>4. a \in Actions(Elements(l))
        BY <1>3, <2>0, <2>2 DEF Elements, Actions
      <4>5. a \in E
        BY <4>3, <4>4 DEF Follows, E
      <4> QED BY <3>1, <4>1, <4>5
    <3> QED BY <1>6, <3>2, <3>3
  <2> QED BY <1>6, <2>1, <2>2
<1>12. PendingShown(x)
  <2> SUFFICES ASSUME NEW a \in Actions(Elements(x)), ResultsOf(a, Elements(x)) = {}
               PROVE  a \in F
    BY DEF PendingShown, F
  <2>0. a \in Elements(x) /\ IsAction(a)
    BY DEF Actions
  <2>1. CASE \E k \in 1 .. m : a = x[n + k]
    BY <1>5, <1>7, <2>0, <2>1
  <2>2. ASSUME NEW i \in 1 .. n, a = l[i] PROVE a \in F
    <3>1. a \in Actions(Elements(l))
      BY <1>3, <2>0, <2>2 DEF Elements, Actions
    <3>2. Elements(l) \subseteq Elements(x)
      <4>1. \A h \in 1 .. n : h \in 1 .. n + m
        BY <1>1
      <4> QED BY <1>1, <1>3, <4>1 DEF Elements
    <3>3. ResultsOf(a, Elements(l)) = {}
      BY <3>2 DEF ResultsOf
    <3>4. a \in E
      BY <3>1, <3>3 DEF Kept, PendingShown, E
    <3> QED BY <1>4, <2>2, <3>4
  <2> QED BY <1>6, <2>0, <2>1, <2>2
<1> QED BY <1>1, <1>2, <1>10, <1>11, <1>12 DEF Kept, x

\* Nothing is pending: every action has a result.
LEMMA NonePending ==
  ASSUME NEW l, Logged(l)
  PROVE  Pending(l) = <<>> <=> \A x \in Actions(Elements(l)) : ResultsOf(x, Elements(l)) # {}
<1> DEFINE S == {a \in Actions(Elements(l)) : ResultsOf(a, Elements(l)) = {}}
           p == Only(l, S)
<1>1. p \in Seq(Records) /\ Elements(p) = Elements(l) \cap S
  BY OnlyIs DEF Logged
<1>2. Pending(l) = p
  BY DEF Pending
<1>3. S \subseteq Elements(l)
  BY DEF Actions
<1>4. S = {} <=> \A x \in Actions(Elements(l)) : ResultsOf(x, Elements(l)) # {}
  OBVIOUS
<1> HIDE DEF p, S
<1>5. p = <<>> <=> Elements(p) = {}
  BY <1>1 DEF Elements
<1> QED BY <1>1, <1>2, <1>3, <1>4, <1>5

\* Then nothing that is left after the condensations is kept from the LLM.
LEMMA NothingHidden ==
  ASSUME NEW l, Kept(l), Pending(l) = <<>>
  PROVE  FromEvents(l) = Output(l) /\ Shown(l) = Elements(Output(l))
<1> DEFINE out == Output(l)
           all == Elements(l)
           E == Elements(Output(l))
<1>1. out \in Seq(Shows(l)) /\ Logged(l)
  BY OutputIs DEF Kept
<1>2. \A z \in E : z \in Shows(l)
  <2> HIDE DEF out
  <2>1. \A z \in Elements(out) : z \in Shows(l)
    BY <1>1 DEF Elements
  <2> QED BY <2>1 DEF out
<1>3. \A z \in E : IsAction(z) \/ IsResult(z) => z \in all
  BY <1>2 DEF Shows, IsAction, IsResult, ResultKinds
<1>4. \A x, y \in all : Together(x, y) => (x \in E <=> y \in E)
  BY DEF Kept, WholeOrHidden
<1>5. \A x \in Actions(all) : ResultsOf(x, all) # {}
  BY <1>1, NonePending
<1> HIDE DEF out, E
<1>6. Whole(E, all) = E
  <2>1. ASSUME NEW e \in E, IsAction(e), NEW b \in BatchOf(e, all) PROVE b \in E
    <3>1. e \in all /\ b \in all /\ Together(e, b)
      BY <1>3, <2>1 DEF BatchOf, Actions, Together
    <3> QED BY <1>4, <3>1
  <2> QED BY <2>1 DEF Whole
<1>7. Paired(E) = E
  <2>1. ASSUME NEW e \in E, IsAction(e) PROVE ResultsOf(e, E) # {}
    <3>1. e \in Actions(all)
      BY <1>3, <2>1 DEF Actions
    <3>2. PICK r \in ResultsOf(e, all) : TRUE
      BY <1>5, <3>1
    <3>3. r \in all /\ e \in all /\ Together(e, r) /\ IsResult(r) /\ r.call = e.call
      BY <1>3, <2>1, <3>2 DEF ResultsOf, Together
    <3>4. r \in E
      BY <1>4, <3>3
    <3> QED BY <3>3, <3>4 DEF ResultsOf
  <2>2. ASSUME NEW e \in E, IsResult(e) PROVE \E a \in Actions(E) : a.call = e.call
    <3>1. e \in all /\ DOMAIN l = 1 .. Len(l) /\ Len(l) \in Nat
      BY <1>1, <1>3, <2>2 DEF Logged
    <3>2. PICK i \in 1 .. Len(l) : e = l[i]
      BY <3>1 DEF Elements
    <3>3. PICK j \in 1 .. i - 1 : IsAction(l[j]) /\ l[j].call = l[i].call
      BY <1>1, <2>2, <3>2 DEF Logged, Answers
    <3>4. l[j] \in all
      <4>1. j \in 1 .. Len(l)
        BY <3>1
      <4> QED BY <3>1, <4>1 DEF Elements
    <3>5. Together(l[j], e)
      BY <2>2, <3>2, <3>3 DEF Together
    <3>6. l[j] \in E
      BY <1>4, <3>1, <3>4, <3>5
    <3> QED BY <3>2, <3>3, <3>6 DEF Actions
  <2> QED BY <2>1, <2>2 DEF Paired
<1>8. WithoutOrphans(E, all) = E
  <2>1. ASSUME NEW e \in E, IsResult(e), NEW a \in Actions(all), a.call = e.call PROVE a \in E
    <3>1. e \in all /\ a \in all /\ Together(a, e)
      BY <1>3, <2>1 DEF Actions, Together
    <3> QED BY <1>4, <3>1
  <2> QED BY <2>1 DEF WithoutOrphans
<1>9. Shown(l) = E
  BY <1>6, <1>7, <1>8 DEF Shown, Filtered, E
<1>10. FromEvents(l) = Only(out, E)
  BY <1>9 DEF FromEvents, out
<1>11. Only(out, E) = out
  <2>1. out \in Seq(Records) /\ Len(out) \in Nat
    BY <1>1, ShownIds DEF out
  <2>2. 0 \in 0 .. Len(out) /\ 0 \in 0 .. Len(out)
    BY <2>1
  <2>3. \A k \in 1 .. Len(out) : out[k] \in E <=> ~ (0 < k /\ k <= 0)
    BY <2>1 DEF E, Elements, out
  <2>4. Only(out, E) = Without(out, 0, 0)
    BY <2>1, <2>2, <2>3, SliceIs
  <2>5. /\ Without(out, 0, 0) \in Seq(Records) /\ Len(Without(out, 0, 0)) = Len(out) - (0 - 0)
        /\ \A k \in 1 .. Len(Without(out, 0, 0)) :
             Without(out, 0, 0)[k] = IF k <= 0 THEN out[k] ELSE out[k + (0 - 0)]
    BY <2>1, <2>2, WithoutIs
  <2>6. /\ Len(Without(out, 0, 0)) = Len(out)
        /\ \A k \in 1 .. Len(out) : Without(out, 0, 0)[k] = out[k]
    BY <2>1, <2>5
  <2>7. Without(out, 0, 0) = out
    BY <2>1, <2>5, <2>6, SeqEqual
  <2> QED BY <2>4, <2>7
<1> QED BY <1>9, <1>10, <1>11 DEF out, E

-----------------------------------------------------------------------------
\* A set of numbers up to a bound has a largest member, and one of numbers a smallest.
LEMMA MaxIs ==
  ASSUME NEW n \in Nat, NEW S, S \subseteq 0 .. n, S # {}
  PROVE  MaxOf(S) \in S /\ \A y \in S : y <= MaxOf(S)
<1> DEFINE T == {n - y : y \in S}
<1>1. T \subseteq Nat /\ T # {}
  <2>1. \A y \in S : n - y \in Nat
    OBVIOUS
  <2> QED BY <2>1
<1>2. PICK t \in T : \A u \in T : t <= u
  <2> HIDE DEF T
  <2> QED BY <1>1, Smallest
<1>3. PICK x \in S : t = n - x
  BY <1>2
<1>4. ASSUME NEW y \in S PROVE y <= x
  <2>1. n - y \in T /\ y \in 0 .. n /\ x \in 0 .. n
    OBVIOUS
  <2> HIDE DEF T
  <2>2. t <= n - y
    BY <1>2, <2>1
  <2> QED BY <1>3, <2>1, <2>2
<1>5. \E z \in S : \A y \in S : y <= z
  BY <1>4
<1> QED BY <1>5 DEF MaxOf

LEMMA MinIs ==
  ASSUME NEW S, S \subseteq Nat, S # {}
  PROVE  MinOf(S) \in S /\ \A y \in S : MinOf(S) <= y
<1>1. \E a \in S : \A b \in S : a <= b
  BY Smallest
<1> QED BY <1>1 DEF MinOf

\* What the unit of a batch spans.
ResultPositions(view, b) ==
  {j \in DOMAIN view : /\ IsResult(view[j])
                       /\ \E i \in Positions(view, b) : view[i].call = view[j].call}
LEMMA UnitIs ==
  ASSUME NEW R, NEW view \in Seq(R), NEW b \in Batches(view)
  PROVE  /\ FirstAt(view, b) \in Positions(view, b)
         /\ \A p \in Positions(view, b) : FirstAt(view, b) <= p
         /\ Positions(view, b) \subseteq 1 .. Len(view)
         /\ LastAt(view, b) \in 1 .. Len(view)
         /\ \A p \in Positions(view, b) \cup ResultPositions(view, b) : p <= LastAt(view, b)
<1>1. Len(view) \in Nat /\ DOMAIN view = 1 .. Len(view)
  OBVIOUS
<1>2. PICK e \in Actions(Elements(view)) : b = e.batch
  BY DEF Batches
<1>3. PICK i \in DOMAIN view : e = view[i]
  BY DEF Actions, Elements
<1>4. i \in Positions(view, b)
  BY <1>2, <1>3 DEF Positions, Actions
<1> DEFINE P == Positions(view, b)
           Q == P \cup ResultPositions(view, b)
<1>5. P # {} /\ P \subseteq 1 .. Len(view) /\ Q # {} /\ Q \subseteq 1 .. Len(view)
  BY <1>1, <1>4 DEF Positions, ResultPositions
<1>6. FirstAt(view, b) = MinOf(P) /\ LastAt(view, b) = MaxOf(Q)
  BY DEF FirstAt, LastAt, ResultPositions
<1> HIDE DEF P, Q
<1>7. MinOf(P) \in P /\ \A y \in P : MinOf(P) <= y
  <2>1. P \subseteq Nat
    BY <1>1, <1>5
  <2> QED BY <1>5, <2>1, MinIs
<1>8. MaxOf(Q) \in Q /\ \A y \in Q : y <= MaxOf(Q)
  <2>1. Q \subseteq 0 .. Len(view)
    BY <1>1, <1>5
  <2> QED BY <1>1, <1>5, <2>1, MaxIs
<1>9. MaxOf(Q) \in 1 .. Len(view)
  BY <1>5, <1>8
<1> QED BY <1>5, <1>6, <1>7, <1>8, <1>9 DEF P, Q

\* The batches of a tool loop: the loop ends where the last of them does.
LEMMA LoopIs ==
  ASSUME NEW R, NEW view \in Seq(R), NEW b \in Batches(view)
  PROVE  LET ends == {LastAt(view, c) : c \in {x \in Batches(view) : InLoop(view, b, x)}}
         IN  /\ MaxOf(ends) \in 1 .. Len(view)
             /\ \A c \in Batches(view) : InLoop(view, b, c) => LastAt(view, c) <= MaxOf(ends)
<1> DEFINE ends == {LastAt(view, c) : c \in {x \in Batches(view) : InLoop(view, b, x)}}
<1>1. Len(view) \in Nat
  OBVIOUS
<1>2. \A c \in Batches(view) : FirstAt(view, c) \in 1 .. Len(view) /\ LastAt(view, c) \in 1 .. Len(view)
  BY UnitIs
<1>3. InLoop(view, b, b)
  <2>1. FirstAt(view, b) \in Int
    BY <1>1, <1>2
  <2>2. FirstAt(view, b) <= FirstAt(view, b)
    BY <2>1
  <2>3. ASSUME NEW d \in Batches(view)
        PROVE  ~ (FirstAt(view, b) < FirstAt(view, d) /\ FirstAt(view, d) <= FirstAt(view, b))
    <3>1. FirstAt(view, d) \in Int
      BY <1>1, <1>2
    <3> QED BY <2>1, <3>1
  <2> QED BY <2>2, <2>3 DEF InLoop
<1>4. ends # {} /\ ends \subseteq 1 .. Len(view)
  BY <1>2, <1>3
<1>5. \A c \in Batches(view) : InLoop(view, b, c) => LastAt(view, c) \in ends
  OBVIOUS
<1> HIDE DEF ends
<1>6. MaxOf(ends) \in ends /\ \A y \in ends : y <= MaxOf(ends)
  <2>1. ends \subseteq 0 .. Len(view)
    BY <1>1, <1>4
  <2> QED BY <1>1, <1>4, <2>1, MaxIs
<1>7. MaxOf(ends) \in 1 .. Len(view)
  BY <1>4, <1>6
<1> QED BY <1>5, <1>6, <1>7 DEF ends

\* Units lie within the view, so that its end is a place to cut.
LEMMA CutsAre ==
  ASSUME NEW R, NEW view \in Seq(R)
  PROVE  /\ \A u \in Units(view) : u[1] \in 1 .. Len(view) /\ u[2] \in 1 .. Len(view)
         /\ Cuts(view) \subseteq 0 .. Len(view)
         /\ Len(view) \in Cuts(view)
<1>1. Len(view) \in Nat
  OBVIOUS
<1>2. ASSUME NEW u \in Units(view) PROVE u[1] \in 1 .. Len(view) /\ u[2] \in 1 .. Len(view)
  <2>1. PICK b \in Batches(view) :
          \/ u = <<FirstAt(view, b), LastAt(view, b)>>
          \/ u = <<FirstAt(view, b),
                   MaxOf({LastAt(view, c) : c \in {x \in Batches(view) : InLoop(view, b, x)}})>>
    BY DEF Units
  <2>2. FirstAt(view, b) \in 1 .. Len(view) /\ LastAt(view, b) \in 1 .. Len(view)
    BY UnitIs
  <2>3. MaxOf({LastAt(view, c) : c \in {x \in Batches(view) : InLoop(view, b, x)}}) \in 1 .. Len(view)
    BY LoopIs
  <2> QED BY <2>1, <2>2, <2>3
<1>3. Cuts(view) \subseteq 0 .. Len(view)
  BY DEF Cuts
<1>4. ASSUME NEW u \in Units(view) PROVE ~ (u[1] <= Len(view) /\ Len(view) < u[2])
  <2>1. u[2] \in 1 .. Len(view)
    BY <1>2
  <2> QED BY <1>1, <2>1
<1>5. Len(view) \in Cuts(view)
  <2>1. Len(view) \in 0 .. Len(view)
    BY <1>1
  <2> QED BY <1>4, <2>1 DEF Cuts
<1> QED BY <1>2, <1>3, <1>5

\* No unit is split between two cuts.
LEMMA UnitsStay ==
  ASSUME NEW R, NEW view \in Seq(R), NEW i \in Cuts(view), NEW j \in Cuts(view), i <= j,
         NEW u \in Units(view), NEW p \in u[1] .. u[2], NEW q \in u[1] .. u[2]
  PROVE  (i < p /\ p <= j) <=> (i < q /\ q <= j)
<1>1. u[1] \in Int /\ u[2] \in Int /\ i \in Int /\ j \in Int
  BY CutsAre
<1>2. ~ (u[1] <= i /\ i < u[2]) /\ ~ (u[1] <= j /\ j < u[2])
  BY DEF Cuts
<1> QED BY <1>1, <1>2

\* What belongs together is in one unit: a cut does not separate it.
LEMMA TogetherStay ==
  ASSUME NEW l, Logged(l), InOrder(Output(l)),
         NEW i \in Cuts(Output(l)), NEW j \in Cuts(Output(l)), i <= j,
         NEW p \in 1 .. Len(Output(l)), NEW q \in 1 .. Len(Output(l)),
         Together(Output(l)[p], Output(l)[q])
  PROVE  (i < p /\ p <= j) <=> (i < q /\ q <= j)
<1> DEFINE out == Output(l)
           b == out[p].batch
           u == <<FirstAt(out, b), LastAt(out, b)>>
<1>1. /\ out \in Seq(Records) /\ Len(out) \in Nat
      /\ \A k \in 1 .. Len(out) : out[k] \in Records /\ out[k].id \in -Len(l) .. Len(l)
                                  /\ (0 < out[k].id <=> out[k] \in Elements(l))
  BY ShownIds
<1>2. /\ IsAction(out[p])
      /\ \/ IsAction(out[q]) /\ out[q].batch = out[p].batch
         \/ IsResult(out[q]) /\ out[q].call = out[p].call
  BY DEF Together
<1>3. p \in 1 .. Len(out) /\ q \in 1 .. Len(out) /\ i \in Cuts(out) /\ j \in Cuts(out)
  OBVIOUS
<1>a. InOrder(out) /\ Output(l) = out
  OBVIOUS
<1>b. \A k \in 1 .. Len(out) : out[k] \in Shows(l)
  <2>1. out \in Seq(Shows(l))
    BY OutputIs
  <2> HIDE DEF out
  <2> QED BY <2>1
<1> HIDE DEF out
<1>4. DOMAIN out = 1 .. Len(out)
  BY <1>1
<1>5. p \in Positions(out, b) /\ b \in Batches(out)
  BY <1>2, <1>3, <1>4 DEF Positions, Batches, Actions, Elements
<1>6. /\ FirstAt(out, b) \in Positions(out, b)
      /\ \A h \in Positions(out, b) : FirstAt(out, b) <= h
      /\ Positions(out, b) \subseteq 1 .. Len(out)
      /\ LastAt(out, b) \in 1 .. Len(out)
      /\ \A h \in Positions(out, b) \cup ResultPositions(out, b) : h <= LastAt(out, b)
  BY <1>1, <1>5, UnitIs
<1>7. u \in Units(out)
  BY <1>5 DEF Units
<1>8. FirstAt(out, b) \in Int /\ LastAt(out, b) \in Int
  BY <1>1, <1>6
<1>9. FirstAt(out, b) <= p /\ p <= LastAt(out, b)
  BY <1>5, <1>6
<1>10. FirstAt(out, b) <= q /\ q <= LastAt(out, b)
  <2>1. CASE IsAction(out[q]) /\ out[q].batch = out[p].batch
    <3>1. q \in Positions(out, b)
      BY <1>3, <1>4, <2>1 DEF Positions
    <3> QED BY <1>6, <3>1
  <2>2. CASE IsResult(out[q]) /\ out[q].call = out[p].call
    <3>1. q \in ResultPositions(out, b)
      BY <1>3, <1>4, <1>5, <2>2 DEF ResultPositions
    <3>2. out[p] \in Elements(l) /\ out[q] \in Elements(l)
      BY <1>2, <1>3, <1>b, <2>2 DEF Shows, IsAction, IsResult, ResultKinds
    <3>3. /\ DOMAIN l = 1 .. Len(l) /\ Len(l) \in Nat
          /\ \A h \in 1 .. Len(l) : l[h].id = h
      BY DEF Logged, Placed
    <3>4. PICK g \in 1 .. Len(l), h \in 1 .. Len(l) : out[p] = l[g] /\ out[q] = l[h]
      BY <3>2, <3>3 DEF Elements
    <3>5. PICK k \in 1 .. h - 1 : IsAction(l[k]) /\ l[k].call = l[h].call
      BY <2>2, <3>4 DEF Logged, Answers
    <3>6. k = g
      <4>1. k \in 1 .. Len(l)
        BY <3>3
      <4>2. IsAction(l[g]) /\ l[k].call = l[g].call
        BY <1>2, <2>2, <3>4, <3>5
      <4> QED BY <3>5, <4>1, <4>2 DEF Logged, CallsOnce
    <3>7. 0 < out[p].id /\ out[p].id < out[q].id /\ out[p].id \in Int /\ out[q].id \in Int
      BY <3>3, <3>4, <3>5, <3>6
    <3>8. ~ (q < p)
      BY <1>3, <1>a, <3>7 DEF InOrder
    <3>9. p <= q
      BY <1>3, <3>8
    <3> QED BY <1>3, <1>6, <1>8, <1>9, <3>1, <3>9
  <2> QED BY <1>2, <2>1, <2>2
<1>11. u[1] = FirstAt(out, b) /\ u[2] = LastAt(out, b)
  OBVIOUS
<1>12. p \in u[1] .. u[2] /\ q \in u[1] .. u[2]
  BY <1>3, <1>8, <1>9, <1>10, <1>11
<1> HIDE DEF u
<1> QED BY <1>1, <1>3, <1>7, <1>12, UnitsStay

\* The log with one event more.
LEMMA ExtendOne ==
  ASSUME NEW l, Logged(l), NEW c \in Records, Fits(l, <<c>>)
  PROVE  LET d == [c EXCEPT !.id = Len(l) + 1]
         IN  Extend(l, <<c>>) = Append(l, d) /\ Logged(Append(l, d))
<1> DEFINE d == [c EXCEPT !.id = Len(l) + 1]
           s == <<c>>
<1>1. DOMAIN s = 1 .. 1 /\ s[1] = c /\ \A i \in 1 .. 1 : i = 1
  OBVIOUS
<1> HIDE DEF s
<1>2. Numbered(l, s) = [i \in 1 .. 1 |-> d]
  BY <1>1 DEF Numbered
<1>3. [i \in 1 .. 1 |-> d] = <<d>>
  <2> HIDE DEF d
  <2> QED OBVIOUS
<1>4. d \in Records /\ l \in Seq(Records)
  <2>1. l \in Seq(Records) /\ Len(l) + 1 \in Int
    BY DEF Logged
  <2> QED BY <2>1, Renumbered
<1> HIDE DEF d
<1>5. Extend(l, s) = Append(l, d)
  <2>1. l \o <<d>> = Append(l, d)
    BY <1>4, AppendIsConcat
  <2> QED BY <1>2, <1>3, <2>1 DEF Extend
<1>6. Logged(Extend(l, s))
  BY ExtendKeeps DEF s
<1> QED BY <1>5, <1>6 DEF d, s

\* The order is kept when a slice goes and a summary comes.
LEMMA CutInOrder ==
  ASSUME NEW s \in Seq(Records), InOrder(s), NEW i \in 0 .. Len(s), NEW j \in i .. Len(s)
  PROVE  InOrder(Without(s, i, j))
<1> DEFINE t == Without(s, i, j)
           at(k) == IF k <= i THEN k ELSE k + (j - i)
<1>1. /\ t \in Seq(Records) /\ Len(t) = Len(s) - (j - i)
      /\ \A k \in 1 .. Len(t) : t[k] = IF k <= i THEN s[k] ELSE s[k + (j - i)]
  BY WithoutIs
<1> HIDE DEF t
<1>2. Len(s) \in Nat /\ i \in Nat /\ j \in Nat /\ i <= j /\ j <= Len(s)
  OBVIOUS
<1>3. ASSUME NEW k \in 1 .. Len(t) PROVE at(k) \in 1 .. Len(s) /\ t[k] = s[at(k)]
  BY <1>1, <1>2
<1>4. \A k, h \in 1 .. Len(t) : k < h => at(k) < at(h)
  BY <1>1, <1>2
<1> HIDE DEF at
<1>5. ASSUME NEW k \in 1 .. Len(t), NEW h \in 1 .. Len(t), k < h
      PROVE  t[k].id # t[h].id /\ (0 < t[k].id /\ 0 < t[h].id => t[k].id < t[h].id)
  <2>1. at(k) \in 1 .. Len(s) /\ at(h) \in 1 .. Len(s) /\ at(k) < at(h) /\ t[k] = s[at(k)] /\ t[h] = s[at(h)]
    BY <1>3, <1>4, <1>5
  <2> QED BY <2>1 DEF InOrder
<1> QED BY <1>5 DEF InOrder, t

LEMMA InsertInOrder ==
  ASSUME NEW s \in Seq(Records), InOrder(s), NEW i \in 0 .. Len(s), NEW e \in Records,
         e.id < 0, \A k \in 1 .. Len(s) : s[k].id # e.id
  PROVE  InOrder(InsertAfter(s, i, e))
<1> DEFINE t == InsertAfter(s, i, e)
           n == Len(s)
<1>1. /\ t \in Seq(Records) /\ Len(t) = n + 1
      /\ \A h \in 1 .. n + 1 : t[h] = IF h <= i THEN s[h] ELSE IF h = i + 1 THEN e ELSE s[h - 1]
  BY InsertedIs
<1>2. n \in Nat /\ i \in Nat /\ i <= n /\ e.id \in Int /\ \A k \in 1 .. n : s[k].id # e.id
  BY DEF Records
<1>3. \A k, h \in 1 .. n : k < h => /\ s[k].id # s[h].id
                                    /\ 0 < s[k].id /\ 0 < s[h].id => s[k].id < s[h].id
  BY DEF InOrder
<1> HIDE DEF t, n
<1>4. ASSUME NEW k \in 1 .. n + 1, NEW h \in 1 .. n + 1, k < h
      PROVE  t[k].id # t[h].id /\ (0 < t[k].id /\ 0 < t[h].id => t[k].id < t[h].id)
  <2>1. CASE k = i + 1
    <3>1. t[k] = e /\ t[h] = s[h - 1] /\ h - 1 \in 1 .. n
      BY <1>1, <1>2, <1>4, <2>1
    <3> QED BY <1>2, <3>1
  <2>2. CASE h = i + 1
    <3>1. t[h] = e /\ t[k] = s[k] /\ k \in 1 .. n
      BY <1>1, <1>2, <1>4, <2>2
    <3> QED BY <1>2, <3>1
  <2>3. CASE k # i + 1 /\ h # i + 1
    <3> DEFINE a == IF k <= i THEN k ELSE k - 1
               b == IF h <= i THEN h ELSE h - 1
    <3>1. a \in 1 .. n /\ b \in 1 .. n /\ a < b
      BY <1>2, <1>4, <2>3
    <3>2. t[k] = s[a] /\ t[h] = s[b]
      BY <1>1, <2>3
    <3> HIDE DEF a, b
    <3> QED BY <1>3, <3>1, <3>2
  <2> QED BY <2>1, <2>2, <2>3
<1> QED BY <1>1, <1>4 DEF InOrder, t

\* The elements of a list and the one that is inserted.
LEMMA InsertElements ==
  ASSUME NEW R, NEW s \in Seq(R), NEW k \in 0 .. Len(s), NEW e \in R
  PROVE  Elements(InsertAfter(s, k, e)) = Elements(s) \cup {e}
<1> DEFINE t == InsertAfter(s, k, e)
           n == Len(s)
<1>1. /\ t \in Seq(R) /\ Len(t) = n + 1
      /\ \A h \in 1 .. n + 1 : t[h] = IF h <= k THEN s[h] ELSE IF h = k + 1 THEN e ELSE s[h - 1]
  BY InsertedIs
<1>2. n \in Nat /\ k \in Nat /\ k <= n /\ DOMAIN s = 1 .. n
  OBVIOUS
<1> HIDE DEF t, n
<1>3. DOMAIN t = 1 .. n + 1
  BY <1>1
<1>4. ASSUME NEW z \in Elements(t) PROVE z \in Elements(s) \cup {e}
  <2>1. PICK h \in 1 .. n + 1 : z = t[h]
    BY <1>3 DEF Elements
  <2>2. h <= k => h \in 1 .. n
    BY <1>2
  <2>3. ~ (h <= k) /\ h # k + 1 => h - 1 \in 1 .. n
    BY <1>2
  <2> QED BY <1>1, <1>2, <2>1, <2>2, <2>3 DEF Elements
<1>5. ASSUME NEW z \in Elements(s) PROVE z \in Elements(t)
  <2>1. PICK h \in 1 .. n : z = s[h]
    BY <1>2 DEF Elements
  <2>2. CASE h <= k
    <3>1. h \in 1 .. n + 1 /\ t[h] = s[h]
      BY <1>1, <1>2, <2>2
    <3> QED BY <1>3, <2>1, <3>1 DEF Elements
  <2>3. CASE ~ (h <= k)
    <3> DEFINE g == h + 1
    <3>1. g \in 1 .. n + 1 /\ ~ (g <= k) /\ g # k + 1 /\ g - 1 = h
      BY <1>2, <2>3
    <3> HIDE DEF g
    <3>2. t[g] = s[h]
      BY <1>1, <3>1
    <3> QED BY <1>3, <2>1, <3>1, <3>2 DEF Elements
  <2> QED BY <2>2, <2>3
<1>6. e \in Elements(t)
  <2> DEFINE g == k + 1
  <2>1. g \in 1 .. n + 1 /\ ~ (g <= k) /\ g = k + 1
    BY <1>2
  <2> HIDE DEF g
  <2>2. t[g] = e
    BY <1>1, <2>1
  <2> QED BY <1>3, <2>1, <2>2 DEF Elements
<1> QED BY <1>4, <1>5, <1>6 DEF t

\* The condensation of a slice between two cuts, from a log in which nothing is pending.
Condensation(l, i, j, c) ==
  /\ c \in Records /\ c.kind = "condensation" /\ c.id = Len(l) + 1 /\ c.offset \in {i, -1}
  /\ c.forgets = {Output(l)[k].id : k \in i + 1 .. j}
Condensed(l, i, j, c) ==
  LET kept == Without(Output(l), i, j)
  IN  IF c.offset = -1 THEN kept ELSE InsertAfter(kept, i, SummaryOf(c))

\* What is left of it: the slice goes, the summary comes to stand where it was.
LEMMA OutputCondensed ==
  ASSUME NEW l, Logged(l), InOrder(Output(l)),
         NEW i \in 0 .. Len(Output(l)), NEW j \in i .. Len(Output(l)),
         NEW c, Condensation(l, i, j, c), Logged(Append(l, c))
  PROVE  /\ Output(Append(l, c)) = Condensed(l, i, j, c)
         /\ InOrder(Output(Append(l, c)))
         /\ \A z : z.kind # "summary" =>
              (z \in Elements(Output(Append(l, c)))
                 <=> z \in Elements(Output(l)) /\ z.id \notin c.forgets)
<1> DEFINE out == Output(l)
           x == Append(l, c)
           n == Len(l)
           S == {e \in Elements(out) : e.id \notin c.forgets}
           kept == Without(out, i, j)
           sum == SummaryOf(c)
<1>0. l \in Seq(Records) /\ n \in Nat /\ c \in Records /\ c.kind = "condensation" /\ c.id = n + 1
      /\ c.offset \in {i, -1} /\ c.forgets = {out[k].id : k \in i + 1 .. j}
  BY DEF Condensation, Logged
<1>1. Len(x) = n + 1 /\ x[n + 1] = c /\ \A k \in 1 .. n : x[k] = l[k]
  BY <1>0, AppendProperties
<1>2. /\ out \in Seq(Records) /\ Len(out) \in Nat
      /\ \A k \in 1 .. Len(out) : out[k] \in Records /\ out[k].id \in -n .. n
  BY ShownIds
<1>3. Output(x) = NextOutput(c, out)
  <2> HIDE DEF x
  <2>1. Len(l) <= Len(x) /\ \A k \in 1 .. Len(l) : x[k] = l[k]
    BY <1>0, <1>1
  <2>2. PICK g : /\ Runs(g, x) /\ g[Len(l)] = Output(l) /\ g[Len(x)] = Output(x)
                 /\ \A k \in 0 .. Len(x) : g[k] \in Seq(Shows(x))
    <3>1. Logged(x)
      BY DEF x
    <3> QED BY <2>1, <3>1, OutputGoesOn
  <2>3. n + 1 \in 1 .. Len(x) /\ n + 1 - 1 = n
    BY <1>0, <1>1
  <2>4. g[n + 1] = NextOutput(x[n + 1], g[n + 1 - 1])
    BY <2>2, <2>3 DEF Runs
  <2> QED BY <1>1, <2>2, <2>3, <2>4
<1>4. i \in 0 .. Len(out) /\ j \in i .. Len(out) /\ InOrder(out)
  OBVIOUS
<1> HIDE DEF out, x, n
<1>5. ASSUME NEW k \in 1 .. Len(out) PROVE out[k] \in S <=> ~ (i < k /\ k <= j)
  <2>1. out[k] \in Elements(out)
    BY <1>2 DEF Elements
  <2>2. ASSUME i < k, k <= j PROVE out[k].id \in c.forgets
    <3>1. k \in i + 1 .. j
      BY <1>4, <2>2
    <3> QED BY <1>0, <3>1
  <2>3. ASSUME out[k].id \in c.forgets PROVE i < k /\ k <= j
    <3>1. PICK h \in i + 1 .. j : out[k].id = out[h].id
      BY <1>0, <2>3
    <3>2. h \in 1 .. Len(out)
      BY <1>2, <1>4
    <3>3. ~ (k < h) /\ ~ (h < k)
      BY <1>4, <3>1, <3>2 DEF InOrder
    <3>4. k = h
      BY <3>2, <3>3
    <3> QED BY <1>4, <3>4
  <2> QED BY <2>1, <2>2, <2>3
<1>6. Only(out, S) = kept
  <2> HIDE DEF S
  <2> QED BY <1>2, <1>4, <1>5, SliceIs
<1>7. Forget(out, c.forgets) = kept
  BY <1>6 DEF Forget
<1>8. kept \in Seq(Records) /\ Elements(kept) = S
  <2>1. Only(out, S) \in Seq(Records) /\ Elements(Only(out, S)) = Elements(out) \cap S
    <3> HIDE DEF S
    <3> QED BY <1>2, OnlyIs
  <2> QED BY <1>6, <2>1
<1>9. Len(kept) = Len(out) - (j - i)
  BY <1>2, <1>4, WithoutIs
<1>10. InOrder(kept)
  BY <1>2, <1>4, CutInOrder
<1>11. sum \in Records /\ sum.id = -(n + 1) /\ sum.kind = "summary"
  BY <1>0, SummaryIs
<1> HIDE DEF kept, sum
<1>12. i \in 0 .. Len(kept) /\ i # -1
  BY <1>2, <1>4, <1>9
<1>13. Output(x) = IF c.offset = -1 THEN kept ELSE InsertAfter(kept, i, sum)
  <2>1. Output(x) = Apply(c, out)
    <3>1. c.kind = "condensation"
      BY <1>0
    <3>2. NextOutput(c, out) = Apply(c, out)
      BY <3>1 DEF NextOutput, Convertible, ResultKinds
    <3> QED BY <1>3, <3>2
  <2>2. c.offset # -1 => c.offset = i
    BY <1>0
  <2> QED BY <1>7, <2>1, <2>2 DEF Apply, sum
<1>14. InOrder(Output(x))
  <2>1. ASSUME NEW k \in 1 .. Len(kept) PROVE kept[k].id # sum.id
    <3>1. kept[k] \in Elements(kept)
      BY <1>8 DEF Elements
    <3>2. kept[k] \in Elements(out)
      BY <1>8, <3>1
    <3>3. PICK h \in 1 .. Len(out) : kept[k] = out[h]
      BY <1>2, <3>2 DEF Elements
    <3>4. kept[k].id \in -n .. n
      BY <1>2, <3>3
    <3> QED BY <1>0, <1>11, <3>4
  <2>2. sum.id < 0
    BY <1>0, <1>11
  <2>3. InOrder(InsertAfter(kept, i, sum))
    BY <1>8, <1>10, <1>11, <1>12, <2>1, <2>2, InsertInOrder
  <2> QED BY <1>10, <1>13, <2>3
<1>15. ASSUME NEW z, z.kind # "summary"
       PROVE  z \in Elements(Output(x)) <=> z \in Elements(out) /\ z.id \notin c.forgets
  <2>1. Elements(InsertAfter(kept, i, sum)) = S \cup {sum}
    <3> HIDE DEF S
    <3> QED BY <1>8, <1>11, <1>12, InsertElements
  <2>2. z # sum
    BY <1>11, <1>15
  <2>3. z \in Elements(Output(x)) <=> z \in S
    <3> HIDE DEF S
    <3>1. Elements(Output(x)) = S \/ Elements(Output(x)) = S \cup {sum}
      BY <1>8, <1>13, <2>1
    <3> QED BY <2>2, <3>1
  <2> QED BY <2>3
<1>16. Output(x) = Condensed(l, i, j, c)
  BY <1>13 DEF Condensed, kept, sum, out
<1> HIDE DEF S
<1> QED BY <1>14, <1>15, <1>16 DEF x, out

\* It keeps the invariant, and nothing comes to be pending.
LEMMA CondenseKeeps ==
  ASSUME NEW l, Kept(l), Pending(l) = <<>>,
         NEW i \in Cuts(Output(l)), NEW j \in Cuts(Output(l)), i <= j,
         NEW c, Condensation(l, i, j, c), Logged(Append(l, c))
  PROVE  /\ Kept(Append(l, c)) /\ Pending(Append(l, c)) = <<>>
         /\ Output(Append(l, c)) = Condensed(l, i, j, c)
<1> DEFINE out == Output(l)
           x == Append(l, c)
           n == Len(l)
           all == Elements(l)
           E == Elements(Output(l))
           F == Elements(Output(x))
<1>1. /\ Logged(l) /\ InOrder(Output(l)) /\ l \in Seq(Records) /\ n \in Nat /\ DOMAIN l = 1 .. n
      /\ Batched(l)
  BY DEF Kept, Logged
<1>2. /\ out \in Seq(Records) /\ Len(out) \in Nat
      /\ \A k \in 1 .. Len(out) : out[k] \in Records
  BY <1>1, ShownIds
<1>3. i \in 0 .. Len(out) /\ j \in i .. Len(out)
  <2>1. Cuts(out) \subseteq 0 .. Len(out)
    BY <1>2, CutsAre
  <2> QED BY <1>2, <2>1
<1>4. /\ Output(x) = Condensed(l, i, j, c) /\ InOrder(Output(x))
      /\ \A z : z.kind # "summary" => (z \in F <=> z \in E /\ z.id \notin c.forgets)
  BY <1>1, <1>3, OutputCondensed
<1>5. /\ x \in Seq(Records) /\ Len(x) = n + 1 /\ x[n + 1] = c /\ \A k \in 1 .. n : x[k] = l[k]
      /\ Elements(x) = all \cup {c}
  <2>1. c \in Records
    BY DEF Condensation
  <2> QED BY <1>1, <2>1, AppendProperties, AppendElements
<1>6. ~ IsAction(c) /\ ~ IsResult(c)
  BY DEF Condensation, IsAction, IsResult, ResultKinds
<1>7. c.forgets = {out[k].id : k \in i + 1 .. j}
  BY DEF Condensation
<1>a. InOrder(out) /\ i \in Cuts(out) /\ j \in Cuts(out) /\ E = Elements(out) /\ out = Output(l)
  BY <1>1
<1> HIDE DEF x, all, E, F, out
<1>8. ASSUME NEW k \in 1 .. Len(out) PROVE out[k].id \in c.forgets <=> (i < k /\ k <= j)
  <2>1. ASSUME i < k, k <= j PROVE out[k].id \in c.forgets
    <3>1. k \in i + 1 .. j
      BY <1>3, <2>1
    <3> QED BY <1>7, <3>1
  <2>2. ASSUME out[k].id \in c.forgets PROVE i < k /\ k <= j
    <3>1. PICK h \in i + 1 .. j : out[k].id = out[h].id
      BY <1>7, <2>2
    <3>2. h \in 1 .. Len(out)
      BY <1>2, <1>3
    <3>3. ~ (k < h) /\ ~ (h < k)
      BY <1>a, <3>1, <3>2 DEF InOrder
    <3>4. k = h
      BY <3>2, <3>3
    <3> QED BY <1>3, <3>4
  <2> QED BY <2>1, <2>2
<1>9. ASSUME NEW a \in all, NEW y \in all, Together(a, y), a \in E, y \in E
      PROVE  a.id \in c.forgets <=> y.id \in c.forgets
  <2>1. PICK p \in 1 .. Len(out), q \in 1 .. Len(out) : a = out[p] /\ y = out[q]
    BY <1>2, <1>9, <1>a DEF Elements
  <2>2. (i < p /\ p <= j) <=> (i < q /\ q <= j)
    <3>1. /\ p \in 1 .. Len(Output(l)) /\ q \in 1 .. Len(Output(l))
          /\ Together(Output(l)[p], Output(l)[q])
      BY <1>9, <1>a, <2>1
    <3> QED BY <1>1, <3>1, TogetherStay
  <2> QED BY <1>8, <2>1, <2>2
<1>10. WholeOrHidden(x)
  <2> SUFFICES ASSUME NEW a \in Elements(x), NEW y \in Elements(x), Together(a, y)
               PROVE  a \in F <=> y \in F
    BY DEF WholeOrHidden, F
  <2>1. a \in all /\ y \in all /\ a.kind # "summary" /\ y.kind # "summary"
    <3>1. IsAction(a) /\ (IsAction(y) \/ IsResult(y))
      BY DEF Together
    <3>2. a # c /\ y # c
      BY <1>6, <3>1
    <3>3. a.kind # "summary" /\ y.kind # "summary"
      BY <3>1 DEF IsAction, IsResult, ResultKinds
    <3> QED BY <1>5, <3>2, <3>3
  <2>2. a \in E <=> y \in E
    BY <2>1 DEF Kept, WholeOrHidden, all, E
  <2>3. /\ a \in F <=> a \in E /\ a.id \notin c.forgets
        /\ y \in F <=> y \in E /\ y.id \notin c.forgets
    BY <1>4, <2>1
  <2> QED BY <1>9, <2>1, <2>2, <2>3
<1>11. \A a \in Actions(Elements(x)) : ResultsOf(a, Elements(x)) # {}
  <2> TAKE a \in Actions(Elements(x))
  <2>1. a \in Actions(all)
    BY <1>5, <1>6 DEF Actions
  <2>2. ResultsOf(a, all) # {}
    BY <1>1, <2>1, NonePending DEF all
  <2> QED BY <1>5, <2>2 DEF ResultsOf
<1>12. PendingShown(x) /\ Pending(x) = <<>>
  <2>1. PendingShown(x)
    BY <1>11 DEF PendingShown
  <2>2. Logged(x)
    BY DEF x
  <2> QED BY <1>11, <2>1, <2>2, NonePending
<1>13. Batched(x)
  <2>1. \A k \in 1 .. n + 1 : IsAction(x[k]) => k \in 1 .. n /\ x[k] = l[k]
    <3> TAKE k \in 1 .. n + 1
    <3>1. k \in 1 .. n \/ k = n + 1
      BY <1>1
    <3> QED BY <1>5, <1>6, <3>1
  <2> HIDE DEF n
  <2>2. ASSUME NEW k \in 1 .. n + 1, IsAction(x[k])
        PROVE  x[k].batch \in 1 .. k /\ (x[k].thinking => x[k].batch = k)
    BY <1>1, <2>1, <2>2 DEF Batched, n
  <2>3. ASSUME NEW k \in 1 .. n + 1, NEW h \in 1 .. n + 1,
               IsAction(x[k]), IsAction(x[h]), x[k].batch < x[h].batch
        PROVE  k < x[h].batch
    <3>1. k \in 1 .. n /\ h \in 1 .. n /\ x[k] = l[k] /\ x[h] = l[h]
      BY <2>1, <2>3
    <3> QED BY <1>1, <2>3, <3>1 DEF Batched, n
  <2> QED BY <1>5, <2>2, <2>3 DEF Batched
<1>14. Logged(x)
  BY DEF x
<1> QED BY <1>4, <1>10, <1>12, <1>13, <1>14 DEF Kept, x

-----------------------------------------------------------------------------
\* Tokens are counted: a number, and none for no events.
LEMMA TokensAre ==
  ASSUME NEW seq \in Seq(Records)
  PROVE  Tokens(seq) \in Nat /\ (Len(seq) = 0 => Tokens(seq) = 0)
<1> DEFINE n == Len(seq)
           Next1(i, s) == s + 1 + seq[i].content
           G == [i \in 0 .. n |-> IF i = 0 THEN {0} ELSE Nat]
           step == [i \in 1 .. n |-> [s \in G[i - 1] |-> Next1(i, s)]]
           sum[i \in 0 .. n] == IF i = 0 THEN 0 ELSE sum[i - 1] + 1 + seq[i].content
           Is(f) == f = [i \in 0 .. n |-> IF i = 0 THEN 0 ELSE f[i - 1] + 1 + seq[i].content]
<1>1. n \in Nat /\ \A i \in 1 .. n : seq[i].content \in Nat
  <2>1. \A i \in 1 .. n : seq[i] \in Records
    OBVIOUS
  <2> QED BY <2>1 DEF Records
<1>2. Tokens(seq) = sum[n]
  BY DEF Tokens
<1> HIDE DEF n, sum
<1>3. /\ \A i \in 1 .. n : i - 1 \in 0 .. n /\ i \in 0 .. n /\ i # 0
      /\ 0 \in 0 .. n /\ n \in 0 .. n /\ \A i \in 0 .. n : i # 0 => i \in 1 .. n
  BY <1>1
<1>4. G[0] = {0} /\ (\A i \in 1 .. n : G[i] = Nat) /\ \A i \in 0 .. n : G[i] \subseteq Nat
  BY <1>3
<1>5. \A i \in 1 .. n : \A s \in G[i - 1] : step[i][s] = Next1(i, s)
  <2> HIDE DEF G, Next1
  <2> QED OBVIOUS
<1> HIDE DEF G, step
<1>6. \A i \in 1 .. n : \A s \in G[i - 1] : Next1(i, s) \in G[i]
  <2> TAKE i \in 1 .. n
  <2> TAKE s \in G[i - 1]
  <2>1. s \in Nat /\ seq[i].content \in Nat
    BY <1>1, <1>3, <1>4
  <2> QED BY <1>4, <2>1
<1>7. \E f : Is(f)
  <2>1. PICK f : Computes(f, n, G, step, 0)
    <3>1. GoesOver(n, G, step)
      <4> HIDE DEF Next1
      <4> QED BY <1>5, <1>6 DEF GoesOver
    <3>2. 0 \in G[0]
      BY <1>4
    <3> QED BY <1>1, <3>1, <3>2, Recursion
  <2>2. \A i \in 1 .. n : f[i] = Next1(i, f[i - 1])
    <3> HIDE DEF Next1
    <3> QED BY <1>3, <1>5, <2>1 DEF Computes
  <2>3. f = [i \in 0 .. n |-> f[i]] /\ f[0] = 0
    BY <2>1 DEF Computes
  <2>4. \A i \in 0 .. n : f[i] = IF i = 0 THEN 0 ELSE f[i - 1] + 1 + seq[i].content
    BY <1>3, <2>2, <2>3
  <2> DEFINE v(i) == IF i = 0 THEN 0 ELSE f[i - 1] + 1 + seq[i].content
  <2>5. \A i \in 0 .. n : f[i] = v(i)
    BY <2>4
  <2>6. f = [i \in 0 .. n |-> v(i)]
    <3> HIDE DEF v
    <3> QED BY <2>3, <2>5
  <2> QED BY <2>6
<1>8. Is(sum)
  <2> HIDE DEF Is
  <2>1. sum = CHOOSE f : Is(f)
    BY DEF Is, sum
  <2> QED BY <1>7, <2>1
<1>9. sum[0] = 0 /\ \A i \in 1 .. n : sum[i] = Next1(i, sum[i - 1])
  BY <1>3, <1>8
<1>10. \A i \in 0 .. n : sum[i] \in G[i]
  <2> HIDE DEF Next1, Is
  <2>1. \A i \in 1 .. n : sum[i - 1] \in G[i - 1] => sum[i] \in G[i]
    BY <1>6, <1>9
  <2>2. sum[0] \in G[0]
    BY <1>4, <1>9
  <2> QED BY <1>1, <2>1, <2>2, Reached
<1>11. sum[n] \in Nat
  BY <1>3, <1>4, <1>10
<1> QED BY <1>2, <1>9, <1>11 DEF n

\* The binary search ends, at a place of the list: it asks about ever shorter stretches.
LEMMA SearchIs ==
  ASSUME NEW seq \in Seq(Records), NEW limit \in Nat
  PROVE  Search(seq, limit) \in 0 .. Len(seq)
<1> DEFINE n == Len(seq)
           P == (1 .. Len(seq)) \X (1 .. Len(seq))
           half(p) == LET mid == (p[1] + p[2]) \div 2
                      IN  IF Tokens(SubSeq(seq, 1, mid)) > limit THEN <<p[1], mid>> ELSE <<mid + 1, p[2]>>
           Body(f) == [p \in P |-> IF p[1] >= p[2] THEN p[1] ELSE f[half(p)]]
           find[p \in P] == IF p[1] >= p[2] THEN p[1] ELSE find[half(p)]
           F == [P -> 1 .. n]
<1>1. n \in Nat /\ Tokens(seq) \in Nat /\ (n = 0 => Tokens(seq) = 0)
  BY TokensAre
<1>2. Search(seq, limit) = IF Tokens(seq) <= limit THEN n ELSE find[<<1, n>>]
  BY DEF Search
<1> HIDE DEF find
<1>3. CASE Tokens(seq) <= limit
  BY <1>1, <1>2, <1>3
<1>4. CASE ~ (Tokens(seq) <= limit)
  <2>1. n \in Nat \ {0} /\ <<1, n>> \in P
    BY <1>1, <1>4
  <2> SUFFICES find[<<1, n>>] \in 1 .. n
    BY <1>1, <1>2, <1>4
  <2>2. ASSUME NEW p \in P, ~ (p[1] >= p[2])
        PROVE  half(p) \in P /\ half(p)[2] - half(p)[1] < p[2] - p[1]
    <3> DEFINE mid == (p[1] + p[2]) \div 2
    <3>1. p[1] \in 1 .. n /\ p[2] \in 1 .. n
      OBVIOUS
    <3>2. mid \in 1 .. n /\ mid + 1 \in 1 .. n /\ mid - p[1] < p[2] - p[1] /\ p[2] - (mid + 1) < p[2] - p[1]
      BY <1>1, <2>2, <3>1
    <3>3. half(p) = <<p[1], mid>> \/ half(p) = <<mid + 1, p[2]>>
      OBVIOUS
    <3> HIDE DEF half, mid
    <3>4. CASE half(p) = <<p[1], mid>>
      BY <3>1, <3>2, <3>4
    <3>5. CASE half(p) = <<mid + 1, p[2]>>
      BY <3>1, <3>2, <3>5
    <3> QED BY <3>3, <3>4, <3>5
  <2>3. \A p \in P : p[1] \in 1 .. n /\ p[2] \in 1 .. n /\ p[2] - p[1] < n
    BY <1>1
  <2> HIDE DEF half, P
  <2>4. ASSUME NEW f \in F PROVE Body(f) \in F
    <3>1. \A p \in P : (IF p[1] >= p[2] THEN p[1] ELSE f[half(p)]) \in 1 .. n
      BY <2>2, <2>3
    <3> QED BY <3>1
  <2> DEFINE first == [p \in P |-> p[1]]
             G == [k \in 0 .. n |-> F]
             step == [k \in 1 .. n |-> [f \in F |-> Body(f)]]
  <2>5. first \in F
    BY <2>3
  <2>6. ASSUME NEW f, NEW p \in P
        PROVE  Body(f)[p] = IF p[1] >= p[2] THEN p[1] ELSE f[half(p)]
    OBVIOUS
  <2>7. \A p \in P : first[p] = p[1]
    OBVIOUS
  <2> HIDE DEF F, Body, first
  <2>8. PICK g : g[0] = first /\ (\A k \in 1 .. n : g[k] = Body(g[k - 1])) /\ \A k \in 0 .. n : g[k] \in F
    <3>1. \A k \in 0 .. n : G[k] = F
      OBVIOUS
    <3>2. \A k \in 1 .. n : \A f \in F : step[k][f] = Body(f)
      OBVIOUS
    <3>3. 0 \in 0 .. n /\ \A k \in 1 .. n : k \in 0 .. n /\ k - 1 \in 0 .. n
      BY <1>1
    <3> HIDE DEF G, step
    <3>4. GoesOver(n, G, step)
      BY <2>4, <3>1, <3>2, <3>3 DEF GoesOver
    <3>5. first \in G[0]
      BY <2>5, <3>1, <3>3
    <3>6. PICK g : Computes(g, n, G, step, first)
      BY <1>1, <3>4, <3>5, Recursion
    <3>7. \A k \in 0 .. n : g[k] \in F
      BY <3>1, <3>6 DEF Computes
    <3>8. \A k \in 1 .. n : g[k] = Body(g[k - 1])
      BY <3>2, <3>3, <3>6, <3>7 DEF Computes
    <3> QED BY <3>6, <3>7, <3>8 DEF Computes
  <2> DEFINE Same(k, f) == \A p \in P : p[2] - p[1] < k => f[p] = Body(f)[p]
             H == [k \in 0 .. n |-> {f \in F : Same(k, f)}]
  <2>a. \A k \in 0 .. n : H[k] = {f \in F : Same(k, f)}
    OBVIOUS
  <2> HIDE DEF H
  <2>9. g[0] \in H[0]
    <3>1. ASSUME NEW p \in P, p[2] - p[1] < 0 PROVE first[p] = Body(first)[p]
      <4>1. p[1] >= p[2]
        BY <2>3, <3>1
      <4> QED BY <2>6, <2>7, <4>1
    <3>2. 0 \in 0 .. n
      BY <1>1
    <3> QED BY <2>5, <2>8, <2>a, <3>1, <3>2
  <2>10. ASSUME NEW k \in 1 .. n, g[k - 1] \in H[k - 1] PROVE g[k] \in H[k]
    <3> DEFINE f == g[k - 1]
    <3>1. k - 1 \in 0 .. n /\ k \in 0 .. n /\ f \in F /\ g[k] = Body(f) /\ Body(f) \in F
      <4>1. k - 1 \in 0 .. n /\ k \in 0 .. n
        BY <1>1
      <4> QED BY <2>4, <2>8, <4>1
    <3>2. Same(k - 1, f)
      <4> HIDE DEF Same
      <4> QED BY <2>10, <2>a, <3>1
    <3> HIDE DEF f
    <3>3. ASSUME NEW p \in P, p[2] - p[1] < k PROVE Body(f)[p] = Body(Body(f))[p]
      <4>1. CASE p[1] >= p[2]
        BY <2>6, <4>1
      <4>2. CASE ~ (p[1] >= p[2])
        <5>1. half(p) \in P /\ half(p)[2] - half(p)[1] < p[2] - p[1]
          BY <2>2, <4>2
        <5>2. half(p)[2] - half(p)[1] < k - 1
          BY <2>3, <3>3, <5>1
        <5>3. f[half(p)] = Body(f)[half(p)]
          BY <3>2, <5>1, <5>2
        <5> QED BY <2>6, <4>2, <5>3
      <4> QED BY <4>1, <4>2
    <3>4. Same(k, Body(f))
      BY <3>3
    <3> HIDE DEF Same
    <3> QED BY <2>a, <3>1, <3>4
  <2>11. \A k \in 0 .. n : g[k] \in H[k]
    BY <1>1, <2>9, <2>10, Reached
  <2> DEFINE f == g[n]
  <2>12. f \in F /\ Same(n, f)
    <3>1. n \in 0 .. n
      BY <1>1
    <3> HIDE DEF Same
    <3> QED BY <2>8, <2>11, <2>a, <3>1
  <2> HIDE DEF f
  <2>13. f = Body(f)
    <3>1. \A p \in P : f[p] = Body(f)[p]
      BY <2>3, <2>12
    <3>2. Body(f) \in F
      BY <2>4, <2>12
    <3> QED BY <2>12, <3>1, <3>2 DEF F
  <2> DEFINE Is(q) == q = Body(q)
  <2>14. find = CHOOSE q : Is(q)
    BY DEF find, Body
  <2> HIDE DEF Is
  <2>15. Is(find)
    <3>1. Is(f)
      BY <2>13 DEF Is
    <3> QED BY <2>14, <3>1
  <2>16. \A p \in P : find[p] = IF p[1] >= p[2] THEN p[1] ELSE find[half(p)]
    <3>1. find = Body(find)
      BY <2>15 DEF Is
    <3> QED BY <2>6, <3>1
  <2> DEFINE Ok(k) == \A p \in P : p[2] - p[1] < k => find[p] \in 1 .. n
             c == [k \in 0 .. n |-> 0]
             K == [k \in 0 .. n |-> {z \in {0} : Ok(k)}]
  <2>17. \A k \in 0 .. n : c[k] \in K[k] <=> Ok(k)
    <3> HIDE DEF Ok
    <3> QED OBVIOUS
  <2> HIDE DEF c, K
  <2>18. Ok(0)
    <3>1. \A p \in P : p[2] - p[1] < 0 => p[1] >= p[2] /\ p[1] \in 1 .. n
      BY <2>3
    <3> QED BY <2>16, <3>1
  <2>19. ASSUME NEW k \in 1 .. n, Ok(k - 1) PROVE Ok(k)
    <3> SUFFICES ASSUME NEW p \in P, p[2] - p[1] < k PROVE find[p] \in 1 .. n
      OBVIOUS
    <3>1. CASE p[1] >= p[2]
      BY <2>3, <2>16, <3>1
    <3>2. CASE ~ (p[1] >= p[2])
      <4>1. half(p) \in P /\ half(p)[2] - half(p)[1] < p[2] - p[1]
        BY <2>2, <3>2
      <4>2. half(p)[2] - half(p)[1] < k - 1
        BY <2>3, <4>1
      <4>3. find[half(p)] \in 1 .. n
        BY <2>19, <4>1, <4>2
      <4> QED BY <2>16, <3>2, <4>3
    <3> QED BY <3>1, <3>2
  <2>20. \A k \in 0 .. n : c[k] \in K[k]
    <3>1. 0 \in 0 .. n /\ \A k \in 1 .. n : k \in 0 .. n /\ k - 1 \in 0 .. n
      BY <1>1
    <3> HIDE DEF Ok
    <3>2. c[0] \in K[0]
      BY <2>17, <2>18, <3>1
    <3>3. \A k \in 1 .. n : c[k - 1] \in K[k - 1] => c[k] \in K[k]
      BY <2>17, <2>19, <3>1
    <3> QED BY <1>1, <3>2, <3>3, Reached
  <2>21. Ok(n)
    <3>1. n \in 0 .. n
      BY <1>1
    <3> HIDE DEF Ok
    <3> QED BY <2>17, <2>20, <3>1
  <2>22. <<1, n>>[2] - <<1, n>>[1] < n
    BY <1>1
  <2> QED BY <2>1, <2>21, <2>22
<1> QED BY <1>3, <1>4

\* Where the slice ends: a cut, or a place behind the view.
LEMMA NextCutIs ==
  ASSUME NEW R, NEW view \in Seq(R), NEW t \in Int
  PROVE  /\ t <= Len(view) => NextCut(view, t) \in Cuts(view) /\ NextCut(view, t) >= t
         /\ t > Len(view) => NextCut(view, t) = t
<1> DEFINE after == {i \in Cuts(view) : i >= t}
           n == Len(view)
<1>1. n \in Nat /\ n \in Cuts(view) /\ Cuts(view) \subseteq 0 .. n
  BY CutsAre
<1>2. NextCut(view, t) = IF after = {} THEN t ELSE MinOf(after)
  BY DEF NextCut
<1>3. CASE t <= n
  <2>1. /\ n \in after /\ after \subseteq Nat /\ after \subseteq Cuts(view)
        /\ \A i \in after : i >= t
    BY <1>1, <1>3
  <2> HIDE DEF after
  <2>2. MinOf(after) \in after
    BY <2>1, MinIs
  <2>3. after # {}
    BY <2>1
  <2>4. NextCut(view, t) = MinOf(after)
    BY <1>2, <2>3
  <2>5. NextCut(view, t) \in Cuts(view) /\ NextCut(view, t) >= t
    BY <2>1, <2>2, <2>4
  <2>6. ~ (t > n)
    BY <1>1, <1>3
  <2> QED BY <2>5, <2>6
<1>4. CASE t > n
  <2>1. after = {}
    BY <1>1, <1>4
  <2> HIDE DEF after
  <2> QED BY <1>1, <1>2, <1>4, <2>1
<1> QED BY <1>1, <1>3, <1>4

\* How many events are kept from the tail: a number, perhaps a negative one.
LEMMA TailIs ==
  ASSUME NEW view \in Seq(Records), NEW reasons \in SUBSET {"request", "tokens", "events"},
         reasons # {}
  PROVE  TailToKeep(reasons, view) \in Int
<1> DEFINE n == Len(view)
           front == SubSeq(view, KeepFirst + 1, Len(view))
           red == Tokens(view) - MaxTokens \div 2
           a == n \div 2 - KeepFirst - 1
           b == MaxSize \div 2 - KeepFirst - 1
           c == SuffixForReduction(front, red)
           v(r) == CASE r = "request" -> a [] r = "events" -> b [] r = "tokens" -> c
           S == {v(r) : r \in reasons}
<1>1. n \in Nat /\ KeepFirst \in Nat /\ MaxSize \in Nat /\ MaxTokens \in Nat /\ Tokens(view) \in Nat
  BY TokensAre, CondenserAssumption, BoundAssumption
<1>2. a \in Int /\ b \in Int
  BY <1>1
<1>3. front \in Seq(Records)
  <2>1. \A i \in KeepFirst + 1 .. n : view[i] \in Records
    BY <1>1
  <2>2. KeepFirst + 1 \in Int /\ n \in Int
    BY <1>1
  <2> QED BY <2>1, <2>2, SubSeqProperties
<1>4. red \in Int
  BY <1>1
<1> HIDE DEF front, red
<1>5. c \in Int
  <2>1. Len(front) \in Nat
    BY <1>3
  <2>2. CASE red <= 0
    BY <2>1, <2>2 DEF SuffixForReduction
  <2>3. CASE ~ (red <= 0)
    <3>1. red \in Nat
      BY <1>4, <2>3
    <3>2. Search(front, red) \in 0 .. Len(front)
      BY <1>3, <3>1, SearchIs
    <3> QED BY <2>1, <2>3, <3>2 DEF SuffixForReduction
  <2> QED BY <2>2, <2>3
<1>6. TailToKeep(reasons, view) = MinOf(S)
  BY DEF TailToKeep, front, red
<1> HIDE DEF a, b, c
<1>7. \A r \in reasons : v(r) \in {a, b, c}
  OBVIOUS
<1> HIDE DEF v
<1>8. S \subseteq {a, b, c} /\ S # {}
  BY <1>7
<1> HIDE DEF S
<1>9. \E x \in S : \A y \in S : x <= y
  <2>1. PICK w \in S : TRUE
    BY <1>8
  <2> DEFINE low(x) == \A y \in S : x <= y
  <2>2. \A y \in S : y = a \/ y = b \/ y = c
    BY <1>8
  <2>3. CASE a \in S /\ b \in S /\ c \in S
    <3>1. CASE a <= b /\ a <= c
      <4>1. \A y \in S : a <= y
        BY <2>2, <3>1, <1>2, <1>5
      <4> QED BY <2>3, <4>1
    <3>2. CASE b <= a /\ b <= c
      <4>1. \A y \in S : b <= y
        BY <2>2, <3>2, <1>2, <1>5
      <4> QED BY <2>3, <4>1
    <3>3. CASE c <= a /\ c <= b
      <4>1. \A y \in S : c <= y
        BY <2>2, <3>3, <1>2, <1>5
      <4> QED BY <2>3, <4>1
    <3> QED BY <1>2, <1>5, <3>1, <3>2, <3>3
  <2>4. CASE a \notin S
    BY <1>2, <1>5, <2>1, <2>2, <2>4
  <2>5. CASE b \notin S
    BY <1>2, <1>5, <2>1, <2>2, <2>5
  <2>6. CASE c \notin S
    BY <1>2, <1>5, <2>1, <2>2, <2>6
  <2> QED BY <2>3, <2>4, <2>5, <2>6
<1>10. MinOf(S) \in S
  BY <1>9 DEF MinOf
<1> QED BY <1>2, <1>5, <1>6, <1>8, <1>10

\* What is forgotten lies between two cuts.
LEMMA SliceOf ==
  ASSUME NEW view \in Seq(Records), NEW reasons \in SUBSET {"request", "tokens", "events"},
         reasons # {}, Forgotten(reasons, view) # {}
  PROVE  /\ ForgetFrom(view) \in Cuts(view) /\ KeepFirst <= ForgetFrom(view)
         /\ \E j \in Cuts(view) :
              /\ ForgetFrom(view) < j
              /\ Forgotten(reasons, view) = {view[k].id : k \in ForgetFrom(view) + 1 .. j}
<1> DEFINE n == Len(view)
           i == ForgetFrom(view)
           t == n - TailToKeep(reasons, view)
           to == ForgetTo(reasons, view)
<1>1. n \in Nat /\ KeepFirst \in Int /\ t \in Int /\ DOMAIN view = 1 .. n
  BY TailIs, CondenserAssumption
<1>2. Cuts(view) \subseteq 0 .. n /\ n \in Cuts(view)
  BY CutsAre
<1>3. /\ KeepFirst <= n => i \in Cuts(view) /\ KeepFirst <= i
      /\ KeepFirst > n => i = KeepFirst
  BY <1>1, NextCutIs DEF ForgetFrom
<1>4. /\ t <= n => to \in Cuts(view)
      /\ t > n => to = t
  <2> HIDE DEF t
  <2>1. to = NextCut(view, t)
    BY DEF ForgetTo, t
  <2> QED BY <1>1, <2>1, NextCutIs
<1>5. PICK k \in 1 .. n : i < k /\ k <= to
  BY <1>1 DEF Forgotten
<1> HIDE DEF i, to, t
<1>6. i \in Cuts(view) /\ i \in Int /\ i < n /\ KeepFirst <= i
  <2>1. KeepFirst <= n
    BY <1>1, <1>3, <1>5
  <2>2. i \in Cuts(view) /\ KeepFirst <= i
    BY <1>3, <2>1
  <2> QED BY <1>1, <1>2, <1>5, <2>2
<1>7. PICK j \in Cuts(view) : i < j /\ \A h \in 1 .. n : h <= to <=> h <= j
  <2>1. CASE t <= n
    <3>1. to \in Cuts(view)
      BY <1>4, <2>1
    <3>2. i < to
      BY <1>1, <1>2, <1>5, <1>6, <3>1
    <3> QED BY <3>1, <3>2
  <2>2. CASE ~ (t <= n)
    <3>1. to \in Int /\ to > n
      BY <1>1, <1>4, <2>2
    <3>2. \A h \in 1 .. n : h <= to <=> h <= n
      BY <1>1, <3>1
    <3> QED BY <1>2, <1>6, <3>2
  <2> QED BY <2>1, <2>2
<1>8. Forgotten(reasons, view) = {view[h].id : h \in {g \in 1 .. n : i < g /\ g <= to}}
  BY <1>1 DEF Forgotten, i, to
<1>9. {g \in 1 .. n : i < g /\ g <= to} = i + 1 .. j
  <2>1. i \in 0 .. n /\ j \in 0 .. n
    BY <1>2, <1>6
  <2>2. {g \in 1 .. n : i < g /\ g <= to} = {g \in 1 .. n : i < g /\ g <= j}
    BY <1>7
  <2>3. {g \in 1 .. n : i < g /\ g <= j} = i + 1 .. j
    BY <1>1, <2>1
  <2> QED BY <2>2, <2>3
<1>10. Forgotten(reasons, view) = {view[h].id : h \in i + 1 .. j}
  BY <1>8, <1>9
<1> QED BY <1>6, <1>7, <1>10 DEF i

\* The condensation of such a slice, as it is written.
LEMMA CondensationIs ==
  ASSUME NEW l, Logged(l), NEW i \in 0 .. Len(Output(l)), NEW j \in i .. Len(Output(l)),
         NEW e \in Records, e.kind = "condensation", e.offset \in {i, -1},
         e.forgets = {Output(l)[k].id : k \in i + 1 .. j}
  PROVE  LET d == [e EXCEPT !.id = Len(l) + 1]
         IN  /\ Condensation(l, i, j, d) /\ Logged(Append(l, d))
             /\ Extend(l, <<e>>) = Append(l, d)
<1> DEFINE d == [e EXCEPT !.id = Len(l) + 1]
           out == Output(l)
<1>1. Len(l) \in Nat
  BY DEF Logged
<1>2. /\ d \in Records /\ d.kind = "condensation" /\ d.id = Len(l) + 1 /\ d.offset \in {i, -1}
      /\ d.forgets = {out[k].id : k \in i + 1 .. j}
  <2>1. Len(l) + 1 \in Int
    BY <1>1
  <2>2. /\ d \in Records /\ d.kind = e.kind /\ d.id = Len(l) + 1 /\ d.offset = e.offset
        /\ d.forgets = e.forgets
    BY <2>1 DEF Records
  <2> QED BY <2>2
<1>3. Condensation(l, i, j, d)
  BY <1>2 DEF Condensation
<1>4. Fits(l, <<e>>)
  <2>1. /\ Len(out) \in Nat
        /\ \A k \in 1 .. Len(out) : out[k].id \in -Len(l) .. Len(l)
    BY ShownIds
  <2>2. \A k \in i + 1 .. j : k \in 1 .. Len(out)
    BY <2>1
  <2>3. e.forgets \subseteq -Len(l) .. Len(l)
    BY <2>1, <2>2
  <2>4. ~ IsAction(e) /\ ~ IsResult(e)
    BY DEF IsAction, IsResult, ResultKinds
  <2> QED BY <2>3, <2>4, OneFits
<1> HIDE DEF d
<1>5. Extend(l, <<e>>) = Append(l, d) /\ Logged(Append(l, d))
  BY <1>4, ExtendOne DEF d
<1> QED BY <1>3, <1>5 DEF d

\* What a condensation is made from.
LEMMA BlankCondensation ==
  Event("condensation") \in Records /\ Event("condensation").kind = "condensation"
<1>1. "condensation" \in Kinds
  BY DEF Kinds
<1> QED BY <1>1, Made

\* A step that condenses.
LEMMA CondenseIs ==
  ASSUME NEW l, Kept(l), Condense(l)
  PROVE  \E i, j \in Cuts(Output(l)) : \E c :
           /\ KeepFirst <= i /\ i < j /\ Condensation(l, i, j, c)
           /\ Logged(Append(l, c)) /\ log' = Append(l, c)
<1> DEFINE out == Output(l)
           reasons == Reasons(l, out)
           i == ForgetFrom(out)
           F == Forgotten(reasons, out)
<1>1. Pending(l) = <<>> /\ FromEvents(l) = out
  <2>1. Pending(l) = <<>>
    BY DEF Condense
  <2> QED BY <2>1, NothingHidden
<1>2. /\ reasons # {} /\ F # {}
      /\ \E offset \in {i, -1} :
           Write(l, <<[Event("condensation") EXCEPT !.forgets = F, !.offset = offset]>>)
  BY <1>1 DEF Condense
<1>3. PICK offset \in {i, -1} :
        Write(l, <<[Event("condensation") EXCEPT !.forgets = F, !.offset = offset]>>)
  BY <1>2
<1>4. Logged(l)
  BY DEF Kept
<1>5. /\ out \in Seq(Records) /\ Len(out) \in Nat
      /\ \A k \in 1 .. Len(out) : out[k].id \in -Len(l) .. Len(l)
  BY <1>4, ShownIds
<1>6. reasons \in SUBSET {"request", "tokens", "events"}
  BY DEF Reasons
<1>a. F = Forgotten(reasons, out) /\ i = ForgetFrom(out) /\ out = Output(l)
  OBVIOUS
<1> HIDE DEF out, reasons, F
<1>7. /\ i \in Cuts(out) /\ KeepFirst <= i
      /\ \E j \in Cuts(out) : i < j /\ F = {out[k].id : k \in i + 1 .. j}
  BY <1>2, <1>5, <1>6, SliceOf DEF F
<1> HIDE DEF i
<1>8. PICK j \in Cuts(out) : i < j /\ F = {out[k].id : k \in i + 1 .. j}
  BY <1>7
<1>9. i \in 0 .. Len(out) /\ j \in i .. Len(out)
  <2>1. Cuts(out) \subseteq 0 .. Len(out)
    BY <1>5, CutsAre
  <2>2. i \in 0 .. Len(out) /\ j \in 0 .. Len(out)
    BY <1>7, <2>1
  <2> QED BY <1>5, <1>8, <2>2
<1> DEFINE b == Event("condensation")
           e == [b EXCEPT !.forgets = F, !.offset = offset]
           d == [e EXCEPT !.id = Len(l) + 1]
<1>b. log' = Extend(l, <<e>>)
  BY <1>3 DEF Write
<1>c. b \in Records /\ b.kind = "condensation"
  BY BlankCondensation
<1> HIDE DEF b
<1>10. e \in Records /\ e.kind = "condensation" /\ e.forgets = F /\ e.offset = offset
  <2>1. \A k \in i + 1 .. j : k \in 1 .. Len(out)
    BY <1>5, <1>9
  <2>2. Len(l) \in Nat
    BY <1>4 DEF Logged
  <2>3. F \in SUBSET Int
    BY <1>5, <1>8, <2>1, <2>2
  <2>4. offset \in Nat \cup {-1}
    BY <1>3, <1>9
  <2> QED BY <1>c, <2>3, <2>4 DEF Records
<1> HIDE DEF e
<1>12. /\ Condensation(l, i, j, d) /\ Logged(Append(l, d))
       /\ Extend(l, <<e>>) = Append(l, d)
  <2>1. i \in 0 .. Len(Output(l)) /\ j \in i .. Len(Output(l)) /\ e.offset \in {i, -1}
        /\ e.forgets = {Output(l)[k].id : k \in i + 1 .. j}
    BY <1>3, <1>8, <1>9, <1>10, <1>a
  <2> QED BY <1>4, <1>10, <2>1, CondensationIs
<1> HIDE DEF d
<1> QED BY <1>7, <1>8, <1>b, <1>12, <1>a

\* A condensation between any two cuts takes away the slice and no more.
LEMMA KeptIsSafe == Kept(log) => CutsAreSafe
<1> SUFFICES ASSUME Kept(log), Pending(log) = <<>>,
                    NEW i \in Cuts(FromEvents(log)), NEW j \in Cuts(FromEvents(log)), i < j
             PROVE  LET c == [Event("condensation") EXCEPT !.id = Len(log) + 1, !.offset = i,
                                 !.forgets = {FromEvents(log)[k].id : k \in i + 1 .. j}]
                    IN  FromEvents(Append(log, c)) =
                          InsertAfter(Without(FromEvents(log), i, j), i, SummaryOf(c))
  BY DEF CutsAreSafe
<1> DEFINE out == Output(log)
           F == {out[k].id : k \in i + 1 .. j}
           n == Len(log)
           b == Event("condensation")
           c == [b EXCEPT !.id = n + 1, !.offset = i, !.forgets = F]
<1>1. FromEvents(log) = out
  BY NothingHidden
<1>2. Logged(log)
  BY DEF Kept
<1>3. /\ out \in Seq(Records) /\ Len(out) \in Nat
      /\ \A k \in 1 .. Len(out) : out[k].id \in -n .. n
  BY <1>2, ShownIds
<1>4. n \in Nat
  BY <1>2 DEF Logged
<1>a. out = Output(log) /\ F = {Output(log)[k].id : k \in i + 1 .. j}
  OBVIOUS
<1> HIDE DEF out, F
<1>b. b \in Records /\ b.kind = "condensation"
  BY BlankCondensation
<1> HIDE DEF b
<1>5. i \in Cuts(out) /\ j \in Cuts(out) /\ i \in 0 .. Len(out) /\ j \in i .. Len(out)
  <2>1. Cuts(out) \subseteq 0 .. Len(out)
    BY <1>3, CutsAre
  <2>2. i \in 0 .. Len(out) /\ j \in 0 .. Len(out)
    BY <1>1, <2>1
  <2> QED BY <1>1, <1>3, <2>2
<1>6. c \in Records /\ c.kind = "condensation" /\ c.id = n + 1 /\ c.forgets = F /\ c.offset = i
  <2>1. \A k \in i + 1 .. j : k \in 1 .. Len(out)
    BY <1>3, <1>5
  <2>2. F \in SUBSET Int
    BY <1>3, <1>4, <2>1 DEF F
  <2>3. i \in Nat \cup {-1} /\ n + 1 \in Int
    BY <1>4, <1>5
  <2> QED BY <1>b, <2>2, <2>3 DEF Records
<1> HIDE DEF c
<1>7. Condensation(log, i, j, c)
  BY <1>6, <1>a DEF Condensation, n
<1>8. Logged(Append(log, c))
  <2> DEFINE d == [c EXCEPT !.id = n + 1]
  <2>1. d = c
    <3>1. c = [c EXCEPT !.id = c.id]
      BY <1>6 DEF Records
    <3> QED BY <1>6, <3>1
  <2>2. Logged(Append(log, d))
    <3> HIDE DEF d
    <3>1. i \in 0 .. Len(Output(log)) /\ j \in i .. Len(Output(log)) /\ c.offset \in {i, -1}
          /\ c.forgets = {Output(log)[k].id : k \in i + 1 .. j}
      BY <1>5, <1>6, <1>a
    <3> QED BY <1>2, <1>6, <3>1, CondensationIs DEF d, n
  <2> QED BY <2>1, <2>2
<1>9. /\ Kept(Append(log, c)) /\ Pending(Append(log, c)) = <<>>
      /\ Output(Append(log, c)) = Condensed(log, i, j, c)
  <2>1. i \in Cuts(Output(log)) /\ j \in Cuts(Output(log)) /\ i <= j
    BY <1>5, <1>a
  <2> QED BY <1>7, <1>8, <2>1, CondenseKeeps
<1>10. FromEvents(Append(log, c)) = Condensed(log, i, j, c)
  BY <1>9, NothingHidden
<1>11. Condensed(log, i, j, c) = InsertAfter(Without(out, i, j), i, SummaryOf(c))
  <2>1. c.offset # -1
    BY <1>3, <1>5, <1>6
  <2> QED BY <2>1, <1>a DEF Condensed
<1> QED BY <1>1, <1>10, <1>11 DEF c, b, F, n

-----------------------------------------------------------------------------
(***************************************************************************)
(* The steps: each appends what follows, or condenses.                     *)
(***************************************************************************)

\* A step from a log appends what may follow it, or condenses.
Grown(l) == \/ \E s : Follows(l, s) /\ log' = Extend(l, s)
            \/ Condense(l)

\* A message, an answer or a request may follow any log.
LEMMA EventFollows ==
  ASSUME NEW l, Logged(l), NEW k \in {"system", "user", "agent", "condensation_request"}
  PROVE  Follows(l, <<Event(k)>>)
<1> DEFINE e == Event(k)
           s == <<e>>
<1>1. k \in Kinds
  BY DEF Kinds
<1>2. e \in Records /\ e.kind = k
  BY <1>1, Made
<1> HIDE DEF e
<1>3. ~ IsAction(e) /\ ~ IsResult(e) /\ e.kind # "condensation"
  BY <1>2 DEF IsAction, IsResult, ResultKinds
<1>4. Fits(l, s)
  BY <1>2, <1>3, OneFits
<1>5. \A i \in 1 .. Len(s) : s[i] = e
  OBVIOUS
<1> HIDE DEF s
<1> QED BY <1>3, <1>4, <1>5 DEF Follows, s, e

\* Nothing may follow any list.
LEMMA NothingFollows == ASSUME NEW l PROVE Follows(l, <<>>)
<1> DEFINE s == <<>>
<1>1. s \in Seq(Records) /\ Len(s) = 0
  BY EmptySeq
<1> HIDE DEF s
<1>2. \A i \in 1 .. Len(s) : FALSE
  BY <1>1
<1>3. Follows(l, s)
  BY <1>1, <1>2 DEF Follows, Fits
<1> QED BY <1>3 DEF s

\* Results of actions that have none: these were not forgotten.
LEMMA ResultsMayFollow ==
  ASSUME NEW l, Kept(l), NEW acts \in Seq(Unmatched(l)),
         NEW kind \in ResultKinds, NEW size \in Nat
  PROVE  Follows(l, Results(acts, kind, size))
<1> DEFINE s == Results(acts, kind, size)
<1>1. Logged(l) /\ PendingShown(l)
  BY DEF Kept
<1>2. /\ acts \in Seq(Actions(Elements(l))) /\ DOMAIN acts = 1 .. Len(acts)
      /\ \A i \in 1 .. Len(acts) : acts[i] \in Unmatched(l)
  <2>1. Unmatched(l) \subseteq Actions(Elements(l))
    BY DEF Unmatched
  <2> QED BY <2>1
<1>3. /\ Fits(l, s) /\ Len(s) = Len(acts)
      /\ \A i \in 1 .. Len(s) : s[i].kind = kind /\ s[i].call = acts[i].call
  BY <1>1, <1>2, ResultsFit
<1>4. kind # "condensation" /\ kind # "action"
  BY DEF ResultKinds
<1> HIDE DEF s
<1>5. ASSUME NEW k \in 1 .. Len(s), NEW x \in Actions(Elements(l)), x.call = s[k].call
      PROVE  x \in Elements(Output(l))
  <2>1. acts[k] \in Unmatched(l) /\ x.call = acts[k].call
    BY <1>2, <1>3, <1>5
  <2>2. acts[k] \in Actions(Elements(l)) /\ acts[k] \in Elements(Output(l))
    BY <1>1, <2>1 DEF PendingShown, Unmatched
  <2>3. x = acts[k]
    <3>1. DOMAIN l = 1 .. Len(l)
      BY <1>1 DEF Logged
    <3>2. PICK i \in 1 .. Len(l) : l[i] = x /\ IsAction(l[i])
      BY <3>1 DEF Actions, Elements
    <3>3. PICK j \in 1 .. Len(l) : l[j] = acts[k] /\ IsAction(l[j])
      BY <2>2, <3>1 DEF Actions, Elements
    <3> QED BY <1>1, <2>1, <3>2, <3>3 DEF Logged, CallsOnce
  <2> QED BY <2>2, <2>3
<1>6. \A k \in 1 .. Len(s) : s[k].kind # "condensation" /\ ~ IsAction(s[k])
  BY <1>3, <1>4 DEF IsAction
<1> QED BY <1>3, <1>5, <1>6 DEF Follows, s

\* The calls of a response: one batch, whose results are results of its own calls.
LEMMA ResponseFollows ==
  ASSUME NEW l, Logged(l), NEW n \in Nat \ {0}, NEW bad, NEW thinking \in BOOLEAN
  PROVE  Follows(l, Response(l, n, bad, thinking))
<1> DEFINE s == Response(l, n, bad, thinking)
<1>1. s \in Calls(l, n) /\ Fits(l, s)
  BY ResponseFits
<1> HIDE DEF s
<1>2. /\ \A k \in 1 .. Len(s) : s[k].kind # "condensation"
      /\ \A k \in 1 .. Len(s) : IsAction(s[k]) => s[k].batch = Len(l) + 1 /\ (s[k].thinking => k = 1)
      /\ s \in Seq(Records)
  BY <1>1 DEF Calls
<1>3. ASSUME NEW k \in 1 .. Len(s), IsResult(s[k]), NEW x \in Actions(Elements(l))
      PROVE  x.call # s[k].call
  <2>1. PICK j \in 1 .. k - 1 : IsAction(s[j]) /\ s[j].call = s[k].call
    BY <1>1, <1>3 DEF Calls
  <2>2. j \in 1 .. Len(s)
    BY <1>2
  <2>3. s[j].call \in Len(l) + 1 .. Len(l) + n
    BY <1>1, <2>1, <2>2 DEF Calls
  <2>4. DOMAIN l = 1 .. Len(l) /\ Len(l) \in Nat
    BY DEF Logged
  <2>5. PICK i \in 1 .. Len(l) : l[i] = x /\ IsAction(l[i])
    BY <2>4 DEF Actions, Elements
  <2>6. x.call <= Len(l)
    BY <2>5 DEF Logged, CallsOnce
  <2>7. s[k].call >= Len(l) + 1
    BY <2>1, <2>3, <2>4
  <2>8. x.call \in Nat
    <3>1. l[i] \in Records
      BY DEF Logged
    <3> QED BY <2>5, <3>1 DEF Records
  <2>9. s[k].call \in Int
    BY <2>1, <2>3, <2>4
  <2> QED BY <2>4, <2>6, <2>7, <2>8, <2>9
<1> QED BY <1>1, <1>2, <1>3 DEF Follows, s

\* A step of the agent, from the log as it is or with a request at its end.
LEMMA StepIs ==
  ASSUME NEW l, Kept(l), going \in BOOLEAN, Step(l)
  PROVE  going' \in BOOLEAN /\ Grown(l)
<1>1. CASE Execute(l)
  <2> DEFINE acts == Pending(l)
  <2>1. acts \in Seq(Unmatched(l))
    BY PendingIs DEF Kept
  <2> HIDE DEF acts
  <2>2. PICK k \in 0 .. Len(acts), size \in Sizes :
          /\ Write(l, Results(SubSeq(acts, 1, k), "observation", size))
          /\ going' = (going /\ k = Len(acts))
    BY <1>1 DEF Execute, acts
  <2>3. /\ Len(acts) \in Nat
        /\ \A i \in 1 .. Len(acts) : acts[i] \in Unmatched(l)
    BY <2>1
  <2>4. SubSeq(acts, 1, k) \in Seq(Unmatched(l))
    <3>1. \A i \in 1 .. k : acts[i] \in Unmatched(l)
      BY <2>3
    <3> QED BY <2>3, <3>1, SubSeqProperties
  <2>5. "observation" \in ResultKinds /\ size \in Nat
    BY BoundAssumption DEF ResultKinds
  <2>6. Follows(l, Results(SubSeq(acts, 1, k), "observation", size))
    BY <2>4, <2>5, ResultsMayFollow
  <2>7. going' \in BOOLEAN
    BY <2>2
  <2> QED BY <2>2, <2>6, <2>7 DEF Write, Grown
<1>2. CASE Condense(l)
  <2>1. going' = going
    BY <1>2 DEF Condense
  <2> QED BY <1>2, <2>1 DEF Grown
<1>3. CASE Refuse(l)
  <2>1. Write(l, <<>>) /\ going' = FALSE
    BY <1>3 DEF Refuse
  <2> QED BY <2>1, NothingFollows DEF Write, Grown
<1> QED BY <1>1, <1>2, <1>3 DEF Step

\* Every step of the specification, for condense() with the request first.
LEMMA NextIs ==
  ASSUME Kept(log), going \in BOOLEAN, [Next]_vars
  PROVE  LET l == Extend(log, <<Event("condensation_request")>>)
         IN  going' \in BOOLEAN /\ (log' = log \/ Grown(log) \/ (Kept(l) /\ Grown(l)))
<1> DEFINE l == Extend(log, <<Event("condensation_request")>>)
<1>1. Logged(log)
  BY DEF Kept
<1>2. ASSUME NEW s, Follows(log, s), Write(log, s) PROVE Grown(log)
  BY <1>2 DEF Write, Grown
<1>3. CASE SendMessage
  <2>1. Follows(log, <<Event("user")>>)
    BY <1>1, EventFollows
  <2> QED BY <1>2, <1>3, <2>1 DEF SendMessage
<1>4. CASE RejectPending
  <2>1. Pending(log) \in Seq(Unmatched(log))
    BY <1>1, PendingIs
  <2>2. "rejection" \in ResultKinds /\ 0 \in Nat
    BY DEF ResultKinds
  <2>3. Follows(log, Results(Pending(log), "rejection", 0))
    BY <2>1, <2>2, ResultsMayFollow
  <2> QED BY <1>2, <1>4, <2>3 DEF RejectPending
<1>5. CASE CallCondense
  <2>1. Follows(log, <<Event("condensation_request")>>)
    BY <1>1, EventFollows
  <2>2. Kept(l)
    BY <2>1, FollowsKeeps
  <2>3. Step(l)
    BY <1>5 DEF CallCondense
  <2> HIDE DEF l
  <2>4. going' \in BOOLEAN /\ Grown(l)
    BY <2>2, <2>3, StepIs
  <2> QED BY <2>2, <2>4 DEF l
<1>6. CASE StepNoLLM
  BY <1>6, StepIs DEF StepNoLLM
<1>7. CASE CallTools
  <2>1. PICK n \in 1 .. MaxBatch, thinking \in Thinking : \E bad \in SUBSET (1 .. n) :
          Write(log, Response(log, n, bad, thinking))
    BY <1>7 DEF CallTools
  <2>2. PICK bad \in SUBSET (1 .. n) : Write(log, Response(log, n, bad, thinking))
    BY <2>1
  <2>3. n \in Nat \ {0} /\ thinking \in BOOLEAN
    BY BoundAssumption
  <2>4. Follows(log, Response(log, n, bad, thinking))
    BY <1>1, <2>3, ResponseFollows
  <2>5. going' = going
    BY <1>7 DEF CallTools
  <2> QED BY <1>2, <2>2, <2>4, <2>5
<1>8. CASE Answer
  <2>1. Follows(log, <<Event("agent")>>)
    BY <1>1, EventFollows
  <2>2. going' \in BOOLEAN /\ Write(log, <<Event("agent")>>)
    BY <1>8 DEF Answer
  <2> QED BY <1>2, <2>1, <2>2
<1>9. CASE ContextExceeded
  <2>1. Follows(log, <<Event("condensation_request")>>)
    BY <1>1, EventFollows
  <2> QED BY <1>2, <1>9, <2>1 DEF ContextExceeded
<1>10. CASE UNCHANGED vars
  BY <1>10 DEF vars
<1> QED BY <1>3, <1>4, <1>5, <1>6, <1>7, <1>8, <1>9, <1>10 DEF Next

\* What a step makes of a log is kept as well.
LEMMA GrownKeeps ==
  ASSUME NEW l, Kept(l), Grown(l)
  PROVE  Kept(log')
<1>1. CASE \E s : Follows(l, s) /\ log' = Extend(l, s)
  BY <1>1, FollowsKeeps
<1>2. CASE Condense(l)
  <2>a. PICK i \in Cuts(Output(l)), j \in Cuts(Output(l)) : \E c :
          i < j /\ Condensation(l, i, j, c) /\ Logged(Append(l, c)) /\ log' = Append(l, c)
    BY <1>2, CondenseIs
  <2>1. PICK c :
          i < j /\ Condensation(l, i, j, c) /\ Logged(Append(l, c)) /\ log' = Append(l, c)
    BY <2>a
  <2>2. Pending(l) = <<>>
    BY <1>2 DEF Condense
  <2>3. i <= j
    <3>1. Output(l) \in Seq(Records)
      BY ShownIds DEF Kept
    <3>2. i \in 0 .. Len(Output(l)) /\ j \in 0 .. Len(Output(l))
      BY <3>1, CutsAre
    <3> QED BY <2>1, <3>2
  <2>4. Kept(Append(l, c))
    BY <2>1, <2>2, <2>3, CondenseKeeps
  <2> QED BY <2>1, <2>4
<1> QED BY <1>1, <1>2 DEF Grown

\* Every step keeps the invariant.
LEMMA LogStep == LogInv /\ [Next]_vars => LogInv'
<1> SUFFICES ASSUME LogInv, [Next]_vars PROVE LogInv'
  OBVIOUS
<1>1. Kept(log) /\ going \in BOOLEAN
  BY DEF LogInv
<1> DEFINE l == Extend(log, <<Event("condensation_request")>>)
<1>2. going' \in BOOLEAN /\ (log' = log \/ Grown(log) \/ (Kept(l) /\ Grown(l)))
  BY <1>1, NextIs
<1> HIDE DEF l
<1>3. Kept(log')
  BY <1>1, <1>2, GrownKeeps
<1> QED BY <1>2, <1>3 DEF LogInv

\* The empty log is fine, and so is the one a conversation starts with.
LEMMA NoneKept == Kept(<<>>)
<1> DEFINE none == <<>>
<1>1. none \in Seq(Records) /\ Len(none) = 0
  BY EmptySeq
<1>2. none = <<>>
  OBVIOUS
<1> HIDE DEF none
<1>3. Logged(none)
  BY <1>1 DEF Logged, Placed, CallsOnce, Answers, LooksBack
<1>4. Output(none) = none
  <2>1. PICK f : Runs(f, none) /\ Output(none) = f[Len(none)]
    BY <1>3, OutputRuns
  <2> QED BY <1>1, <1>2, <2>1 DEF Runs
<1>5. Elements(none) = {}
  BY <1>1 DEF Elements
<1>6. Batched(none) /\ InOrder(none)
  BY <1>1 DEF Batched, InOrder
<1>7. WholeOrHidden(none) /\ PendingShown(none)
  BY <1>5 DEF WholeOrHidden, PendingShown, Actions
<1>8. Kept(none)
  BY <1>3, <1>4, <1>6, <1>7 DEF Kept
<1> QED BY <1>8 DEF none

\* The invariant holds at the start.
LEMMA LogInit == Init => LogInv
<1> SUFFICES ASSUME Init PROVE LogInv
  OBVIOUS
<1> DEFINE none == <<>>
<1>1. none \in Seq(Records) /\ Len(none) = 0
  BY EmptySeq
<1>2. log = Numbered(none, <<Event("system")>>) /\ going = FALSE
  BY DEF Init
<1>3. Kept(none)
  BY NoneKept
<1> HIDE DEF none
<1>4. Follows(none, <<Event("system")>>)
  BY <1>3, EventFollows DEF Kept
<1>5. Kept(Extend(none, <<Event("system")>>))
  BY <1>3, <1>4, FollowsKeeps
<1>6. Extend(none, <<Event("system")>>) = Numbered(none, <<Event("system")>>)
  <2> DEFINE s == <<Event("system")>>
             t == Numbered(none, s)
  <2>1. DOMAIN s = 1 .. 1 /\ \A i \in 1 .. 1 : s[i] \in Records
    BY <1>4 DEF Follows, Fits
  <2> HIDE DEF s
  <2>2. t \in Seq(Records)
    <3>1. t = [i \in 1 .. 1 |-> [s[i] EXCEPT !.id = Len(none) + i]]
      BY <2>1 DEF Numbered
    <3>2. \A i \in 1 .. 1 : [s[i] EXCEPT !.id = Len(none) + i] \in Records
      <4>1. \A i \in 1 .. 1 : Len(none) + i \in Int
        BY <1>1
      <4>2. ASSUME NEW i \in 1 .. 1 PROVE [s[i] EXCEPT !.id = Len(none) + i] \in Records
        <5>1. s[i] \in Records /\ Len(none) + i \in Int
          BY <2>1, <4>1
        <5> QED BY <5>1, Renumbered
      <4> QED BY <4>2
    <3> HIDE DEF t
    <3>3. t \in [1 .. 1 -> Records]
      BY <3>1, <3>2
    <3> DEFINE m == 1
    <3>4. m \in Nat /\ t \in [1 .. m -> Records]
      BY <3>3
    <3> HIDE DEF m
    <3> QED BY <3>4
  <2> HIDE DEF t
  <2>3. <<>> \o t = t
    BY <2>2, ConcatEmptySeq
  <2>4. Extend(none, s) = none \o t
    BY DEF Extend, t
  <2> QED BY <2>3, <2>4 DEF none, s, t
<1> QED BY <1>2, <1>5, <1>6 DEF LogInv

\* The invariant has the type of the log in it, and what the filter relies on.
LEMMA InvTyped == LogInv => TypeOK /\ OutputIsLogged /\ CallsAreDistinct
<1> SUFFICES ASSUME LogInv PROVE TypeOK /\ OutputIsLogged /\ CallsAreDistinct
  OBVIOUS
<1>1. /\ Logged(log) /\ log \in Seq(Records) /\ going \in BOOLEAN /\ DOMAIN log = 1 .. Len(log)
  BY DEF LogInv, Kept, Logged
<1>2. TypeOK
  BY <1>1 DEF Logged, Placed, Answers, LooksBack, TypeOK
<1>3. CallsAreDistinct
  <2> SUFFICES ASSUME NEW a \in Actions(Elements(log)), NEW b \in Actions(Elements(log)),
                      a.call = b.call
               PROVE  a = b
    BY DEF CallsAreDistinct
  <2>1. PICK i \in 1 .. Len(log) : log[i] = a
    BY <1>1 DEF Actions, Elements
  <2>2. PICK j \in 1 .. Len(log) : log[j] = b
    BY <1>1 DEF Actions, Elements
  <2>3. IsAction(a) /\ IsAction(b)
    BY DEF Actions
  <2> QED BY <1>1, <2>1, <2>2, <2>3 DEF Logged, CallsOnce
<1>4. OutputIsLogged
  <2> DEFINE out == Output(log)
  <2>1. out \in Seq(Shows(log))
    BY <1>1, OutputIs
  <2> HIDE DEF out
  <2>2. \A e \in Elements(out) : e \in Shows(log)
    BY <2>1 DEF Elements
  <2> QED BY <1>1, <2>2, ShowsIs DEF OutputIsLogged, Actions, out
<1> QED BY <1>2, <1>3, <1>4

\* Ids are the places of events in the log, a result comes after the one action it is for, and
\* a condensation forgets only what was there, in any run.
THEOREM HistoryTyped == Spec => []TypeOK
  BY LogInit, LogStep, InvTyped, PTL DEF Spec

\* In every state of any run the view that goes to the LLM has a result for each call, a call
\* for each result, and batches whole.
THEOREM ViewStaysMatched == Spec => []Matched
  BY LogInit, LogStep, InvTyped, ViewIsMatched, PTL DEF Spec

\* In any run, for any limits and any number of calls in a response: a condensation between
\* any two places that the view may be cut at takes away what stands between them and nothing
\* else, and puts its summary there.
THEOREM CutsStaySafe == Spec => []CutsAreSafe
<1>1. LogInv => CutsAreSafe
  BY KeptIsSafe DEF LogInv
<1> QED BY <1>1, LogInit, LogStep, PTL DEF Spec

-----------------------------------------------------------------------------
(***************************************************************************)
(* Tool loops stay whole.                                                  *)
(***************************************************************************)

\* An action of the output is the event of the log that its id says.
LEMMA ActionAt ==
  ASSUME NEW l, Kept(l), NEW p \in 1 .. Len(Output(l)), IsAction(Output(l)[p])
  PROVE  LET e == Output(l)[p]
         IN  /\ e.id \in 1 .. Len(l) /\ l[e.id] = e /\ e.batch \in 1 .. e.id
             /\ e.thinking => e.batch = e.id
<1> DEFINE out == Output(l)
           e == out[p]
<1>1. Logged(l) /\ Batched(l)
  BY DEF Kept
<1>2. e \in Shows(l)
  <2>1. out \in Seq(Shows(l)) /\ p \in 1 .. Len(out)
    BY <1>1, OutputIs
  <2> HIDE DEF out
  <2> QED BY <2>1
<1>3. IsAction(e)
  OBVIOUS
<1> HIDE DEF out, e
<1>4. e \in Elements(l) /\ DOMAIN l = 1 .. Len(l)
  BY <1>1, <1>2, <1>3, ShowsIs DEF Logged
<1>5. PICK m \in 1 .. Len(l) : l[m] = e
  BY <1>4 DEF Elements
<1>6. e.id = m
  BY <1>1, <1>5 DEF Logged, Placed
<1>7. e.batch \in 1 .. m /\ (e.thinking => e.batch = m)
  BY <1>1, <1>3, <1>5 DEF Batched
<1> QED BY <1>5, <1>6, <1>7 DEF e, out

\* Of two actions the one with the smaller batch stands first, and before all of the other's
\* batch; the action that a batch has its number from stands before the rest of it.
LEMMA BatchesInOrder ==
  ASSUME NEW l, Kept(l), NEW p \in 1 .. Len(Output(l)), NEW q \in 1 .. Len(Output(l)),
         IsAction(Output(l)[p]), IsAction(Output(l)[q]),
         Output(l)[p].batch = Output(l)[p].id
  PROVE  /\ Output(l)[q].batch = Output(l)[p].batch => p <= q
         /\ Output(l)[q].batch > Output(l)[p].batch => p < q
         /\ Output(l)[q].batch < Output(l)[p].batch => q < p
<1> DEFINE out == Output(l)
           x == out[p]
           y == out[q]
<1>1. /\ x.id \in 1 .. Len(l) /\ l[x.id] = x /\ x.batch = x.id /\ IsAction(x)
  BY ActionAt
<1>2. /\ y.id \in 1 .. Len(l) /\ l[y.id] = y /\ y.batch \in 1 .. y.id /\ IsAction(y)
  BY ActionAt
<1>3. InOrder(out) /\ Batched(l) /\ Len(l) \in Nat
  BY DEF Kept, Logged
<1>4. p \in 1 .. Len(out) /\ q \in 1 .. Len(out) /\ out[p] = x /\ out[q] = y
  OBVIOUS
<1>a. x = Output(l)[p] /\ y = Output(l)[q]
  OBVIOUS
<1>5. q < p => y.id < x.id
  <2> HIDE DEF out, x, y
  <2>1. 0 < x.id /\ 0 < y.id
    BY <1>1, <1>2
  <2> QED BY <1>3, <1>4, <2>1 DEF InOrder
<1>6. p < q => x.id < y.id
  <2> HIDE DEF out, x, y
  <2>1. 0 < x.id /\ 0 < y.id
    BY <1>1, <1>2
  <2> QED BY <1>3, <1>4, <2>1 DEF InOrder
<1> HIDE DEF out, x, y
<1>7. y.batch < x.batch => y.id < x.batch
  <2>1. \A i, j \in 1 .. Len(l) :
          IsAction(l[i]) /\ IsAction(l[j]) /\ l[i].batch < l[j].batch => i < l[j].batch
    BY <1>3 DEF Batched
  <2> QED BY <1>1, <1>2, <2>1
<1>8. y.batch = x.batch => p <= q
  BY <1>1, <1>2, <1>4, <1>5
<1>9. y.batch > x.batch => p < q
  <2>1. y.batch > x.batch => y.id > x.id
    BY <1>1, <1>2
  <2>2. y.id > x.id => p # q
    BY <1>1, <1>4
  <2> QED BY <1>1, <1>2, <1>4, <1>5, <2>1, <2>2
<1>10. y.batch < x.batch => q < p
  <2>1. y.batch < x.batch => y.id < x.id
    BY <1>1, <1>2, <1>7
  <2>2. y.id < x.id => p # q
    BY <1>1, <1>4
  <2> QED BY <1>1, <1>2, <1>4, <1>6, <2>1, <2>2
<1> QED BY <1>8, <1>9, <1>10, <1>a

\* An action with thinking blocks and an action behind it, with nothing but actions and
\* results between them, are in one unit of the view.
LEMMA LoopUnit ==
  ASSUME NEW l, Kept(l), NEW i \in 1 .. Len(Output(l)), NEW j \in 1 .. Len(Output(l)), i < j,
         IsAction(Output(l)[i]), Output(l)[i].thinking, IsAction(Output(l)[j]),
         \A k \in i .. j : IsAction(Output(l)[k]) \/ IsResult(Output(l)[k])
  PROVE  \E u \in Units(Output(l)) : i \in u[1] .. u[2] /\ j \in u[1] .. u[2]
<1> DEFINE out == Output(l)
           b == out[i].batch
           c == out[j].batch
           ends == {LastAt(out, d) : d \in {x \in Batches(out) : InLoop(out, b, x)}}
<1>1. Logged(l)
  BY DEF Kept
<1>2. /\ out \in Seq(Records) /\ Len(out) \in Nat /\ DOMAIN out = 1 .. Len(out)
  BY <1>1, ShownIds
<1>3. b = out[i].id
  BY ActionAt
<1>4. \A q \in 1 .. Len(out) : IsAction(out[q]) =>
        /\ out[q].batch \in Nat
        /\ out[q].batch = b => i <= q
        /\ out[q].batch > b => i < q
        /\ out[q].batch < b => q < i
  <2> SUFFICES ASSUME NEW q \in 1 .. Len(out), IsAction(out[q])
               PROVE  /\ out[q].batch \in Nat
                      /\ out[q].batch = b => i <= q
                      /\ out[q].batch > b => i < q
                      /\ out[q].batch < b => q < i
    OBVIOUS
  <2>1. out[q].batch \in Nat
    <3>1. out[q].id \in 1 .. Len(l) /\ out[q].batch \in 1 .. out[q].id /\ Len(l) \in Nat
      BY <1>1, ActionAt DEF Logged
    <3> QED BY <3>1
  <2>2. /\ out[q].batch = b => i <= q
        /\ out[q].batch > b => i < q
        /\ out[q].batch < b => q < i
    BY <1>3, BatchesInOrder
  <2> QED BY <2>1, <2>2
<1>5. /\ IsAction(out[i]) /\ out[i].thinking /\ IsAction(out[j]) /\ i < j
      /\ i \in 1 .. Len(out) /\ j \in 1 .. Len(out)
      /\ \A k \in i .. j : IsAction(out[k]) \/ IsResult(out[k])
  OBVIOUS
<1>a. out = Output(l)
  OBVIOUS
<1> HIDE DEF out
<1>6. i \in Positions(out, b) /\ j \in Positions(out, c) /\ b \in Batches(out) /\ c \in Batches(out)
  BY <1>2, <1>5 DEF Positions, Batches, Actions, Elements
<1>b. b \in Nat /\ c \in Nat
  BY <1>4, <1>5
<1> HIDE DEF b, c
<1>7. \A d \in Batches(out) :
        /\ FirstAt(out, d) \in 1 .. Len(out) /\ FirstAt(out, d) \in Positions(out, d)
        /\ \A p \in Positions(out, d) : FirstAt(out, d) <= p
        /\ LastAt(out, d) \in 1 .. Len(out)
        /\ \A p \in Positions(out, d) : p <= LastAt(out, d)
  <2> SUFFICES ASSUME NEW d \in Batches(out)
               PROVE  /\ FirstAt(out, d) \in 1 .. Len(out) /\ FirstAt(out, d) \in Positions(out, d)
                      /\ \A p \in Positions(out, d) : FirstAt(out, d) <= p
                      /\ LastAt(out, d) \in 1 .. Len(out)
                      /\ \A p \in Positions(out, d) : p <= LastAt(out, d)
    OBVIOUS
  <2>1. /\ FirstAt(out, d) \in Positions(out, d)
        /\ \A p \in Positions(out, d) : FirstAt(out, d) <= p
        /\ Positions(out, d) \subseteq 1 .. Len(out)
        /\ LastAt(out, d) \in 1 .. Len(out)
        /\ \A p \in Positions(out, d) \cup ResultPositions(out, d) : p <= LastAt(out, d)
    BY <1>2, UnitIs
  <2> QED BY <2>1
<1>8. FirstAt(out, b) = i
  <2>1. FirstAt(out, b) <= i /\ FirstAt(out, b) \in Positions(out, b) /\ FirstAt(out, b) \in 1 .. Len(out)
    BY <1>6, <1>7
  <2>2. IsAction(out[FirstAt(out, b)]) /\ out[FirstAt(out, b)].batch = b
    BY <2>1 DEF Positions
  <2>3. i <= FirstAt(out, b)
    BY <1>4, <2>1, <2>2
  <2> QED BY <1>5, <2>1, <2>3
<1>9. FirstAt(out, c) <= j /\ i <= FirstAt(out, c) /\ FirstAt(out, c) \in 1 .. Len(out)
  <2>1. FirstAt(out, c) <= j /\ FirstAt(out, c) \in Positions(out, c) /\ FirstAt(out, c) \in 1 .. Len(out)
    BY <1>6, <1>7
  <2>2. IsAction(out[FirstAt(out, c)]) /\ out[FirstAt(out, c)].batch = c
    BY <2>1 DEF Positions
  <2>3. ~ (c < b)
    <3>1. IsAction(out[j]) /\ out[j].batch = c /\ ~ (j < i)
      BY <1>5 DEF c
    <3> QED BY <1>4, <1>5, <3>1
  <2>4. c = b \/ c > b
    BY <1>b, <2>3
  <2>5. i <= FirstAt(out, c)
    BY <1>4, <1>5, <2>1, <2>2, <2>4
  <2> QED BY <2>1, <2>5
<1>10. InLoop(out, b, c)
  <2>1. ASSUME NEW d \in Batches(out),
               FirstAt(out, b) < FirstAt(out, d), FirstAt(out, d) <= FirstAt(out, c)
        PROVE  LET before == {x \in Batches(out) : /\ FirstAt(out, b) <= FirstAt(out, x)
                                                   /\ FirstAt(out, x) < FirstAt(out, d)}
                   end == MaxOf({LastAt(out, x) : x \in before})
               IN  \A k \in end + 1 .. FirstAt(out, d) - 1 : IsAction(out[k]) \/ IsResult(out[k])
    <3> DEFINE before == {x \in Batches(out) : /\ FirstAt(out, b) <= FirstAt(out, x)
                                               /\ FirstAt(out, x) < FirstAt(out, d)}
               S == {LastAt(out, x) : x \in before}
               end == MaxOf(S)
    <3>1. S \subseteq 0 .. Len(out)
      BY <1>2, <1>7
    <3>2. LastAt(out, b) \in S
      <4>1. FirstAt(out, b) <= FirstAt(out, b)
        BY <1>5, <1>8
      <4>2. b \in before
        BY <1>6, <2>1, <4>1
      <4> HIDE DEF before
      <4> QED BY <4>2
    <3> HIDE DEF S
    <3>3. MaxOf(S) \in S /\ \A y \in S : y <= MaxOf(S)
      BY <1>2, <3>1, <3>2, MaxIs
    <3>4. i <= MaxOf(S) /\ MaxOf(S) \in Int
      <4>1. LastAt(out, b) <= MaxOf(S)
        BY <3>2, <3>3
      <4>2. i <= LastAt(out, b) /\ LastAt(out, b) \in Int
        BY <1>6, <1>7
      <4>3. MaxOf(S) \in Int
        <5>1. MaxOf(S) \in S
          BY <3>3
        <5> DEFINE z == MaxOf(S)
        <5> HIDE DEF z
        <5>2. z \in S
          BY <5>1 DEF z
        <5>3. z \in 0 .. Len(out)
          BY <3>1, <5>2
        <5>4. z \in Int
          BY <1>2, <5>3
        <5> QED BY <5>4 DEF z
      <4> QED BY <1>5, <4>1, <4>2, <4>3
    <3>5. FirstAt(out, d) <= j /\ FirstAt(out, d) \in Int
      <4>1. FirstAt(out, d) \in 1 .. Len(out)
        BY <1>7
      <4> QED BY <1>5, <1>9, <2>1, <4>1
    <3>6. \A k \in end + 1 .. FirstAt(out, d) - 1 : k \in i .. j
      BY <1>5, <3>4, <3>5
    <3>7. \A k \in end + 1 .. FirstAt(out, d) - 1 : IsAction(out[k]) \/ IsResult(out[k])
      BY <1>5, <3>6
    <3> QED BY <3>7 DEF S
  <2>2. FirstAt(out, b) <= FirstAt(out, c)
    BY <1>8, <1>9
  <2> QED BY <2>1, <2>2 DEF InLoop
<1>11. j <= MaxOf(ends) /\ MaxOf(ends) \in Int
  <2>1. /\ MaxOf(ends) \in 1 .. Len(out)
        /\ \A d \in Batches(out) : InLoop(out, b, d) => LastAt(out, d) <= MaxOf(ends)
    BY <1>2, <1>6, LoopIs
  <2> HIDE DEF ends
  <2>2. LastAt(out, c) <= MaxOf(ends)
    BY <1>6, <1>10, <2>1
  <2>3. j <= LastAt(out, c) /\ LastAt(out, c) \in Int
    BY <1>6, <1>7
  <2> QED BY <1>5, <2>1, <2>2, <2>3
<1>12. <<i, MaxOf(ends)>> \in Units(out)
  <2>1. Thinks(out, b)
    BY <1>5, <1>8 DEF Thinks
  <2>2. <<FirstAt(out, b), MaxOf(ends)>> \in Units(out)
    BY <1>6, <2>1 DEF Units
  <2> QED BY <1>8, <2>2
<1> DEFINE u == <<i, MaxOf(ends)>>
<1>13. u \in Units(out) /\ u[1] = i /\ u[2] = MaxOf(ends)
  BY <1>12
<1> HIDE DEF u, ends
<1>14. i \in u[1] .. u[2] /\ j \in u[1] .. u[2]
  BY <1>5, <1>11, <1>13
<1> QED BY <1>13, <1>14, <1>a

\* A request at the end of the log is not shown.
LEMMA RequestIs ==
  ASSUME NEW l, Kept(l)
  PROVE  LET x == Extend(l, <<Event("condensation_request")>>)
         IN  /\ Len(x) = Len(l) + 1 /\ x[Len(x)].kind = "condensation_request"
             /\ Output(x) = Output(l)
             /\ Pending(x) = <<>> => Pending(l) = <<>>
<1> DEFINE r == Event("condensation_request")
           s == <<r>>
           x == Extend(l, s)
           n == Len(l)
<1>1. Logged(l) /\ n \in Nat
  BY DEF Kept, Logged
<1>2. Follows(l, s)
  BY <1>1, EventFollows
<1>3. Len(s) = 1 /\ s[1] = r /\ 1 \in 1 .. 1
  OBVIOUS
<1>4. r.kind = "condensation_request"
  <2>1. "condensation_request" \in Kinds
    BY DEF Kinds
  <2> QED BY <2>1, Made
<1> HIDE DEF s, r
<1>5. /\ Logged(x) /\ Len(x) = n + Len(s)
      /\ \A i \in 1 .. n : x[i] = l[i]
      /\ \A k \in 1 .. Len(s) : x[n + k].kind = s[k].kind
  BY <1>1, <1>2, ExtendIs
<1> HIDE DEF x
<1>6. Len(x) = n + 1 /\ x[n + 1].kind = "condensation_request"
  BY <1>3, <1>4, <1>5
<1>7. Output(x) = Output(l)
  <2>1. PICK g : Runs(g, x) /\ g[n] = Output(l) /\ g[Len(x)] = Output(x)
    <3>1. Len(l) <= Len(x)
      BY <1>1, <1>6
    <3> QED BY <1>1, <1>5, <3>1, OutputGoesOn
  <2> DEFINE h == n + 1
  <2>2. h \in 1 .. Len(x) /\ h - 1 = n /\ h = Len(x)
    BY <1>1, <1>6
  <2>3. x[h].kind = "condensation_request"
    BY <1>6
  <2> HIDE DEF h
  <2>4. g[h] = NextOutput(x[h], g[h - 1])
    BY <2>1, <2>2 DEF Runs
  <2>5. NextOutput(x[h], g[h - 1]) = g[h - 1]
    BY <2>3 DEF NextOutput, Convertible, ResultKinds
  <2> QED BY <2>1, <2>2, <2>4, <2>5
<1>8. ASSUME Pending(x) = <<>> PROVE Pending(l) = <<>>
  <2>1. \A a \in Actions(Elements(x)) : ResultsOf(a, Elements(x)) # {}
    BY <1>5, <1>8, NonePending
  <2>2. DOMAIN l = 1 .. n /\ DOMAIN x = 1 .. n + 1
    BY <1>1, <1>5, <1>6 DEF Logged
  <2>3. \A a \in Elements(l) : a \in Elements(x)
    BY <1>1, <1>5, <2>2 DEF Elements
  <2>4. \A a \in Elements(x) : a \in Elements(l) \/ a.kind = "condensation_request"
    BY <1>1, <1>5, <1>6, <2>2 DEF Elements
  <2>5. ASSUME NEW a \in Actions(Elements(l)) PROVE ResultsOf(a, Elements(l)) # {}
    <3>1. a \in Actions(Elements(x))
      BY <2>3 DEF Actions
    <3>2. PICK y \in ResultsOf(a, Elements(x)) : TRUE
      BY <2>1, <3>1
    <3>3. y \in Elements(x) /\ IsResult(y) /\ y.call = a.call
      BY <3>2 DEF ResultsOf
    <3>4. y \in Elements(l)
      BY <2>4, <3>3 DEF IsResult, ResultKinds
    <3> QED BY <3>3, <3>4 DEF ResultsOf
  <2> QED BY <1>1, <2>5, NonePending
<1> QED BY <1>6, <1>7, <1>8 DEF x, s, r, n

\* A condensation takes both ends of a tool loop away, or none.
LEMMA CondenseWhole ==
  ASSUME NEW l, Kept(l), Condense(l),
         NEW i \in 1 .. Len(Output(l)), NEW j \in 1 .. Len(Output(l)), i < j,
         IsAction(Output(l)[i]), Output(l)[i].thinking, IsAction(Output(l)[j]),
         \A k \in i .. j : IsAction(Output(l)[k]) \/ IsResult(Output(l)[k])
  PROVE  Output(l)[i] \in Shown(log') <=> Output(l)[j] \in Shown(log')
<1> DEFINE out == Output(l)
<1>1. Logged(l) /\ InOrder(out) /\ Pending(l) = <<>>
  BY DEF Kept, Condense
<1>2. out \in Seq(Records) /\ Len(out) \in Nat
  BY <1>1, ShownIds
<1>b. PICK from \in Cuts(out), to \in Cuts(out) : \E c :
        /\ from < to /\ Condensation(l, from, to, c)
        /\ Logged(Append(l, c)) /\ log' = Append(l, c)
  BY CondenseIs
<1>3. PICK c : /\ from < to /\ Condensation(l, from, to, c)
               /\ Logged(Append(l, c)) /\ log' = Append(l, c)
  BY <1>b
<1>4. PICK u \in Units(out) : i \in u[1] .. u[2] /\ j \in u[1] .. u[2]
  BY LoopUnit
<1>a. /\ i \in 1 .. Len(out) /\ j \in 1 .. Len(out) /\ IsAction(out[i]) /\ IsAction(out[j])
      /\ out = Output(l)
  OBVIOUS
<1> HIDE DEF out
<1>5. from \in 0 .. Len(out) /\ to \in from .. Len(out) /\ from <= to
  <2>1. Cuts(out) \subseteq 0 .. Len(out)
    BY <1>2, CutsAre
  <2>2. from \in 0 .. Len(out) /\ to \in 0 .. Len(out)
    BY <2>1
  <2> QED BY <1>2, <1>3, <2>2
<1>6. (from < i /\ i <= to) <=> (from < j /\ j <= to)
  BY <1>2, <1>4, <1>5, UnitsStay
<1>7. /\ Kept(Append(l, c)) /\ Pending(Append(l, c)) = <<>>
  <2>1. from \in Cuts(Output(l)) /\ to \in Cuts(Output(l))
    BY <1>a
  <2> QED BY <1>1, <1>3, <1>5, <2>1, CondenseKeeps
<1>8. Shown(Append(l, c)) = Elements(Output(Append(l, c)))
  BY <1>7, NothingHidden
<1>9. \A z : z.kind # "summary" =>
        (z \in Elements(Output(Append(l, c))) <=> z \in Elements(out) /\ z.id \notin c.forgets)
  <2>1. from \in 0 .. Len(Output(l)) /\ to \in from .. Len(Output(l)) /\ InOrder(Output(l))
    BY <1>1, <1>5, <1>a
  <2>2. \A z : z.kind # "summary" =>
          (z \in Elements(Output(Append(l, c)))
             <=> z \in Elements(Output(l)) /\ z.id \notin c.forgets)
    BY <1>1, <1>3, <2>1, OutputCondensed
  <2> QED BY <1>a, <2>2
<1>10. ASSUME NEW p \in 1 .. Len(out), IsAction(out[p])
       PROVE  out[p] \in Shown(Append(l, c)) <=> ~ (from < p /\ p <= to)
  <2>1. out[p] \in Elements(out) /\ out[p].kind # "summary"
    <3>1. DOMAIN out = 1 .. Len(out)
      BY <1>2
    <3> QED BY <1>10, <3>1 DEF Elements, IsAction
  <2>2. c.forgets = {out[k].id : k \in from + 1 .. to}
    BY <1>3, <1>a DEF Condensation
  <2>3. out[p].id \in c.forgets <=> p \in from + 1 .. to
    <3>1. \A k \in from + 1 .. to : k \in 1 .. Len(out)
      BY <1>2, <1>5
    <3>2. \A k \in 1 .. Len(out) : out[k].id = out[p].id => k = p
      <4>1. \A g, h \in 1 .. Len(out) : g < h => out[g].id # out[h].id
        BY <1>1 DEF InOrder
      <4>2. \A k \in 1 .. Len(out) : k = p \/ k < p \/ p < k
        BY <1>2
      <4> QED BY <4>1, <4>2
    <3> QED BY <2>2, <3>1, <3>2
  <2>4. p \in from + 1 .. to <=> (from < p /\ p <= to)
    BY <1>2, <1>5
  <2> QED BY <1>8, <1>9, <2>1, <2>3, <2>4
<1>11. out[i] \in Shown(Append(l, c)) <=> out[j] \in Shown(Append(l, c))
  BY <1>6, <1>10, <1>a
<1> QED BY <1>3, <1>11, <1>a

\* The step condenses the log, or the log with a request behind it; the view is the same.
LEMMA CondensingIs ==
  ASSUME LogInv, [Next]_vars, Condensing
  PROVE  \E x : Kept(x) /\ Condense(x) /\ FromEvents(log) = Output(x)
<1> DEFINE l == Extend(log, <<Event("condensation_request")>>)
<1>1. Kept(log) /\ going \in BOOLEAN /\ Logged(log) /\ Len(log) \in Nat
  BY DEF LogInv, Kept, Logged
<1>2. log' = log \/ Grown(log) \/ (Kept(l) /\ Grown(l))
  BY <1>1, NextIs
<1>3. /\ Len(l) = Len(log) + 1 /\ l[Len(l)].kind = "condensation_request"
      /\ Output(l) = Output(log)
      /\ Pending(l) = <<>> => Pending(log) = <<>>
  BY <1>1, RequestIs
<1> HIDE DEF l
<1>4. Len(log') > Len(log) /\ log'[Len(log')].kind = "condensation"
  BY DEF Condensing
<1>5. log' # log
  BY <1>1, <1>4
<1>6. ASSUME NEW x, Kept(x), NEW s, Follows(x, s), log' = Extend(x, s), x = log \/ x = l
      PROVE  FALSE
  <2>1. /\ Len(log') = Len(x) + Len(s) /\ Len(x) \in Nat /\ Len(s) \in Nat
        /\ \A k \in 1 .. Len(x) : log'[k] = x[k]
        /\ \A k \in 1 .. Len(s) : log'[Len(x) + k].kind # "condensation"
    <3>1. Logged(x)
      BY <1>6 DEF Kept
    <3> QED BY <1>6, <3>1, ExtendIs
  <2>2. CASE Len(s) > 0
    <3>1. Len(s) \in 1 .. Len(s)
      BY <2>1, <2>2
    <3> QED BY <1>4, <2>1, <3>1
  <2>3. CASE Len(s) = 0
    <3>1. Len(log') = Len(x)
      BY <2>1, <2>3
    <3>2. x = l
      BY <1>1, <1>4, <1>6, <3>1
    <3>3. Len(x) \in 1 .. Len(x)
      BY <1>1, <1>3, <3>2
    <3>4. log'[Len(log')] = l[Len(l)]
      BY <2>1, <3>1, <3>2, <3>3
    <3> QED BY <1>3, <1>4, <3>4
  <2> QED BY <2>1, <2>2, <2>3
<1>7. PICK x : Kept(x) /\ Condense(x) /\ (x = log \/ x = l)
  BY <1>1, <1>2, <1>5, <1>6 DEF Grown
<1>8. Output(x) = Output(log) /\ Pending(log) = <<>>
  <2>1. Pending(x) = <<>>
    BY <1>7 DEF Condense
  <2> QED BY <1>3, <1>7, <2>1
<1>9. FromEvents(log) = Output(x)
  BY <1>1, <1>8, NothingHidden
<1> QED BY <1>7, <1>9

\* What a step that condenses keeps together.
LEMMA LoopStep ==
  LogInv /\ [Next]_vars =>
    [Condensing =>
       LET view == FromEvents(log)
           shown == Shown(log')
       IN  \A i, j \in DOMAIN view :
             /\ i < j /\ IsAction(view[i]) /\ view[i].thinking /\ IsAction(view[j])
             /\ \A k \in i .. j : IsAction(view[k]) \/ IsResult(view[k])
             => (view[i] \in shown <=> view[j] \in shown)]_vars
<1> SUFFICES ASSUME LogInv, [Next]_vars, Condensing,
                    NEW i \in DOMAIN FromEvents(log), NEW j \in DOMAIN FromEvents(log),
                    i < j, IsAction(FromEvents(log)[i]), FromEvents(log)[i].thinking,
                    IsAction(FromEvents(log)[j]),
                    \A k \in i .. j : IsAction(FromEvents(log)[k]) \/ IsResult(FromEvents(log)[k])
             PROVE  FromEvents(log)[i] \in Shown(log') <=> FromEvents(log)[j] \in Shown(log')
  OBVIOUS
<1>1. PICK x : Kept(x) /\ Condense(x) /\ FromEvents(log) = Output(x)
  BY CondensingIs
<1> DEFINE out == Output(x)
<1>10. /\ i \in DOMAIN out /\ j \in DOMAIN out
       /\ IsAction(out[i]) /\ out[i].thinking /\ IsAction(out[j])
       /\ \A k \in i .. j : IsAction(out[k]) \/ IsResult(out[k])
  BY <1>1
<1>11. /\ out \in Seq(Records) /\ Len(out) \in Nat
  <2>1. Logged(x)
    BY <1>1 DEF Kept
  <2> QED BY <2>1, ShownIds
<1>12. i \in 1 .. Len(out) /\ j \in 1 .. Len(out)
  <2> HIDE DEF out
  <2> QED BY <1>10, <1>11
<1>13. out[i] \in Shown(log') <=> out[j] \in Shown(log')
  BY <1>1, <1>10, <1>12, CondenseWhole
<1> QED BY <1>1, <1>13

\* In any run, for any limits: an action with thinking blocks and the calls that follow it
\* without a message between are forgotten together or not at all.
THEOREM LoopsStayWhole == Spec => LoopsWhole
  BY LogInit, LogStep, LoopStep, PTL DEF Spec, LoopsWhole

\* What stands in front of the slice stays where it is.
LEMMA CondensedFront ==
  ASSUME NEW l, Logged(l), NEW i \in 0 .. Len(Output(l)), NEW j \in i .. Len(Output(l)),
         NEW c, Condensation(l, i, j, c), NEW p \in 1 .. i
  PROVE  p <= Len(Condensed(l, i, j, c)) /\ Condensed(l, i, j, c)[p] = Output(l)[p]
<1> DEFINE out == Output(l)
           kept == Without(out, i, j)
           sum == SummaryOf(c)
<1>1. out \in Seq(Records) /\ Len(out) \in Nat /\ i \in 0 .. Len(out) /\ j \in i .. Len(out)
  BY ShownIds
<1>2. Condensed(l, i, j, c) = IF c.offset = -1 THEN kept ELSE InsertAfter(kept, i, sum)
  BY DEF Condensed
<1>3. sum \in Records
  BY SummaryIs DEF Condensation
<1>a. out[p] = Output(l)[p]
  OBVIOUS
<1> HIDE DEF out, sum
<1>4. /\ kept \in Seq(Records) /\ Len(kept) = Len(out) - (j - i)
      /\ \A k \in 1 .. Len(kept) : k <= i => kept[k] = out[k]
  BY <1>1, WithoutIs
<1> HIDE DEF kept
<1>5. i \in 0 .. Len(kept) /\ p \in 1 .. Len(kept) /\ p \in 1 .. Len(kept) + 1 /\ p <= i
  BY <1>1, <1>4
<1>6. CASE c.offset = -1
  BY <1>2, <1>4, <1>5, <1>6, <1>a
<1>7. CASE c.offset # -1
  <2> DEFINE t == InsertAfter(kept, i, sum)
  <2>1. Len(t) = Len(kept) + 1 /\ t[p] = kept[p]
    <3>1. /\ Len(t) = Len(kept) + 1
          /\ \A h \in 1 .. Len(kept) + 1 :
               t[h] = IF h <= i THEN kept[h] ELSE IF h = i + 1 THEN sum ELSE kept[h - 1]
      <4>1. kept \in Seq(Records)
        BY <1>4
      <4>2. i \in 0 .. Len(kept)
        BY <1>5
      <4> QED BY <1>3, <4>1, <4>2, InsertedIs, SMTT(20)
    <3> HIDE DEF t
    <3> QED BY <1>5, <3>1
  <2>2. p <= Len(t)
    BY <1>4, <1>5, <2>1
  <2> HIDE DEF t
  <2>3. Condensed(l, i, j, c) = t
    BY <1>2, <1>7 DEF t
  <2> QED BY <1>4, <1>5, <1>a, <2>1, <2>2, <2>3
<1> QED BY <1>6, <1>7

\* A step that condenses leaves the front of the view.
LEMMA FrontStep ==
  LogInv /\ [Next]_vars =>
    [Condensing => \A i \in DOMAIN FromEvents(log) :
                     i <= KeepFirst => /\ i <= Len(FromEvents(log'))
                                       /\ FromEvents(log')[i] = FromEvents(log)[i]]_vars
<1> SUFFICES ASSUME LogInv, [Next]_vars, Condensing,
                    NEW p \in DOMAIN FromEvents(log), p <= KeepFirst
             PROVE  p <= Len(FromEvents(log')) /\ FromEvents(log')[p] = FromEvents(log)[p]
  OBVIOUS
<1>1. PICK x : Kept(x) /\ Condense(x) /\ FromEvents(log) = Output(x)
  BY CondensingIs
<1>2. PICK i \in Cuts(Output(x)), j \in Cuts(Output(x)) : \E c :
        /\ KeepFirst <= i /\ i < j /\ Condensation(x, i, j, c)
        /\ Logged(Append(x, c)) /\ log' = Append(x, c)
  BY <1>1, CondenseIs
<1>3. PICK c : /\ KeepFirst <= i /\ i < j /\ Condensation(x, i, j, c)
               /\ Logged(Append(x, c)) /\ log' = Append(x, c)
  BY <1>2
<1> DEFINE out == Output(x)
<1>4. Logged(x) /\ out \in Seq(Records) /\ Len(out) \in Nat /\ Pending(x) = <<>>
  BY <1>1, ShownIds DEF Kept, Condense
<1>a. out = Output(x)
  OBVIOUS
<1> HIDE DEF out
<1>5. i \in 0 .. Len(out) /\ j \in i .. Len(out) /\ i <= j
  <2>1. Cuts(out) \subseteq 0 .. Len(out)
    BY <1>4, CutsAre
  <2>2. i \in 0 .. Len(out) /\ j \in 0 .. Len(out)
    BY <1>a, <2>1
  <2> QED BY <1>3, <1>4, <2>2
<1>6. p \in 1 .. i
  <2>1. p \in 1 .. Len(out)
    BY <1>1, <1>4, <1>a
  <2>2. KeepFirst \in Nat
    BY CondenserAssumption
  <2> QED BY <1>3, <1>5, <2>1, <2>2
<1>7. p <= Len(Condensed(x, i, j, c)) /\ Condensed(x, i, j, c)[p] = Output(x)[p]
  BY <1>3, <1>4, <1>5, <1>6, <1>a, CondensedFront
<1>8. FromEvents(log') = Condensed(x, i, j, c)
  <2>1. /\ Kept(Append(x, c)) /\ Pending(Append(x, c)) = <<>>
        /\ Output(Append(x, c)) = Condensed(x, i, j, c)
    BY <1>1, <1>3, <1>4, <1>5, CondenseKeeps
  <2> QED BY <1>3, <2>1, NothingHidden
<1> QED BY <1>1, <1>7, <1>8

\* In any run, for any limits: what stands in the first places of the view, as many as the
\* condenser keeps there, is not condensed and does not move.
THEOREM FrontStaysKept == Spec => FirstKept
  BY LogInit, LogStep, FrontStep, PTL DEF Spec, FirstKept

-----------------------------------------------------------------------------
(***************************************************************************)
(* The undo history of a file (FileEditor), for any texts, any length and  *)
(* any number of changes by the editor and by others.                      *)
(***************************************************************************)

(***************************************************************************)
(* The inductive invariant.  The entries are a suffix of the past (the     *)
(* oldest fall out), so the k-th last of both belong together; a new entry *)
(* gets a number no entry has, so that it does not overwrite one (Fresh).  *)
(***************************************************************************)
Sequences == /\ entries \in Seq(Nat) /\ counter \in Nat
             /\ \E T : past \in Seq(T)
Fresh == \A i \in 1 .. Len(entries) : entries[i] < counter
NoLonger == Len(entries) <= Len(past)
Aligned == \A k \in 0 .. Len(entries) - 1 : Was(k) # Absent => Entry(k) = Was(k)

HistoryInv == Sequences /\ Fresh /\ NoLonger /\ Aligned

\* What is left of a list without its last entry.
LEMMA FrontProperties ==
  ASSUME NEW S, NEW s \in Seq(S), Len(s) # 0
  PROVE  /\ Front(s) \in Seq(S) /\ Len(Front(s)) = Len(s) - 1
         /\ \A i \in 1 .. Len(s) - 1 : Front(s)[i] = s[i]
<1> DEFINE n == Len(s) - 1
<1>1. n \in Nat /\ \A i \in 1 .. n : s[i] \in S
  OBVIOUS
<1>2. Front(s) = SubSeq(s, 1, n)
  BY DEF Front
<1> HIDE DEF n
<1>3. /\ SubSeq(s, 1, n) \in Seq(S)
      /\ Len(SubSeq(s, 1, n)) = IF 1 <= n THEN n - 1 + 1 ELSE 0
      /\ \A i \in 1 .. n - 1 + 1 : SubSeq(s, 1, n)[i] = s[1 + i - 1]
  BY <1>1, SubSeqProperties
<1>4. Len(SubSeq(s, 1, n)) = n /\ \A i \in 1 .. n : SubSeq(s, 1, n)[i] = s[i]
  BY <1>1, <1>3
<1> QED BY <1>2, <1>3, <1>4 DEF n

\* add_history keeps the last entries, in place as counted from the end.
LEMMA OldestProperties ==
  ASSUME NEW e \in Seq(Nat)
  PROVE  /\ Oldest(e) \in Seq(Nat) /\ Len(Oldest(e)) <= Len(e)
         /\ \A k \in 0 .. Len(Oldest(e)) - 1 : Oldest(e)[Len(Oldest(e)) - k] = e[Len(e) - k]
         /\ \A i \in 1 .. Len(Oldest(e)) : \E j \in 1 .. Len(e) : Oldest(e)[i] = e[j]
<1> DEFINE d == IF Len(e) > MaxHistory THEN Len(e) - MaxHistory ELSE 0
<1>1. d \in 0 .. Len(e) /\ MaxHistory \in Nat
  BY EditorAssumption
<1>2. Oldest(e) = SubSeq(e, 1 + d, Len(e))
  BY DEF Oldest
<1> HIDE DEF d
<1>3. \A i \in 1 + d .. Len(e) : e[i] \in Nat
  BY <1>1
<1>4. /\ Oldest(e) \in Seq(Nat)
      /\ Len(Oldest(e)) = Len(e) - d
      /\ \A i \in 1 .. Len(e) - d : Oldest(e)[i] = e[d + i]
  BY <1>1, <1>2, <1>3, SubSeqProperties
<1>5. ASSUME NEW k \in 0 .. Len(Oldest(e)) - 1
      PROVE  Oldest(e)[Len(Oldest(e)) - k] = e[Len(e) - k]
  <2>1. Len(Oldest(e)) - k \in 1 .. Len(e) - d /\ d + (Len(Oldest(e)) - k) = Len(e) - k
    BY <1>1, <1>4
  <2> QED BY <1>4, <2>1
<1>6. ASSUME NEW i \in 1 .. Len(Oldest(e)) PROVE \E j \in 1 .. Len(e) : Oldest(e)[i] = e[j]
  <2>1. d + i \in 1 .. Len(e) /\ Oldest(e)[i] = e[d + i]
    BY <1>1, <1>4
  <2> QED BY <2>1
<1>7. Len(Oldest(e)) <= Len(e)
  BY <1>1, <1>4
<1> DEFINE o == Oldest(e)
<1>8. o \in Seq(Nat)
  BY <1>4
<1> QED BY <1>5, <1>6, <1>7, <1>8

\* An edit or a create: a text enters the history, and the past gets longer by p.
LEMMA PushStep ==
  ASSUME HistoryInv, NEW text, NEW p, AddHistory(text), past' = Append(past, p),
         p # Absent => text = p
  PROVE  HistoryInv'
<1> USE DEF HistoryInv
<1> DEFINE e == Append(entries, counter)
           n == Len(entries)
           kept == Oldest(e)
<1>a. entries \in Seq(Nat) /\ n \in Nat /\ counter \in Nat
  BY DEF Sequences
<1>b. /\ e \in Seq(Nat) /\ Len(e) = n + 1 /\ e[n + 1] = counter
      /\ \A i \in 1 .. n : e[i] = entries[i]
  BY <1>a, AppendProperties
<1>c. \A i \in 1 .. n : entries[i] < counter
  BY DEF Fresh
<1>1. /\ n \in Nat /\ counter \in Nat /\ e \in Seq(Nat) /\ Len(e) = n + 1 /\ e[n + 1] = counter
      /\ \A i \in 1 .. n : e[i] = entries[i] /\ entries[i] < counter
  BY <1>a, <1>b, <1>c
<1>2. PICK T : past \in Seq(T)
  BY DEF Sequences
<1>3. past \in Seq(T \cup {p})
  BY <1>2
<1>4. /\ past' \in Seq(T \cup {p}) /\ Len(past') = Len(past) + 1 /\ past'[Len(past) + 1] = p
      /\ \A i \in 1 .. Len(past) : past'[i] = past[i]
      /\ Len(past) \in Nat /\ n <= Len(past)
  BY <1>2, <1>3, AppendProperties DEF NoLonger
<1>5. /\ entries' = kept /\ counter' = counter + 1
      /\ cache' = [i \in ToSet(kept) |-> IF i = counter THEN text ELSE cache[i]]
  BY DEF AddHistory
<1> HIDE DEF e, n, kept
<1>6. /\ kept \in Seq(Nat) /\ Len(kept) \in Nat /\ Len(kept) <= n + 1
      /\ \A k \in 0 .. Len(kept) - 1 : kept[Len(kept) - k] = e[n + 1 - k]
      /\ \A i \in 1 .. Len(kept) : \E j \in 1 .. n + 1 : kept[i] = e[j]
  <2>1. /\ Oldest(e) \in Seq(Nat) /\ Len(Oldest(e)) <= Len(e)
        /\ \A k \in 0 .. Len(Oldest(e)) - 1 : Oldest(e)[Len(Oldest(e)) - k] = e[Len(e) - k]
        /\ \A i \in 1 .. Len(Oldest(e)) : \E j \in 1 .. Len(e) : Oldest(e)[i] = e[j]
    BY <1>1, OldestProperties
  <2>2. Len(kept) \in Nat
    BY <2>1 DEF kept
  <2> QED BY <1>1, <2>1, <2>2 DEF kept
<1>7. Sequences'
  BY <1>1, <1>4, <1>5, <1>6 DEF Sequences
<1>8. Fresh' /\ NoLonger'
  <2>1. \A j \in 1 .. n + 1 : e[j] < counter + 1 /\ e[j] \in Nat
    <3>1. \A j \in 1 .. n : e[j] < counter /\ e[j] \in Nat
      BY <1>1
    <3> QED BY <1>1, <3>1
  <2>2. \A i \in 1 .. Len(kept) : kept[i] < counter + 1
    BY <1>6, <2>1
  <2>3. entries' = kept /\ counter' = counter + 1
    BY <1>5
  <2>4. Fresh'
    BY <2>2, <2>3 DEF Fresh
  <2>5. Len(kept) <= Len(past) + 1 /\ Len(past') = Len(past) + 1
    BY <1>1, <1>4, <1>6
  <2> QED BY <2>3, <2>4, <2>5 DEF NoLonger
<1>9. ASSUME NEW k \in 0 .. Len(kept) - 1, Was(k)' # Absent
      PROVE  Entry(k)' = Was(k)'
  <2>1. kept[Len(kept) - k] = e[n + 1 - k] /\ kept[Len(kept) - k] \in ToSet(kept)
    BY <1>6 DEF ToSet
  <2>2. Entry(k)' = IF e[n + 1 - k] = counter THEN text ELSE cache[e[n + 1 - k]]
    BY <1>5, <2>1 DEF Entry
  <2>3. Was(k)' = past'[Len(past) + 1 - k]
    <3>1. Len(past') - k = Len(past) + 1 - k
      BY <1>4
    <3> QED BY <3>1 DEF Was
  <2>4. CASE k = 0
    BY <1>1, <1>4, <1>9, <2>2, <2>3, <2>4
  <2>5. CASE k # 0
    <3>1. k - 1 \in 0 .. n - 1 /\ n + 1 - k \in 1 .. n /\ Len(past) + 1 - k \in 1 .. Len(past)
      BY <1>1, <1>4, <1>6, <2>5
    <3>2. e[n + 1 - k] = entries[n - (k - 1)] /\ e[n + 1 - k] # counter
      BY <1>1, <3>1
    <3>3. Was(k)' = Was(k - 1) /\ Entry(k)' = Entry(k - 1)
      BY <1>1, <1>4, <2>2, <2>3, <3>1, <3>2 DEF Was, Entry, n
    <3> QED BY <1>9, <3>1, <3>3 DEF Aligned, n
  <2> QED BY <2>4, <2>5
<1>10. Aligned'
  BY <1>5, <1>9 DEF Aligned
<1> QED BY <1>7, <1>8, <1>10

\* undo_edit, whether its write succeeds or not.
LEMMA PopStep ==
  ASSUME HistoryInv, entries # <<>>, entries' = Front(entries),
         cache' = Restrict(cache, ToSet(Front(entries))),
         past' = (IF past = <<>> THEN past ELSE Front(past)), counter' = counter
  PROVE  HistoryInv'
<1> USE DEF HistoryInv
<1> DEFINE n == Len(entries)
<1>1. n \in Nat \ {0} /\ entries \in Seq(Nat) /\ counter \in Nat /\ n <= Len(past)
  BY DEF Sequences, NoLonger
<1>2. PICK T : past \in Seq(T)
  BY DEF Sequences
<1>3. /\ entries' \in Seq(Nat) /\ Len(entries') = n - 1
      /\ \A i \in 1 .. n - 1 : entries'[i] = entries[i]
  BY <1>1, FrontProperties
<1>4. /\ past' \in Seq(T) /\ Len(past') = Len(past) - 1 /\ Len(past) \in Nat
      /\ \A i \in 1 .. Len(past) - 1 : past'[i] = past[i]
  <2>1. Len(past) # 0 /\ Len(past) \in Nat /\ past # <<>>
    BY <1>1, <1>2
  <2> QED BY <1>2, <2>1, FrontProperties
<1>5. cache' = [i \in ToSet(entries') |-> cache[i]]
  BY DEF Restrict
<1> HIDE DEF n
<1>6. Sequences' /\ Fresh' /\ NoLonger'
  <2>1. Sequences'
    BY <1>1, <1>3, <1>4 DEF Sequences
  <2>2. \A i \in 1 .. n - 1 : i \in 1 .. n
    BY <1>1
  <2>3. Fresh'
    BY <1>1, <1>3, <2>2 DEF Fresh, n
  <2>4. NoLonger'
    BY <1>1, <1>3, <1>4 DEF NoLonger
  <2> QED BY <2>1, <2>3, <2>4
<1>7. ASSUME NEW k \in 0 .. n - 2, Was(k)' # Absent
      PROVE  Entry(k)' = Was(k)'
  <2>1. n - 1 - k \in 1 .. n - 1 /\ Len(past) - 1 - k \in 1 .. Len(past) - 1 /\ k + 1 \in 0 .. n - 1
    BY <1>1, <1>4
  <2>2. Was(k)' = past[Len(past) - (k + 1)] /\ Was(k)' = Was(k + 1)
    BY <1>4, <2>1 DEF Was
  <2>3. entries'[n - 1 - k] \in ToSet(entries') /\ entries'[n - 1 - k] = entries[n - (k + 1)]
    BY <1>1, <1>3, <2>1 DEF ToSet
  <2>4. Entry(k)' = Entry(k + 1)
    BY <1>3, <1>5, <2>3 DEF Entry, n
  <2> QED BY <1>7, <2>1, <2>2, <2>4 DEF Aligned, n
<1>8. Aligned'
  BY <1>1, <1>3, <1>7 DEF Aligned
<1> QED BY <1>6, <1>8

\* Every step keeps the invariant, while the file can be edited.
LEMMA HistoryStep == HistoryInv /\ [EditorNext]_editorVars /\ ~ TooLarge(file)' => HistoryInv'
<1> SUFFICES ASSUME HistoryInv, [EditorNext]_editorVars, ~ TooLarge(file)' PROVE HistoryInv'
  OBVIOUS
<1>1. ASSUME NEW t \in Texts, Create(t) PROVE HistoryInv'
  BY <1>1, PushStep DEF Create
<1>2. ASSUME NEW o, NEW t, StrReplace(o, t) PROVE HistoryInv'
  <2>1. past' = Append(past, file) /\ AddHistory(file)
    BY <1>2 DEF StrReplace, Edited
  <2> QED BY <2>1, PushStep
<1>3. ASSUME NEW i, NEW t, Insert(i, t) PROVE HistoryInv'
  <2>1. file' = Inserted(i, t) /\ past' = Append(past, file)
    BY <1>3 DEF Insert, Edited
  <2>2. AddHistory(file)
    BY <1>3, <2>1 DEF Insert, TooLarge
  <2> QED BY <2>1, <2>2, PushStep
<1>4. CASE Undo \/ UndoFails
  BY <1>4, PopStep DEF Undo, UndoFails
<1>5. ASSUME NEW o, NEW t,
             \/ CreateFails(t) \/ StrReplaceFails(o, t) \/ InsertFails(o, t)
             \/ Outside \/ UNCHANGED editorVars
      PROVE  HistoryInv'
  <2>1. UNCHANGED <<entries, counter, cache, past>>
    BY <1>5 DEF CreateFails, StrReplaceFails, InsertFails, WriteDies, NoHistory, Outside,
                editorVars
  <2> QED BY <2>1 DEF HistoryInv, Sequences, Fresh, NoLonger, Aligned, Was, Entry
<1> QED BY <1>1, <1>2, <1>3, <1>4, <1>5 DEF EditorNext

-----------------------------------------------------------------------------
\* As long as the file stays within the size the editor can read, undoing k times brings back
\* the text before the k-th last edit, as far as the history reaches, whatever others do to
\* the file and whatever writes fail.
THEOREM UndoRestores == EditorSpec /\ [](~ TooLarge(file)) => []UndoIsExact
<1>1. EditorInit => HistoryInv
  <2> SUFFICES ASSUME EditorInit PROVE HistoryInv
    OBVIOUS
  <2>1. entries \in Seq(Nat) /\ Len(entries) = 0 /\ past \in Seq({}) /\ Len(past) = 0 /\ counter = 0
    BY DEF EditorInit
  <2> QED BY <2>1 DEF HistoryInv, Sequences, Fresh, NoLonger, Aligned
<1>2. HistoryInv => UndoIsExact
  <2> SUFFICES ASSUME HistoryInv PROVE UndoIsExact
    OBVIOUS
  <2>1. Depth = Len(entries)
    BY DEF HistoryInv, Sequences, NoLonger, Depth
  <2> QED BY <2>1 DEF HistoryInv, Aligned, UndoIsExact
<1> QED BY <1>1, <1>2, HistoryStep, PTL DEF EditorSpec

(***************************************************************************)
(* The output of a command (BashService), for any number of streams, any   *)
(* amount of output and any length of a chunk.                             *)
(***************************************************************************)

CONSTANTS Streams, ChunkLen, MaxRead, Total, Timeouts, Clock, Polls, Failures
VARIABLES proc, written, taken, at, local, shared, order, main, files, now, client, failures
B == INSTANCE BashService WITH MaxLen <- ChunkLen

\* The units that follow the first a, up to b.
Span(a, b) == [j \in 1 .. b - a |-> a + j]

\* Its members and its length.
LEMMA SpanIs ==
  ASSUME NEW a \in Nat, NEW b \in Nat, a <= b
  PROVE  /\ Span(a, b) \in Seq(Nat) /\ Len(Span(a, b)) = b - a
         /\ a = b => Span(a, b) = <<>>
         /\ \A j \in 1 .. b - a : Span(a, b)[j] = a + j
<1> DEFINE n == b - a
<1>1. n \in Nat
  OBVIOUS
<1> HIDE DEF n
<1>2. [j \in 1 .. n |-> a + j] \in [1 .. n -> Nat]
  BY <1>1
<1>3. [j \in 1 .. n |-> a + j] \in Seq(Nat) /\ Len([j \in 1 .. n |-> a + j]) = n
  BY <1>1, <1>2
<1>4. n = 0 => [j \in 1 .. n |-> a + j] = <<>>
  BY <1>3, EmptySeq
<1> QED BY <1>1, <1>3, <1>4 DEF Span, n

\* Spans are put together and taken apart.
LEMMA SpanJoins ==
  ASSUME NEW a \in Nat, NEW b \in Nat, NEW c \in Nat, a <= b, b <= c
  PROVE  Span(a, b) \o Span(b, c) = Span(a, c)
<1> DEFINE s == Span(a, b)  t == Span(b, c)  u == Span(a, c)  n == b - a  m == c - b
<1>1. n \in Nat /\ m \in Nat /\ a + n = b /\ c - a = n + m /\ a <= c
  OBVIOUS
<1>2. /\ s \in Seq(Nat) /\ Len(s) = n /\ \A j \in 1 .. n : s[j] = a + j
      /\ t \in Seq(Nat) /\ Len(t) = m /\ \A j \in 1 .. m : t[j] = b + j
      /\ u \in Seq(Nat) /\ Len(u) = n + m /\ \A j \in 1 .. n + m : u[j] = a + j
  <2>1. s \in Seq(Nat) /\ Len(s) = n /\ \A j \in 1 .. n : s[j] = a + j
    BY SpanIs
  <2>2. t \in Seq(Nat) /\ Len(t) = m /\ \A j \in 1 .. m : t[j] = b + j
    BY SpanIs
  <2>3. u \in Seq(Nat) /\ Len(u) = c - a /\ \A j \in 1 .. c - a : u[j] = a + j
    BY <1>1, SpanIs
  <2> HIDE DEF s, t, u, n, m
  <2> QED BY <1>1, <2>1, <2>2, <2>3
<1> HIDE DEF s, t, u, n, m
<1>3. /\ s \o t \in Seq(Nat) /\ Len(s \o t) = n + m
      /\ \A j \in 1 .. n + m : (s \o t)[j] = IF j <= n THEN s[j] ELSE t[j - n]
  <2>1. /\ s \o t \in Seq(Nat) /\ Len(s \o t) = Len(s) + Len(t)
        /\ \A j \in 1 .. Len(s) + Len(t) : (s \o t)[j] = IF j <= Len(s) THEN s[j] ELSE t[j - Len(s)]
    <3>1. s \in Seq(Nat) /\ t \in Seq(Nat)
      BY <1>2
    <3> QED BY <3>1, ConcatProperties
  <2>2. Len(s) = n /\ Len(t) = m
    BY <1>2
  <2> QED BY <2>1, <2>2
<1>4. ASSUME NEW j \in 1 .. n + m PROVE (s \o t)[j] = u[j]
  <2>1. CASE j <= n
    <3>1. j \in 1 .. n
      BY <1>1, <2>1
    <3> QED BY <1>2, <1>3, <2>1, <3>1
  <2>2. CASE ~ j <= n
    <3>1. j - n \in 1 .. m /\ b + (j - n) = a + j
      BY <1>1, <2>2
    <3> QED BY <1>2, <1>3, <2>2, <3>1
  <2> QED BY <2>1, <2>2
<1>5. s \o t = u
  BY <1>2, <1>3, <1>4, SeqEqual
<1> QED BY <1>5 DEF s, t, u

\* The first m units of a span and the others, which is how a reader cuts its buffer.
LEMMA SpanCut ==
  ASSUME NEW a \in Nat, NEW b \in Nat, NEW m \in Nat, a + m <= b
  PROVE  /\ SubSeq(Span(a, b), 1, m) = Span(a, a + m)
         /\ SubSeq(Span(a, b), m + 1, Len(Span(a, b))) = Span(a + m, b)
<1> DEFINE s == Span(a, b)  t == Span(a, a + m)  u == Span(a + m, b)
<1>1. /\ s \in Seq(Nat) /\ Len(s) = b - a /\ \A j \in 1 .. b - a : s[j] = a + j
      /\ t \in Seq(Nat) /\ Len(t) = m /\ \A j \in 1 .. m : t[j] = a + j
      /\ u \in Seq(Nat) /\ Len(u) = b - (a + m) /\ \A j \in 1 .. b - (a + m) : u[j] = a + m + j
  <2>1. a + m \in Nat /\ a <= a + m /\ (a + m) - a = m /\ a <= b
    OBVIOUS
  <2> QED BY <2>1, SpanIs
<1> HIDE DEF s, t, u
<1>2. SubSeq(s, 1, m) = t
  <2> DEFINE x == SubSeq(s, 1, m)
  <2>1. \A j \in 1 .. m : s[j] \in Nat
    BY <1>1
  <2>2. /\ x \in Seq(Nat) /\ Len(x) = IF 1 <= m THEN m - 1 + 1 ELSE 0
        /\ \A j \in 1 .. m - 1 + 1 : x[j] = s[1 + j - 1]
    BY <2>1, SubSeqProperties
  <2> HIDE DEF x
  <2>3. Len(x) = m /\ \A j \in 1 .. m : x[j] = s[j]
    BY <2>2
  <2>4. \A j \in 1 .. m : s[j] = t[j]
    BY <1>1
  <2>5. t \in Seq(Nat) /\ Len(x) = Len(t) /\ \A j \in 1 .. Len(x) : x[j] = t[j]
    BY <1>1, <2>3, <2>4
  <2>6. x = t
    BY <2>2, <2>5, SeqEqual
  <2> QED BY <2>6 DEF x
<1>3. SubSeq(s, m + 1, Len(s)) = u
  <2> DEFINE n == Len(s)
             x == SubSeq(s, m + 1, n)
  <2>1. n \in Nat /\ n = b - a /\ m + 1 \in Int /\ \A j \in m + 1 .. n : s[j] \in Nat
    BY <1>1
  <2> HIDE DEF n
  <2>2. /\ x \in Seq(Nat) /\ Len(x) = IF m + 1 <= n THEN n - (m + 1) + 1 ELSE 0
        /\ \A j \in 1 .. n - (m + 1) + 1 : x[j] = s[(m + 1) + j - 1]
    BY <2>1, SubSeqProperties
  <2> HIDE DEF x
  <2>3. Len(x) = b - (a + m) /\ \A j \in 1 .. b - (a + m) : x[j] = s[m + j]
    BY <2>1, <2>2
  <2>4. \A j \in 1 .. b - (a + m) : s[m + j] = u[j]
    BY <1>1
  <2>5. u \in Seq(Nat) /\ Len(x) = Len(u) /\ \A j \in 1 .. Len(x) : x[j] = u[j]
    BY <1>1, <2>3, <2>4
  <2>6. x = u
    BY <2>2, <2>5, SeqEqual
  <2> QED BY <2>6 DEF x, n
<1> QED BY <1>2, <1>3 DEF s, t, u

\* What is at place j once something has been put in at p was at this place; every place
\* but p was some place before, and no two were the same.
Old(p, j) == IF j < p THEN j ELSE j - 1
IsInserted(f, p, e, g) ==
  /\ Len(g) = Len(f) + 1 /\ g[p] = e
  /\ \A j \in 1 .. Len(g) : j # p => Old(p, j) \in 1 .. Len(f) /\ g[j] = f[Old(p, j)]
  /\ \A j, k \in 1 .. Len(g) : j # p /\ k # p /\ Old(p, j) = Old(p, k) => j = k
  /\ \A i \in 1 .. Len(f) : \E j \in 1 .. Len(g) : j # p /\ Old(p, j) = i

\* InsertAt of the sequence library puts in one member and keeps the others in order.
LEMMA InsertAtIs ==
  ASSUME NEW R, NEW f \in Seq(R), NEW p \in 1 .. Len(f) + 1, NEW e \in R
  PROVE  B!InsertAt(f, p, e) \in Seq(R) /\ IsInserted(f, p, e, B!InsertAt(f, p, e))
<1> DEFINE g == B!InsertAt(f, p, e)
           a == SubSeq(f, 1, p - 1)  b == SubSeq(f, p, Len(f))  m == <<e>>
<1>1. Len(f) \in Nat /\ p \in Nat
  OBVIOUS
<1>2. a \in Seq(R) /\ Len(a) = p - 1 /\ \A j \in 1 .. p - 1 : a[j] = f[j]
  BY <1>1, SubSeqProperties
<1>3. /\ b \in Seq(R) /\ Len(b) = Len(f) - p + 1
      /\ \A j \in 1 .. Len(f) - p + 1 : b[j] = f[p + j - 1]
  BY <1>1, SubSeqProperties
<1>4. m \in Seq(R) /\ Len(m) = 1 /\ m[1] = e
  OBVIOUS
<1>5. g = (a \o m) \o b
  BY DEF B!InsertAt
<1> HIDE DEF a, b, m, g
<1> DEFINE am == a \o m
<1>6. am \in Seq(R) /\ Len(am) = p /\ am[p] = e /\ \A j \in 1 .. p - 1 : am[j] = f[j]
  <2>1. /\ am \in Seq(R) /\ Len(am) = Len(a) + Len(m)
        /\ \A j \in 1 .. Len(a) + Len(m) : am[j] = IF j <= Len(a) THEN a[j] ELSE m[j - Len(a)]
    BY <1>2, <1>4, ConcatProperties
  <2>2. Len(a) + Len(m) = p /\ Len(a) = p - 1
    BY <1>1, <1>2, <1>4
  <2>3. p - Len(a) = 1
    BY <1>1, <1>2
  <2> HIDE DEF am
  <2> QED BY <1>1, <1>2, <1>4, <2>1, <2>2, <2>3
<1>7. g = am \o b
  BY <1>5
<1> HIDE DEF am
<1>8. g \in Seq(R) /\ Len(g) = Len(f) + 1
  <2>1. am \o b \in Seq(R) /\ Len(am \o b) = Len(am) + Len(b)
    BY <1>3, <1>6, ConcatProperties
  <2> QED BY <1>1, <1>3, <1>6, <1>7, <2>1
<1>c. \A j \in 1 .. Len(f) + 1 : g[j] = IF j <= p THEN am[j] ELSE b[j - p]
  <2>1. \A j \in 1 .. Len(am) + Len(b) : (am \o b)[j] = IF j <= Len(am) THEN am[j] ELSE b[j - Len(am)]
    BY <1>3, <1>6, ConcatProperties
  <2>2. Len(am) + Len(b) = Len(f) + 1 /\ Len(am) = p
    BY <1>1, <1>3, <1>6
  <2> QED BY <1>7, <2>1, <2>2
<1>9. g[p] = e /\ \A j \in 1 .. p - 1 : g[j] = f[j]
  BY <1>1, <1>6, <1>c
<1>10. ASSUME NEW j \in p + 1 .. Len(f) + 1 PROVE g[j] = f[j - 1]
  <2>1. g[j] = b[j - p]
    BY <1>1, <1>c
  <2>2. j - p \in 1 .. Len(f) - p + 1 /\ p + (j - p) - 1 = j - 1
    BY <1>1
  <2> QED BY <1>3, <2>1, <2>2
<1>11. \A j \in 1 .. Len(g) : j # p => Old(p, j) \in 1 .. Len(f) /\ g[j] = f[Old(p, j)]
  BY <1>1, <1>8, <1>9, <1>10 DEF Old
<1>12. \A j, k \in 1 .. Len(g) : j # p /\ k # p /\ Old(p, j) = Old(p, k) => j = k
  BY <1>1, <1>8 DEF Old
<1>13. ASSUME NEW i \in 1 .. Len(f)
       PROVE  \E j \in 1 .. Len(g) : j # p /\ Old(p, j) = i
  <2>1. CASE i < p
    BY <1>1, <1>8, <2>1 DEF Old
  <2>2. CASE i >= p
    <3>1. i + 1 \in 1 .. Len(g) /\ i + 1 # p /\ Old(p, i + 1) = i
      BY <1>1, <1>8, <2>2 DEF Old
    <3> QED BY <3>1
  <2> QED BY <1>1, <2>1, <2>2
<1> QED BY <1>8, <1>9, <1>11, <1>12, <1>13 DEF IsInserted, g

\* The events of a stream at a place of the order, in any list of events.
Outs == [Streams -> Seq(Nat)]
Outputs == [order : Nat, exit : {-2, -1, 0}, time : Nat, out : Outs]
PlacesIn(f, s, o) == {i \in 1 .. Len(f) : f[i].order = o /\ f[i].out[s] # <<>>}

\* The units of stream s in the events of order o are those after u[o], up to u[o + 1], in
\* one event; from order n on there are none, and k units are in the events before.
CutAt(f, s, u, o) == /\ u[o] <= u[o + 1]
                     /\ u[o] = u[o + 1] <=> PlacesIn(f, s, o) = {}
                     /\ \A i, j \in PlacesIn(f, s, o) : i = j
                     /\ \A i \in PlacesIn(f, s, o) : f[i].out[s] = Span(u[o], u[o + 1])
Cut(f, s, u) == u \in [Nat -> Nat] /\ u[0] = 0 /\ \A o \in Nat : CutAt(f, s, u, o)
Ends(u, n, k) == \A o \in Nat : o >= n => u[o] = k

\* An event that is put into the list adds itself to those of its order.
LEMMA PlacesAfter ==
  ASSUME NEW f \in Seq(Outputs), NEW p \in 1 .. Len(f) + 1, NEW e \in Outputs, NEW g,
         IsInserted(f, p, e, g), NEW s, NEW o
  PROVE  PlacesIn(g, s, o) =
           {j \in 1 .. Len(g) : j # p /\ Old(p, j) \in PlacesIn(f, s, o)}
             \cup (IF e.order = o /\ e.out[s] # <<>> THEN {p} ELSE {})
<1>1. /\ Len(g) = Len(f) + 1 /\ g[p] = e /\ Len(f) \in Nat
      /\ \A j \in 1 .. Len(g) : j # p => Old(p, j) \in 1 .. Len(f) /\ g[j] = f[Old(p, j)]
  BY DEF IsInserted
<1>2. p \in 1 .. Len(g)
  BY <1>1
<1> QED BY <1>1, <1>2 DEF PlacesIn

\* At an order it does not have, an event changes nothing.
LEMMA CutKept ==
  ASSUME NEW f \in Seq(Outputs), NEW p \in 1 .. Len(f) + 1, NEW e \in Outputs, NEW g,
         IsInserted(f, p, e, g), NEW s, NEW o, e.order # o \/ e.out[s] = <<>>,
         NEW u, NEW v, u[o] = v[o], u[o + 1] = v[o + 1], CutAt(f, s, u, o)
  PROVE  CutAt(g, s, v, o)
<1> DEFINE P == PlacesIn(f, s, o)  Q == PlacesIn(g, s, o)
<1>1. Q = {j \in 1 .. Len(g) : j # p /\ Old(p, j) \in P}
  <2>1. Q = {j \in 1 .. Len(g) : j # p /\ Old(p, j) \in P}
              \cup (IF e.order = o /\ e.out[s] # <<>> THEN {p} ELSE {})
    BY PlacesAfter
  <2> HIDE DEF P, Q
  <2> QED BY <2>1
<1>2. /\ \A j \in 1 .. Len(g) : j # p => g[j] = f[Old(p, j)]
      /\ \A j, k \in 1 .. Len(g) : j # p /\ k # p /\ Old(p, j) = Old(p, k) => j = k
      /\ \A i \in 1 .. Len(f) : \E j \in 1 .. Len(g) : j # p /\ Old(p, j) = i
  BY DEF IsInserted
<1>3. P \subseteq 1 .. Len(f)
  BY DEF PlacesIn
<1>4. /\ u[o] <= u[o + 1] /\ (u[o] = u[o + 1] <=> P = {})
      /\ \A i, j \in P : i = j
      /\ \A i \in P : f[i].out[s] = Span(u[o], u[o + 1])
  BY DEF CutAt
<1> HIDE DEF P, Q
<1>5. P = {} <=> Q = {}
  <2>1. Q # {} => P # {}
    BY <1>1
  <2>2. ASSUME NEW i \in P PROVE Q # {}
    <3>1. PICK j \in 1 .. Len(g) : j # p /\ Old(p, j) = i
      BY <1>2, <1>3
    <3> QED BY <1>1, <3>1
  <2> QED BY <2>1, <2>2
<1>6. \A i, j \in Q : i = j
  BY <1>1, <1>2, <1>4
<1>7. \A i \in Q : g[i].out[s] = Span(v[o], v[o + 1])
  BY <1>1, <1>2, <1>4
<1> QED BY <1>4, <1>5, <1>6, <1>7 DEF CutAt, Q

\* An event without output of the stream changes nothing for it.
LEMMA CutStays ==
  ASSUME NEW f \in Seq(Outputs), NEW p \in 1 .. Len(f) + 1, NEW e \in Outputs,
         NEW s, NEW u, e.out[s] = <<>>, Cut(f, s, u)
  PROVE  Cut(B!InsertAt(f, p, e), s, u)
<1> DEFINE g == B!InsertAt(f, p, e)
<1> HIDE DEF g
<1>1. ASSUME NEW o \in Nat PROVE CutAt(g, s, u, o)
  <2>1. CutAt(f, s, u, o)
    BY DEF Cut
  <2>2. IsInserted(f, p, e, g)
    BY InsertAtIs DEF g
  <2> QED BY <2>1, <2>2, CutKept
<1> QED BY <1>1 DEF Cut, g

\* An event with the next units and an order that the stream has not reached goes on with it.
LEMMA CutGrows ==
  ASSUME NEW f \in Seq(Outputs), NEW p \in 1 .. Len(f) + 1, NEW e \in Outputs,
         NEW s, NEW u, NEW n \in Nat, NEW k \in Nat, NEW l \in Nat, k < l,
         e.order >= n, e.out[s] = Span(k, l), Cut(f, s, u), Ends(u, n, k)
  PROVE  \E v : Cut(B!InsertAt(f, p, e), s, v) /\ Ends(v, e.order + 1, l)
<1> DEFINE g == B!InsertAt(f, p, e)  q == e.order
           v == [o \in Nat |-> IF o <= q THEN u[o] ELSE l]
           Same(o) == u[o] = v[o] /\ u[o + 1] = v[o + 1]
           Beyond(o) == u[o] = k /\ u[o + 1] = k /\ v[o] = l /\ v[o + 1] = l
<1> HIDE DEF g
<1>0. q \in Nat /\ q >= n
  BY DEF Outputs
<1> HIDE DEF q
<1>1. q \in Nat /\ u \in [Nat -> Nat] /\ u[0] = 0 /\ \A o \in Nat : CutAt(f, s, u, o)
  BY <1>0 DEF Cut
<1>2. u[q] = k /\ u[q + 1] = k /\ q >= n
  <2>1. q >= n /\ q + 1 \in Nat /\ q + 1 >= n
    BY <1>0
  <2> QED BY <1>0, <2>1 DEF Ends
<1>3. IsInserted(f, p, e, g)
  BY InsertAtIs DEF g
<1>4. v \in [Nat -> Nat] /\ v[0] = 0 /\ v[q] = k /\ v[q + 1] = l
  <2>1. q + 1 \in Nat /\ 0 \in Nat /\ 0 <= q /\ q <= q /\ ~ q + 1 <= q
    BY <1>0
  <2>2. v \in [Nat -> Nat]
    BY <1>1
  <2> QED BY <1>0, <1>1, <1>2, <2>1, <2>2
<1>5. Ends(v, q + 1, l)
  <2>1. \A o \in Nat : o >= q + 1 => ~ o <= q
    BY <1>1
  <2> QED BY <2>1 DEF Ends
<1>6. \A o \in Nat : o # q => Same(o) \/ Beyond(o)
  <2> SUFFICES ASSUME NEW o \in Nat, o # q
               PROVE  Same(o) \/ Beyond(o)
    OBVIOUS
  <2>a. o + 1 \in Nat
    OBVIOUS
  <2>1. CASE o < q
    <3>1. o <= q /\ o + 1 <= q
      BY <1>1, <2>1
    <3> QED BY <2>a, <3>1
  <2>2. CASE o > q
    <3>1. o >= n /\ o + 1 >= n
      BY <1>0, <2>2
    <3>2. ~ o <= q /\ ~ o + 1 <= q
      BY <1>1, <2>2
    <3> QED BY <2>a, <3>1, <3>2 DEF Ends
  <2> QED BY <1>1, <2>1, <2>2
<1> HIDE DEF v
<1>7. ASSUME NEW o \in Nat, o # q PROVE CutAt(g, s, v, o)
  <2>1. CutAt(f, s, u, o)
    BY <1>1
  <2>2. CASE Same(o)
    BY <1>3, <1>7, <2>1, <2>2, CutKept DEF q
  <2>3. CASE Beyond(o)
    <3>1. PlacesIn(f, s, o) = {}
      BY <2>1, <2>3 DEF CutAt
    <3>2. PlacesIn(g, s, o) = {}
      BY <1>3, <1>7, <3>1, PlacesAfter DEF q
    <3> QED BY <2>3, <3>2 DEF CutAt
  <2> QED BY <1>6, <1>7, <2>2, <2>3
<1>8. CutAt(g, s, v, q)
  <2>1. CutAt(f, s, u, q)
    BY <1>1
  <2>2. PlacesIn(f, s, q) = {}
    BY <1>2, <2>1 DEF CutAt
  <2>3. k <= l /\ Len(Span(k, l)) = l - k
    <3>1. k <= l
      OBVIOUS
    <3> QED BY <3>1, SpanIs
  <2>4. Len(<<>>) = 0
    OBVIOUS
  <2>5. e.out[s] # <<>>
    BY <2>3, <2>4
  <2>6. PlacesIn(g, s, q) = {p}
    BY <1>3, <2>2, <2>5, PlacesAfter DEF q
  <2>7. g[p] = e
    BY <1>3 DEF IsInserted
  <2>8. v[q] <= v[q + 1] /\ v[q] # v[q + 1]
    BY <1>4
  <2> QED BY <1>4, <2>6, <2>7, <2>8 DEF CutAt, q
<1>9. Cut(g, s, v)
  BY <1>4, <1>7, <1>8 DEF Cut
<1> QED BY <1>5, <1>9 DEF g, q

\* What the events of a stream say together, in the order of their order field.
SaidIn(f, s, o) ==
  IF PlacesIn(f, s, o) = {} THEN <<>> ELSE f[CHOOSE i \in PlacesIn(f, s, o) : TRUE].out[s]
LEMMA TextIs ==
  ASSUME NEW f, NEW m \in Nat, NEW s, NEW u, NEW w \in Nat, Cut(f, s, u), Ends(u, m + 1, w)
  PROVE  FlattenSeq([o \in 1 .. m + 1 |-> SaidIn(f, s, o - 1)]) = Span(0, w)
<1> DEFINE n == m + 1
           parts == [o \in 1 .. n |-> SaidIn(f, s, o - 1)]
           G == [i \in 0 .. n |-> {Span(0, u[i])}]
<1>1. n \in Nat \ {0} /\ n \in 0 .. n /\ 0 \in 0 .. n
  OBVIOUS
<1>2. u \in [Nat -> Nat] /\ u[0] = 0 /\ u[n] = w /\ \A o \in Nat : CutAt(f, s, u, o)
  BY <1>1 DEF Cut, Ends
<1>4. ASSUME NEW o \in Nat PROVE SaidIn(f, s, o) = Span(u[o], u[o + 1]) /\ u[o] <= u[o + 1]
  <2>1. CutAt(f, s, u, o)
    BY <1>2
  <2>3. CASE PlacesIn(f, s, o) = {}
    <3>1. u[o] = u[o + 1] /\ u[o] \in Nat
      BY <1>2, <2>1, <2>3 DEF CutAt
    <3>2. u[o] <= u[o]
      BY <3>1
    <3>3. Span(u[o], u[o]) = <<>>
      BY <3>1, <3>2, SpanIs
    <3> QED BY <2>3, <3>1, <3>2, <3>3 DEF SaidIn
  <2>4. CASE PlacesIn(f, s, o) # {}
    <3>1. (CHOOSE i \in PlacesIn(f, s, o) : TRUE) \in PlacesIn(f, s, o)
      BY <2>4
    <3> QED BY <2>1, <2>4, <3>1 DEF SaidIn, CutAt
  <2> QED BY <2>3, <2>4
<1> HIDE DEF n
<1>5. ASSUME NEW i \in 1 .. n
      PROVE  /\ parts[i] = Span(u[i - 1], u[i]) /\ parts[i] \in Seq(Nat)
             /\ u[i - 1] \in Nat /\ u[i] \in Nat /\ u[i - 1] <= u[i]
             /\ i \in 0 .. n /\ i - 1 \in 0 .. n
  <2>1. i - 1 \in Nat /\ i \in Nat /\ (i - 1) + 1 = i /\ i \in 0 .. n /\ i - 1 \in 0 .. n
    BY <1>1
  <2>2. parts[i] = Span(u[i - 1], u[i]) /\ u[i - 1] <= u[i]
    BY <1>4, <2>1
  <2>3. u[i - 1] \in Nat /\ u[i] \in Nat
    BY <1>2, <2>1
  <2>4. Span(u[i - 1], u[i]) \in Seq(Nat)
    BY <2>2, <2>3, SpanIs
  <2> HIDE DEF parts
  <2> QED BY <2>1, <2>2, <2>3, <2>4
<1>6. parts \in [1 .. n -> Seq(Nat)]
  BY <1>5
<1>7. <<>> \in G[0]
  <2>1. 0 \in Nat /\ 0 <= 0
    OBVIOUS
  <2>2. Span(0, 0) = <<>>
    BY <2>1, SpanIs
  <2> QED BY <1>1, <1>2, <2>2
<1>8. ASSUME NEW i \in 1 .. n, NEW t \in G[i - 1] PROVE t \o parts[i] \in G[i]
  <2>1. t = Span(0, u[i - 1]) /\ G[i] = {Span(0, u[i])}
    BY <1>5
  <2>2. Span(0, u[i - 1]) \o Span(u[i - 1], u[i]) = Span(0, u[i])
    <3>1. 0 \in Nat /\ 0 <= u[i - 1]
      BY <1>5
    <3> QED BY <1>5, <3>1, SpanJoins
  <2> QED BY <1>5, <2>1, <2>2
<1>9. G[n] = {Span(0, w)}
  BY <1>1, <1>2
<1> HIDE DEF parts, G
<1>10. FlattenSeq(parts) \in G[n]
  BY <1>1, <1>6, <1>7, <1>8, FlattenIs
<1> QED BY <1>9, <1>10 DEF parts, n

\* The inductive invariant: what a reader has taken and not saved is in its buffer, what it
\* has saved is in the events of its orders, and those are below Reach.
Typed ==
  /\ proc \in {"running", "over"} /\ main \in {"wait", "killed", "done"}
  /\ order \in Nat /\ now \in Nat /\ files \in Seq(Outputs)
  /\ written \in [Streams -> Nat] /\ taken \in [Streams -> Nat]
  /\ at \in [Streams -> {"read", "publish", "end", "cancelled"}]
  /\ local \in Outs /\ shared \in Outs
Open == \A i \in 1 .. Len(files) : /\ files[i].exit # 0 /\ files[i].order <= order
                                   /\ \E s \in Streams : files[i].out[s] # <<>>
Reach(s) == IF at[s] = "publish" THEN order + 1 ELSE order
Holds(s, k) == /\ k \in Nat /\ k <= taken[s] /\ taken[s] <= written[s]
               /\ local[s] = Span(k, taken[s])
               /\ at[s] # "publish" => shared[s] = local[s]
               /\ at[s] = "end" => proc = "over" /\ taken[s] = written[s]
Reader(s) == \E k, u : Holds(s, k) /\ Cut(files, s, u) /\ Ends(u, Reach(s), k)
BashInv == /\ Typed
           /\ main # "done" => Open
           /\ main = "wait" => \A s \in Streams : Reader(s)
           /\ main # "wait" => proc = "over"
           /\ B!Reassembled

\* Both await points of a reader come after the splitting loop.
LEMMA SplitKeeps ==
  ASSUME ChunkLen \in Nat \ {0}, Typed, Open, \A r \in Streams : Reader(r),
         NEW s \in Streams, NEW o \in {order, order + 1}, NEW k \in Nat, NEW t \in Nat, k <= t,
         t <= written[s], NEW u, Cut(files, s, u), Ends(u, o, k),
         B!Split(s, Span(k, t), o), order' = o, taken' = [taken EXCEPT ![s] = t],
         shared' = [shared EXCEPT ![s] = Span(k, t)], UNCHANGED <<proc, written, main, now>>
  PROVE  Typed' /\ Open' /\ \A r \in Streams : Reader(r)'
<1> DEFINE b == Span(k, t)  m == k + ChunkLen
<1>1. b \in Seq(Nat) /\ Len(b) = t - k /\ o \in Nat /\ order \in Nat /\ order <= o
  <2>1. b \in Seq(Nat) /\ Len(b) = t - k
    BY SpanIs
  <2>2. order \in Nat
    BY DEF Typed
  <2> QED BY <2>1, <2>2
<1>2. taken'[s] = t /\ shared'[s] = b /\ \A r \in Streams : r # s => taken'[r] = taken[r] /\ shared'[r] = shared[r]
  BY DEF Typed, Outs
<1>3. taken' \in [Streams -> Nat] /\ shared' \in Outs
  BY <1>1 DEF Typed, Outs
<1> HIDE DEF b, m
<1>4. CASE Len(b) > ChunkLen
  <2> DEFINE e == B!Chunk(s, o, SubSeq(b, 1, ChunkLen))
  <2>1. PICK p \in 1 .. Len(files) + 1 : files' = B!InsertAt(files, p, e)
    BY <1>4 DEF B!Split, B!Save, b
  <2>2. /\ local' = [local EXCEPT ![s] = SubSeq(b, ChunkLen + 1, Len(b))]
        /\ at' = [at EXCEPT ![s] = "publish"]
    BY <1>4 DEF B!Split, b
  <2>3. m \in Nat /\ k < m /\ m <= t
    BY <1>1, <1>4 DEF m
  <2>4. SubSeq(b, 1, ChunkLen) = Span(k, m) /\ SubSeq(b, ChunkLen + 1, Len(b)) = Span(m, t)
    BY <2>3, SpanCut DEF b, m
  <2>5. Span(k, m) \in Seq(Nat) /\ Len(Span(k, m)) = m - k /\ Span(m, t) \in Seq(Nat)
    <3>1. k <= m
      BY <2>3
    <3> QED BY <2>3, <3>1, SpanIs
  <2>6. /\ e.order = o /\ e.exit = -2 /\ e.time = now /\ e.out[s] = Span(k, m)
        /\ \A r \in Streams : r # s => e.out[r] = <<>>
    BY <2>4 DEF B!Chunk, B!Event, B!NoExit
  <2>7. e \in Outputs
    <3>1. [r \in Streams |-> IF r = s THEN Span(k, m) ELSE <<>>] \in Outs
      BY <2>5 DEF Outs
    <3> QED BY <1>1, <2>4, <3>1 DEF B!Chunk, B!Event, B!NoExit, Outputs, Typed
  <2>8. e.out[s] # <<>>
    <3>1. Len(<<>>) = 0
      OBVIOUS
    <3> QED BY <2>3, <2>5, <2>6, <3>1
  <2> HIDE DEF e
  <2>9. files \in Seq(Outputs) /\ files' \in Seq(Outputs) /\ IsInserted(files, p, e, files')
    BY <2>1, <2>7, InsertAtIs DEF Typed
  <2>10. /\ local'[s] = Span(m, t) /\ at'[s] = "publish"
         /\ \A r \in Streams : r # s => local'[r] = local[r] /\ at'[r] = at[r]
    BY <2>2, <2>4 DEF Typed, Outs
  <2>11. Typed'
    <3>1. local' \in Outs /\ at' \in [Streams -> {"read", "publish", "end", "cancelled"}]
      BY <2>2, <2>4, <2>5 DEF Typed, Outs
    <3> QED BY <1>1, <1>3, <2>9, <3>1 DEF Typed
  <2>12. Open'
    <3> SUFFICES ASSUME NEW i \in 1 .. Len(files')
                 PROVE  /\ files'[i].exit # 0 /\ files'[i].order <= order'
                        /\ \E r \in Streams : files'[i].out[r] # <<>>
      BY DEF Open
    <3>1. CASE i = p
      BY <1>1, <2>6, <2>8, <2>9, <3>1 DEF IsInserted
    <3>2. CASE i # p
      <4>1. Old(p, i) \in 1 .. Len(files) /\ files'[i] = files[Old(p, i)]
        BY <2>9, <3>2 DEF IsInserted
      <4>2. files[Old(p, i)] \in Outputs /\ files[Old(p, i)].order \in Nat
        <5>1. files[Old(p, i)] \in Outputs
          BY <2>9, <4>1
        <5> QED BY <5>1 DEF Outputs
      <4>3. /\ files[Old(p, i)].exit # 0 /\ files[Old(p, i)].order <= order
            /\ \E r \in Streams : files[Old(p, i)].out[r] # <<>>
        BY <4>1 DEF Open
      <4>4. order' \in Nat /\ order <= order'
        BY <1>1, <2>6
      <4>5. files'[i].exit # 0 /\ \E r \in Streams : files'[i].out[r] # <<>>
        BY <4>1, <4>3
      <4>6. files'[i].order <= order'
        BY <4>1, <4>2, <4>3, <4>4
      <4> QED BY <4>5, <4>6
    <3> QED BY <3>1, <3>2
  <2>13. Reader(s)'
    <3>1. PICK v : Cut(B!InsertAt(files, p, e), s, v) /\ Ends(v, e.order + 1, m)
      <4>1. e.order >= o
        BY <1>1, <2>6
      <4> QED BY <1>1, <2>3, <2>6, <2>7, <2>9, <4>1, CutGrows
    <3>2. Reach(s)' = o + 1
      BY <2>10 DEF Reach
    <3>3. Holds(s, m)'
      BY <1>2, <2>3, <2>10 DEF Holds
    <3> QED BY <2>1, <2>6, <3>1, <3>2, <3>3 DEF Reader
  <2>14. ASSUME NEW r \in Streams, r # s PROVE Reader(r)'
    <3>1. PICK l, v : Holds(r, l) /\ Cut(files, r, v) /\ Ends(v, Reach(r), l)
      BY DEF Reader
    <3>2. Cut(files', r, v)
      BY <2>1, <2>6, <2>7, <2>9, <2>14, <3>1, CutStays
    <3>3. Ends(v, Reach(r)', l)
      <4>1. Reach(r)' >= Reach(r) /\ Reach(r)' \in Nat /\ Reach(r) \in Nat
        BY <1>1, <2>10, <2>14 DEF Reach
      <4> QED BY <3>1, <4>1 DEF Ends
    <3>4. Holds(r, l)'
      BY <1>2, <2>10, <2>14, <3>1 DEF Holds
    <3> QED BY <3>2, <3>3, <3>4 DEF Reader
  <2> QED BY <2>11, <2>12, <2>13, <2>14
<1>5. CASE ~ Len(b) > ChunkLen
  <2>1. /\ local' = [local EXCEPT ![s] = b] /\ at' = [at EXCEPT ![s] = "read"]
        /\ files' = files
    BY <1>5 DEF B!Split, b
  <2>2. /\ local'[s] = b /\ at'[s] = "read"
        /\ \A r \in Streams : r # s => local'[r] = local[r] /\ at'[r] = at[r]
    BY <2>1 DEF Typed, Outs
  <2>3. Typed'
    <3>1. local' \in Outs /\ at' \in [Streams -> {"read", "publish", "end", "cancelled"}]
      BY <1>1, <2>1 DEF Typed, Outs
    <3> QED BY <1>1, <1>3, <2>1, <3>1 DEF Typed
  <2>4. Open'
    <3> SUFFICES ASSUME NEW i \in 1 .. Len(files)
                 PROVE  /\ files[i].exit # 0 /\ files[i].order <= order'
                        /\ \E r \in Streams : files[i].out[r] # <<>>
      BY <2>1 DEF Open
    <3>1. files[i].order \in Nat
      <4>1. files[i] \in Outputs
        BY DEF Typed
      <4> QED BY <4>1 DEF Outputs
    <3>2. /\ files[i].exit # 0 /\ files[i].order <= order
          /\ \E r \in Streams : files[i].out[r] # <<>>
      BY DEF Open
    <3> QED BY <1>1, <3>1, <3>2
  <2>5. Reader(s)'
    <3>1. Reach(s)' = o
      BY <2>2 DEF Reach
    <3>2. Holds(s, k)'
      BY <1>2, <2>2 DEF Holds, b
    <3> QED BY <2>1, <3>1, <3>2 DEF Reader
  <2>6. ASSUME NEW r \in Streams, r # s PROVE Reader(r)'
    <3>1. PICK l, v : Holds(r, l) /\ Cut(files, r, v) /\ Ends(v, Reach(r), l)
      BY DEF Reader
    <3>2. Ends(v, Reach(r)', l)
      <4>1. Reach(r)' >= Reach(r) /\ Reach(r)' \in Nat /\ Reach(r) \in Nat
        BY <1>1, <2>2, <2>6 DEF Reach
      <4> QED BY <3>1, <4>1 DEF Ends
    <3>3. Holds(r, l)'
      BY <1>2, <2>2, <2>6, <3>1 DEF Holds
    <3> QED BY <2>1, <3>1, <3>2, <3>3 DEF Reader
  <2> QED BY <2>3, <2>4, <2>5, <2>6
<1> QED BY <1>4, <1>5

\* What the readers have saved when both have come to the end, and the last event after it.
LEMMA FinishKeeps == ASSUME BashInv, B!Finish PROVE BashInv'
<1>1. /\ main = "wait" /\ proc = "over" /\ \A s \in Streams : at[s] = "end"
      /\ Typed /\ Open /\ \A s \in Streams : Reader(s)
  BY DEF B!Finish, B!Gathered, BashInv
<1> DEFINE e == B!Event(order, 0, shared)
<1>2. PICK p \in 1 .. Len(files) + 1 : files' = B!InsertAt(files, p, e)
  BY DEF B!Finish, B!Conclude, B!Save
<1>3. main' = "done" /\ UNCHANGED <<proc, written, taken, at, local, shared, order, now>>
  BY DEF B!Finish, B!Conclude
<1>4. e \in Outputs /\ e.order = order /\ e.exit = 0 /\ e.out = shared
  BY <1>1 DEF B!Event, Outputs, Typed
<1> HIDE DEF e
<1>5. files \in Seq(Outputs) /\ files' \in Seq(Outputs) /\ IsInserted(files, p, e, files')
  BY <1>1, <1>2, <1>4, InsertAtIs DEF Typed
<1>6. Typed'
  BY <1>1, <1>3, <1>5 DEF Typed
<1>7. order \in Nat /\ order' = order
  BY <1>1, <1>3 DEF Typed
<1>8. ASSUME NEW s \in Streams
      PROVE  \E u : Cut(files', s, u) /\ Ends(u, order + 1, written[s])
  <2>1. PICK k, u : Holds(s, k) /\ Cut(files, s, u) /\ Ends(u, Reach(s), k)
    BY <1>1 DEF Reader
  <2>2. at[s] = "end" /\ Reach(s) = order
    BY <1>1 DEF Reach
  <2>3. /\ k \in Nat /\ written[s] \in Nat /\ k <= written[s]
        /\ e.out[s] = Span(k, written[s])
    BY <1>1, <1>4, <2>1, <2>2 DEF Holds, Typed
  <2>4. CASE k = written[s]
    <3>1. e.out[s] = <<>>
      BY <2>3, <2>4, SpanIs
    <3>2. Cut(files', s, u)
      BY <1>2, <1>4, <1>5, <2>1, <3>1, CutStays
    <3>3. Ends(u, order + 1, written[s])
      BY <1>7, <2>1, <2>2, <2>4 DEF Ends
    <3> QED BY <3>2, <3>3
  <2>5. CASE k # written[s]
    <3>1. k < written[s] /\ e.order >= order
      BY <1>4, <1>7, <2>3, <2>5
    <3> QED BY <1>2, <1>4, <1>5, <1>7, <2>1, <2>2, <2>3, <3>1, CutGrows, SMTT(20)
  <2> QED BY <2>4, <2>5
<1>9. ASSUME NEW i \in 1 .. Len(files) PROVE files[i].exit # 0 /\ files[i].order < order
  <2>1. files[i].exit # 0 /\ files[i].order <= order
    BY <1>1 DEF Open
  <2>2. PICK s \in Streams : files[i].out[s] # <<>>
    BY <1>1 DEF Open
  <2>3. PICK k, u : Holds(s, k) /\ Cut(files, s, u) /\ Ends(u, Reach(s), k)
    BY <1>1 DEF Reader
  <2>4. at[s] = "end" /\ Reach(s) = order
    BY <1>1 DEF Reach
  <2>5. u[order] = k /\ u[order + 1] = k /\ CutAt(files, s, u, order)
    BY <1>7, <2>3, <2>4 DEF Ends, Cut
  <2>6. PlacesIn(files, s, order) = {}
    BY <2>5 DEF CutAt
  <2>7. files[i].order # order
    BY <2>2, <2>6 DEF PlacesIn
  <2>8. files[i].order \in Nat
    <3>1. files[i] \in Outputs
      BY <1>5
    <3> QED BY <3>1 DEF Outputs
  <2> QED BY <1>7, <2>1, <2>7, <2>8
<1>10. B!Reassembled'
  <2> SUFFICES ASSUME NEW i \in 1 .. Len(files'), files'[i].exit = 0
               PROVE  /\ \A s \in Streams : \A o \in 0 .. order' : \A j, l \in B!Places(s, o)' : j = l
                      /\ \A s \in Streams : B!Text(s)' = [j \in 1 .. written'[s] |-> j]
                      /\ \A d \in 1 .. Len(files') : d # i => files'[d].order < files'[i].order
    BY DEF B!Reassembled
  <2>1. \A d \in 1 .. Len(files') : d # p => files'[d].exit # 0 /\ files'[d].order < order
    BY <1>5, <1>9 DEF IsInserted
  <2>2. i = p /\ files'[i].order = order
    BY <1>4, <1>5, <2>1 DEF IsInserted
  <2>3. ASSUME NEW s \in Streams, NEW o \in 0 .. order', NEW j \in B!Places(s, o)', NEW l \in B!Places(s, o)'
        PROVE  j = l
    <3>1. PICK u : Cut(files', s, u)
      BY <1>8
    <3>2. o \in Nat
      BY <1>7
    <3>3. CutAt(files', s, u, o)
      BY <3>1, <3>2 DEF Cut
    <3>4. B!Places(s, o)' = PlacesIn(files', s, o)
      BY DEF B!Places, PlacesIn
    <3> QED BY <3>3, <3>4 DEF CutAt
  <2>4. ASSUME NEW s \in Streams PROVE B!Text(s)' = [j \in 1 .. written'[s] |-> j]
    <3>1. PICK u : Cut(files', s, u) /\ Ends(u, order + 1, written[s])
      BY <1>8
    <3>2. written[s] \in Nat /\ written'[s] = written[s]
      BY <1>1, <1>3 DEF Typed
    <3>3. B!Text(s)' = Span(0, written[s])
      <4>1. B!Text(s)' = FlattenSeq([o \in 1 .. order' + 1 |-> SaidIn(files', s, o - 1)])
        BY DEF B!Text, B!Said, B!Places, SaidIn, PlacesIn, B!FlattenSeq, FlattenSeq
      <4>2. FlattenSeq([o \in 1 .. order + 1 |-> SaidIn(files', s, o - 1)]) = Span(0, written[s])
        BY <1>7, <3>1, <3>2, TextIs
      <4> QED BY <1>7, <4>1, <4>2
    <3>4. Span(0, written[s]) = [j \in 1 .. written[s] |-> j]
      <4> DEFINE w == written[s]
      <4>1. w - 0 = w /\ \A j \in 1 .. w : 0 + j = j
        BY <3>2
      <4> HIDE DEF w
      <4>2. Span(0, w) = [j \in 1 .. w |-> j]
        BY <4>1 DEF Span
      <4> QED BY <4>2 DEF w
    <3> QED BY <3>2, <3>3, <3>4
  <2> QED BY <2>1, <2>2, <2>3, <2>4
<1> QED BY <1>1, <1>3, <1>6, <1>10 DEF BashInv

\* A reader that splits what it has, after a read or once a chunk has been published.
LEMMA ReaderKeeps ==
  ASSUME B!BashAssumption, BashInv, NEW s \in Streams, B!Read(s) \/ B!Published(s)
  PROVE  BashInv'
<1>1. /\ main = "wait" /\ main' = "wait" /\ UNCHANGED <<proc, written, main, now>>
      /\ at[s] \in {"read", "publish"}
  BY DEF B!Read, B!Published
<1>2. /\ Typed /\ Open /\ \A r \in Streams : Reader(r)
      /\ ChunkLen \in Nat \ {0} /\ MaxRead \in Nat
  BY <1>1 DEF BashInv, B!BashAssumption
<1>3. PICK k, u : Holds(s, k) /\ Cut(files, s, u) /\ Ends(u, Reach(s), k)
  BY <1>2 DEF Reader
<1>4. /\ k \in Nat /\ taken[s] \in Nat /\ written[s] \in Nat /\ order \in Nat
      /\ k <= taken[s] /\ taken[s] <= written[s] /\ local[s] = Span(k, taken[s])
  BY <1>2, <1>3 DEF Typed, Holds
<1>5. Typed' /\ Open' /\ \A r \in Streams : Reader(r)'
  <2>1. CASE B!Read(s)
    <3>1. PICK n \in 1 .. MaxRead :
            LET buffer == local[s] \o [i \in 1 .. n |-> taken[s] + i]
            IN  /\ taken[s] + n <= written[s]
                /\ taken' = [taken EXCEPT ![s] = @ + n]
                /\ shared' = [shared EXCEPT ![s] = buffer]
                /\ B!Split(s, buffer, order)
      BY <2>1 DEF B!Read
    <3> DEFINE a == taken[s]  t == a + n
    <3>2. n \in Nat /\ t \in Nat /\ a <= t /\ k <= t /\ t - a = n
      BY <1>2, <1>4
    <3>3. local[s] \o [i \in 1 .. n |-> taken[s] + i] = Span(k, t)
      <4>1. Span(a, t) = [i \in 1 .. n |-> a + i]
        BY <3>2 DEF Span
      <4>2. Span(k, a) \o Span(a, t) = Span(k, t)
        BY <1>4, <3>2, SpanJoins
      <4> QED BY <1>4, <4>1, <4>2
    <3>4. /\ t <= written[s] /\ taken' = [taken EXCEPT ![s] = t]
          /\ shared' = [shared EXCEPT ![s] = Span(k, t)] /\ B!Split(s, Span(k, t), order)
      BY <3>1, <3>3
    <3>5. at[s] = "read" /\ order' = order /\ Reach(s) = order
      BY <2>1 DEF B!Read, Reach
    <3> HIDE DEF a, t
    <3> QED BY <1>1, <1>2, <1>3, <1>4, <3>2, <3>4, <3>5, SplitKeeps
  <2>2. CASE B!Published(s)
    <3>1. /\ at[s] = "publish" /\ order' = order + 1 /\ taken' = taken
          /\ shared' = [shared EXCEPT ![s] = local[s]] /\ B!Split(s, local[s], order + 1)
      BY <2>2 DEF B!Published, B!Rest
    <3>2. Reach(s) = order + 1
      BY <3>1 DEF Reach
    <3>3. taken' = [taken EXCEPT ![s] = taken[s]]
      BY <1>2, <3>1 DEF Typed
    <3> QED BY <1>1, <1>2, <1>3, <1>4, <3>1, <3>2, <3>3, SplitKeeps
  <2> QED BY <2>1, <2>2
<1>6. B!Reassembled'
  BY <1>5 DEF Open, B!Reassembled
<1> QED BY <1>1, <1>5, <1>6 DEF BashInv

\* Every action of the service keeps the invariant: the readers, the one that finishes, the
\* process, the kill of a timeout, the clock and the polls.
LEMMA BashStep ==
  ASSUME B!BashAssumption, BashInv, [B!Next]_(B!vars), failures \in Nat, failures' = failures
  PROVE  BashInv'
<1>1. Typed /\ (main = "wait" => Open /\ \A s \in Streams : Reader(s))
  BY DEF BashInv
<1>2. Open' => B!Reassembled'
  BY DEF Open, B!Reassembled
<1>3. ASSUME NEW s \in Streams, B!Eof(s) PROVE BashInv'
  <2>1. /\ main = "wait" /\ at[s] = "read" /\ proc = "over" /\ taken[s] = written[s]
        /\ at' = [at EXCEPT ![s] = "end"]
        /\ UNCHANGED <<proc, written, taken, local, shared, order, main, files, now>>
    BY <1>3 DEF B!Eof
  <2>2. at'[s] = "end" /\ \A r \in Streams : r # s => at'[r] = at[r]
    BY <1>1, <2>1 DEF Typed
  <2>3. Typed' /\ Open'
    BY <1>1, <2>1 DEF Typed, Open
  <2>4. ASSUME NEW r \in Streams PROVE Reader(r)'
    <3>1. PICK k, u : Holds(r, k) /\ Cut(files, r, u) /\ Ends(u, Reach(r), k)
      BY <1>1, <2>1 DEF Reader
    <3>2. Reach(r)' = Reach(r)
      BY <2>1, <2>2 DEF Reach
    <3>3. Holds(r, k)'
      BY <2>1, <2>2, <3>1 DEF Holds
    <3> QED BY <2>1, <3>1, <3>2, <3>3 DEF Reader
  <2> QED BY <1>2, <2>1, <2>3, <2>4 DEF BashInv
<1>4. CASE B!TimeOut
  <2>1. /\ main = "wait" /\ main' = "killed" /\ proc' = "over"
        /\ at' = [s \in Streams |-> IF at[s] = "end" THEN "end" ELSE "cancelled"]
        /\ UNCHANGED <<written, taken, local, shared, order, files, now>>
    BY <1>4 DEF B!TimeOut
  <2>2. Typed' /\ Open'
    BY <1>1, <2>1 DEF Typed, Open
  <2> QED BY <1>2, <2>1, <2>2 DEF BashInv
<1>5. CASE B!Killed
  <2> DEFINE e == B!Event(order, -1, shared)
  <2>1. PICK p \in 1 .. Len(files) + 1 : files' = B!InsertAt(files, p, e)
    BY <1>5 DEF B!Killed, B!Conclude, B!Save
  <2>2. /\ main = "killed" /\ main' = "done"
        /\ UNCHANGED <<proc, written, taken, at, local, shared, order, now>>
    BY <1>5 DEF B!Killed, B!Conclude
  <2>3. e \in Outputs /\ e.exit = -1
    BY <1>1 DEF B!Event, Outputs, Typed
  <2> HIDE DEF e
  <2>4. files' \in Seq(Outputs) /\ IsInserted(files, p, e, files')
    BY <1>1, <2>1, <2>3, InsertAtIs DEF Typed
  <2>5. Typed'
    BY <1>1, <2>2, <2>4 DEF Typed
  <2>6. \A i \in 1 .. Len(files') : files'[i].exit # 0
    <3>1. \A i \in 1 .. Len(files) : files[i].exit # 0
      BY <2>2 DEF BashInv, Open
    <3> QED BY <2>3, <2>4, <3>1 DEF IsInserted
  <2>7. B!Reassembled'
    BY <2>6 DEF B!Reassembled
  <2>8. proc = "over"
    BY <2>2 DEF BashInv
  <2> QED BY <2>2, <2>5, <2>7, <2>8 DEF BashInv
<1>6. ASSUME NEW s \in Streams, B!Write(s) PROVE BashInv'
  <2>1. /\ proc = "running" /\ written' = [written EXCEPT ![s] = @ + 1]
        /\ UNCHANGED <<proc, taken, at, local, shared, order, main, files, now>>
    BY <1>6 DEF B!Write
  <2>2. main = "wait" /\ Open /\ \A r \in Streams : Reader(r)
    BY <1>1, <2>1 DEF BashInv
  <2>3. /\ \A r \in Streams : written[r] \in Nat /\ taken[r] \in Nat /\ written[r] <= written'[r]
        /\ written' \in [Streams -> Nat]
    BY <1>1, <2>1 DEF Typed
  <2>4. Typed' /\ Open'
    BY <1>1, <2>1, <2>2, <2>3 DEF Typed, Open
  <2>5. ASSUME NEW r \in Streams PROVE Reader(r)'
    <3>1. PICK k, u : Holds(r, k) /\ Cut(files, r, u) /\ Ends(u, Reach(r), k)
      BY <2>2 DEF Reader
    <3>2. Reach(r)' = Reach(r)
      BY <2>1 DEF Reach
    <3>3. Holds(r, k)'
      <4>1. taken[r] <= written'[r]
        <5>1. taken[r] <= written[r] /\ written'[r] \in Nat
          BY <2>3, <3>1 DEF Holds
        <5> QED BY <2>3, <5>1
      <4> QED BY <2>1, <3>1, <4>1 DEF Holds
    <3> QED BY <2>1, <3>1, <3>2, <3>3 DEF Reader
  <2> QED BY <1>2, <2>1, <2>2, <2>4, <2>5 DEF BashInv
<1>7. CASE B!Exit
  <2>1. /\ proc = "running" /\ proc' = "over"
        /\ UNCHANGED <<written, taken, at, local, shared, order, main, files, now>>
    BY <1>7 DEF B!Exit
  <2>2. main = "wait" /\ Open /\ \A r \in Streams : Reader(r)
    BY <1>1, <2>1 DEF BashInv
  <2>3. Typed' /\ Open'
    BY <1>1, <2>1, <2>2 DEF Typed, Open
  <2>4. ASSUME NEW r \in Streams PROVE Reader(r)'
    <3>1. PICK k, u : Holds(r, k) /\ Cut(files, r, u) /\ Ends(u, Reach(r), k)
      BY <2>2 DEF Reader
    <3>2. Reach(r)' = Reach(r) /\ Holds(r, k)'
      BY <2>1, <3>1 DEF Reach, Holds
    <3> QED BY <2>1, <3>1, <3>2 DEF Reader
  <2> QED BY <1>2, <2>1, <2>2, <2>3, <2>4 DEF BashInv
<1>8. ASSUME UNCHANGED <<proc, written, taken, at, local, shared, order, main, files, failures>>,
             now' \in Nat
      PROVE  BashInv'
  <2>1. Typed'
    BY <1>1, <1>8 DEF Typed
  <2>2. main # "done" => Open'
    BY <1>8 DEF BashInv, Open
  <2>3. ASSUME main = "wait", NEW r \in Streams PROVE Reader(r)'
    <3>1. PICK k, u : Holds(r, k) /\ Cut(files, r, u) /\ Ends(u, Reach(r), k)
      BY <1>1, <2>3 DEF Reader
    <3>2. Reach(r)' = Reach(r) /\ Holds(r, k)'
      BY <1>8, <3>1 DEF Reach, Holds
    <3> QED BY <1>8, <3>1, <3>2 DEF Reader
  <2>4. B!Reassembled'
    <3>1. \A s, o : B!Places(s, o)' = B!Places(s, o)
      BY <1>8 DEF B!Places
    <3>2. ASSUME NEW s PROVE B!Text(s)' = B!Text(s)
      <4> DEFINE Pick(X, f) == IF X = {} THEN <<>> ELSE f[CHOOSE i \in X : TRUE].out[s]
      <4>a. \A o : /\ B!Said(s, o) = Pick(B!Places(s, o), files)
                   /\ B!Said(s, o)' = Pick(B!Places(s, o)', files')
        BY DEF B!Said
      <4> HIDE DEF Pick
      <4>1. \A o : B!Said(s, o)' = B!Said(s, o)
        BY <1>8, <3>1, <4>a
      <4>2. [o \in 1 .. order' + 1 |-> B!Said(s, o - 1)'] = [o \in 1 .. order + 1 |-> B!Said(s, o - 1)]
        BY <1>8, <4>1
      <4> QED BY <4>2 DEF B!Text
    <3>3. B!Reassembled
      BY DEF BashInv
    <3> QED BY <1>8, <3>1, <3>2, <3>3 DEF B!Reassembled
  <2> QED BY <1>8, <2>1, <2>2, <2>3, <2>4 DEF BashInv
<1>9. now \in Nat
  BY <1>1 DEF Typed
<1>10. CASE B!Tick
  BY <1>8, <1>9, <1>10 DEF B!Tick
<1>11. CASE B!Poll
  BY <1>8, <1>9, <1>11 DEF B!Poll
<1>12. CASE UNCHANGED B!vars
  BY <1>8, <1>9, <1>12 DEF B!vars
<1>13. ~ B!Errored /\ \A s \in Streams : ~ B!ReaderFails(s)
  BY DEF B!Errored, B!ReaderFails
<1> QED
  BY <1>3, <1>4, <1>5, <1>6, <1>7, <1>10, <1>11, <1>12, <1>13, FinishKeeps, ReaderKeeps
  DEF B!Next, B!Step

\* Before the process writes, there is nothing to hold and no event.
LEMMA BashInit == ASSUME B!Init PROVE BashInv
<1>1. /\ proc = "running" /\ main = "wait" /\ order = 0 /\ now = 0 /\ files = <<>>
      /\ written = [s \in Streams |-> 0] /\ taken = [s \in Streams |-> 0]
      /\ at = [s \in Streams |-> "read"]
      /\ local = [s \in Streams |-> <<>>] /\ shared = [s \in Streams |-> <<>>]
  BY DEF B!Init
<1>2. files \in Seq(Outputs) /\ Len(files) = 0 /\ <<>> \in Seq(Nat)
  BY <1>1
<1>3. Typed
  BY <1>1, <1>2 DEF Typed, Outs
<1>4. Open /\ B!Reassembled
  BY <1>2 DEF Open, B!Reassembled
<1>5. ASSUME NEW s \in Streams PROVE Reader(s)
  <2> DEFINE u == [o \in Nat |-> 0]
  <2>1. Holds(s, 0)
    <3>1. 0 \in Nat /\ 0 <= 0 /\ Span(0, 0) = <<>>
      BY SpanIs
    <3> QED BY <1>1, <3>1 DEF Holds
  <2>2. Ends(u, Reach(s), 0)
    BY DEF Ends
  <2>3. u[0] = 0 /\ u \in [Nat -> Nat] /\ \A o \in Nat : u[o] = 0 /\ u[o + 1] = 0
    OBVIOUS
  <2> HIDE DEF u
  <2>4. ASSUME NEW o \in Nat PROVE CutAt(files, s, u, o)
    <3>1. PlacesIn(files, s, o) = {}
      BY <1>2 DEF PlacesIn
    <3>2. u[o] = 0 /\ u[o + 1] = 0 /\ 0 <= 0
      BY <2>3
    <3> QED BY <3>1, <3>2 DEF CutAt
  <2>5. Cut(files, s, u)
    BY <2>3, <2>4 DEF Cut
  <2> QED BY <2>1, <2>2, <2>5 DEF Reader
<1> QED BY <1>1, <1>3, <1>4, <1>5 DEF BashInv

\* A failure is counted, and nothing is claimed of a command that had one.
WholeInv == failures \in Nat /\ (failures = 0 => BashInv)
LEMMA WholeStays ==
  ASSUME B!BashAssumption, WholeInv, [B!Next]_(B!vars)
  PROVE  WholeInv'
<1>1. failures' \in {failures, failures + 1}
  BY DEF B!Next, B!Step, B!Read, B!Published, B!Eof, B!ReaderFails, B!Finish, B!Killed, B!Conclude,
         B!TimeOut, B!Errored, B!Write, B!Exit, B!Tick, B!Poll, B!vars
<1>2. failures \in Nat /\ failures' \in Nat
  BY <1>1 DEF WholeInv
<1>3. ASSUME failures' = 0 PROVE BashInv'
  <2>1. failures = 0 /\ failures' = failures
    BY <1>1, <1>2, <1>3
  <2> QED BY <1>2, <2>1, BashStep DEF WholeInv
<1> QED BY <1>2, <1>3 DEF WholeInv

\* However the readers, the timeout, the process and the polls interleave, if no read and no
\* save fails: once an event has the exit code 0, the output events of each stream, in the order of their order field, are
\* what the process wrote to it, and that event is the last.
THEOREM OutputIsWhole ==
  ASSUME B!BashAssumption
  PROVE  B!Spec => []B!Reassembled
<1>1. B!Init => WholeInv
  BY BashInit DEF WholeInv, B!Init
<1>2. WholeInv /\ [B!Next]_(B!vars) => WholeInv'
  BY WholeStays
<1>3. WholeInv => B!Reassembled
  BY DEF WholeInv, BashInv, B!Reassembled
<1> QED BY <1>1, <1>2, <1>3, PTL DEF B!Spec

(***************************************************************************)
(* The screen of the terminal (TerminalSession), for any number of         *)
(* commands, lines and inputs.                                             *)
(***************************************************************************)

CONSTANTS Limit, MaxCommands, MaxLines, MaxInputs
VARIABLES busy, typed, buffer, prevStatus, prevOutput, call, sent, inputs, lines, told, last, clean
T == INSTANCE TerminalSession

\* The tokens of a list that are of some kinds, by recursion along the list.
Filters(f, n, R, b, kinds) ==
  /\ f[0] = <<>> /\ \A i \in 0 .. n : f[i] \in Seq(R)
  /\ \A i \in 1 .. n : f[i] = IF b[i].kind \in kinds THEN Append(f[i - 1], b[i]) ELSE f[i - 1]
\* Only is what the recursion computes, place by place.
LEMMA FilterIs ==
  ASSUME NEW R, NEW b \in Seq(R), NEW kinds
  PROVE  \E f : Filters(f, Len(b), R, b, kinds) /\ T!Only(b, kinds) = f[Len(b)]
<1> DEFINE n == Len(b)
           G == [i \in 0 .. n |-> Seq(R)]
           Next1(i, s) == IF b[i].kind \in kinds THEN Append(s, b[i]) ELSE s
           step == [i \in 1 .. n |-> [s \in G[i - 1] |-> Next1(i, s)]]
           only[i \in 0 .. n] ==
             IF i = 0 THEN <<>>
             ELSE IF b[i].kind \in kinds THEN Append(only[i - 1], b[i]) ELSE only[i - 1]
           Is(f) == f = [i \in 0 .. n |-> IF i = 0 THEN <<>>
                           ELSE IF b[i].kind \in kinds THEN Append(f[i - 1], b[i]) ELSE f[i - 1]]
<1>1. n \in Nat /\ \A i \in 1 .. n : b[i] \in R
  OBVIOUS
<1>2. T!Only(b, kinds) = only[n]
  BY DEF T!Only
<1> HIDE DEF n
<1>3. \A i \in 1 .. n : i - 1 \in 0 .. n /\ i \in 0 .. n /\ i # 0
  BY <1>1
<1>4. \A i \in 0 .. n : G[i] = Seq(R)
  OBVIOUS
<1>5. ASSUME NEW i \in 1 .. n, NEW s \in G[i - 1] PROVE Next1(i, s) \in G[i]
  BY <1>1, <1>3, <1>4, <1>5, AppendProperties
<1>6. \A i \in 1 .. n : \A s \in G[i - 1] : step[i][s] = Next1(i, s)
  <2> HIDE DEF G, Next1
  <2> QED OBVIOUS
<1>7. <<>> \in G[0] /\ 0 \in 0 .. n
  BY <1>1, <1>4
<1>8. PICK f : Computes(f, n, G, step, <<>>)
  <2> HIDE DEF G, step, Next1
  <2>1. GoesOver(n, G, step)
    BY <1>5, <1>6 DEF GoesOver
  <2> QED BY <1>1, <1>7, <2>1, Recursion
<1>9. \A i \in 1 .. n : f[i] = Next1(i, f[i - 1])
  <2> HIDE DEF G, step, Next1
  <2> QED BY <1>3, <1>6, <1>8 DEF Computes
<1>10. Is(f)
  <2>1. \A i \in 0 .. n : i # 0 => i \in 1 .. n
    BY <1>1
  <2> QED BY <1>8, <1>9, <2>1 DEF Computes
<1>11. Is(only)
  <2> HIDE DEF Is
  <2>1. only = CHOOSE g : Is(g)
    BY DEF Is
  <2> QED BY <1>10, <2>1
<1> HIDE DEF only
<1>12. only[0] = <<>> /\ \A i \in 1 .. n : only[i] = Next1(i, only[i - 1])
  <2>1. 0 \in 0 .. n /\ \A i \in 1 .. n : i \in 0 .. n /\ i # 0
    BY <1>1
  <2> QED BY <1>11, <2>1
<1>13. \A i \in 0 .. n : only[i] \in G[i]
  <2> HIDE DEF G, Next1
  <2> QED BY <1>1, <1>5, <1>7, <1>12, Reached
<1>14. Filters(only, n, R, b, kinds)
  BY <1>4, <1>12, <1>13 DEF Filters
<1> QED BY <1>2, <1>14 DEF n

\* Of no tokens nothing is left.
LEMMA OnlyNone == ASSUME NEW kinds PROVE T!Only(<<>>, kinds) = <<>>
<1>1. PICK f : Filters(f, Len(<<>>), Nat, <<>>, kinds) /\ T!Only(<<>>, kinds) = f[Len(<<>>)]
  <2>1. <<>> \in Seq(Nat)
    OBVIOUS
  <2> QED BY <2>1, FilterIs
<1>2. Len(<<>>) = 0
  OBVIOUS
<1> QED BY <1>1, <1>2 DEF Filters

\* A token at the end of the list comes to the end of what is left, or is left out.
LEMMA OnlyAppend ==
  ASSUME NEW R, NEW b \in Seq(R), NEW t \in R, NEW kinds
  PROVE  /\ T!Only(b, kinds) \in Seq(R)
         /\ T!Only(Append(b, t), kinds) = IF t.kind \in kinds THEN Append(T!Only(b, kinds), t)
                                          ELSE T!Only(b, kinds)
<1> DEFINE n == Len(b)  c == Append(b, t)
<1>1. /\ c \in Seq(R) /\ Len(c) = n + 1 /\ c[n + 1] = t /\ n \in Nat
      /\ \A i \in 1 .. n : c[i] = b[i]
  BY AppendProperties, LenProperties
<1>2. PICK f : Filters(f, n, R, b, kinds) /\ T!Only(b, kinds) = f[n]
  BY FilterIs
<1> HIDE DEF n, c
<1>3. PICK g : Filters(g, n + 1, R, c, kinds) /\ T!Only(c, kinds) = g[n + 1]
  BY <1>1, FilterIs
<1> DEFINE G == [i \in 0 .. n |-> {f[i]}]
<1>4. \A i \in 0 .. n : g[i] \in G[i]
  <2>1. \A i \in 1 .. n : i - 1 \in 0 .. n /\ i \in 0 .. n /\ i \in 1 .. n + 1
    BY <1>1
  <2>2. g[0] \in G[0]
    BY <1>1, <1>2, <1>3 DEF Filters
  <2>3. ASSUME NEW i \in 1 .. n, g[i - 1] \in G[i - 1] PROVE g[i] \in G[i]
    <3>1. g[i - 1] = f[i - 1]
      BY <2>1, <2>3
    <3>2. g[i] = f[i]
      BY <1>1, <1>2, <1>3, <2>1, <3>1 DEF Filters
    <3> QED BY <2>1, <3>2
  <2> HIDE DEF G
  <2> QED BY <1>1, <2>2, <2>3, Reached
<1>5. n \in 0 .. n /\ n + 1 \in 1 .. n + 1 /\ (n + 1) - 1 = n
  BY <1>1
<1>6. g[n] = f[n] /\ f[n] \in Seq(R)
  BY <1>2, <1>4, <1>5 DEF Filters
<1>7. g[n + 1] = IF t.kind \in kinds THEN Append(g[n], t) ELSE g[n]
  BY <1>1, <1>3, <1>5 DEF Filters
<1> QED BY <1>2, <1>3, <1>6, <1>7 DEF c

ScreenTokens == [kind : {"ps1", "echo", "line"}, of : Nat]
Screens == {b \in Seq(ScreenTokens) : b # <<>> /\ T!IsPrompt(b[1])}

\* A screen begins with a prompt, and goes on with a token more.
LEMMA ScreenAppend ==
  ASSUME NEW b \in Screens, NEW t \in ScreenTokens
  PROVE  /\ Append(b, t) \in Screens /\ Len(Append(b, t)) = Len(b) + 1 /\ Len(b) \in Nat \ {0}
         /\ Append(b, t)[Len(b) + 1] = t
         /\ \A i \in 1 .. Len(b) : Append(b, t)[i] = b[i]
<1>1. b \in Seq(ScreenTokens) /\ b # <<>> /\ T!IsPrompt(b[1])
  BY DEF Screens
<1>2. Len(b) \in Nat \ {0}
  BY <1>1, EmptySeq
<1>3. /\ Append(b, t) \in Seq(ScreenTokens) /\ Append(b, t) # <<>> /\ Len(Append(b, t)) = Len(b) + 1
      /\ \A i \in 1 .. Len(b) : Append(b, t)[i] = b[i]
      /\ Append(b, t)[Len(b) + 1] = t
  BY <1>1, AppendProperties
<1>4. Append(b, t)[1] = b[1]
  BY <1>2, <1>3
<1> QED BY <1>1, <1>2, <1>3, <1>4 DEF Screens

\* A screen begins with a prompt, so that the combined output is all of the rest that is no prompt.
LEMMA BetweenIs ==
  ASSUME NEW b \in Screens
  PROVE  /\ T!Between(b) = T!Only(SubSeq(b, 2, Len(b)), {"echo", "line"})
         /\ SubSeq(b, 2, Len(b)) \in Seq(ScreenTokens) /\ T!Between(b) \in Seq(ScreenTokens)
<1> DEFINE I == {i \in 1 .. Len(b) : T!IsPrompt(b[i])}
<1>1. b \in Seq(ScreenTokens) /\ b # <<>> /\ T!IsPrompt(b[1]) /\ Len(b) \in Nat \ {0}
  BY EmptySeq DEF Screens
<1>2. 1 \in I /\ I # {} /\ \A i \in I : i \in Nat /\ 1 <= i
  BY <1>1
<1>3. T!FirstPrompt(b) = T!Min(I)
  BY <1>2 DEF T!FirstPrompt, T!SelectInSeq
<1> HIDE DEF I
<1>4. T!Min(I) = 1
  <2>1. T!Min(I) \in I /\ T!Min(I) <= 1
    BY <1>2 DEF T!Min
  <2> QED BY <1>2, <2>1
<1>5. SubSeq(b, 2, Len(b)) \in Seq(ScreenTokens)
  <2>1. \A i \in 2 .. Len(b) : b[i] \in ScreenTokens
    BY <1>1
  <2> QED BY <1>1, <2>1, SubSeqProperties
<1>6. T!Between(b) = T!Only(SubSeq(b, 2, Len(b)), {"echo", "line"})
  BY <1>3, <1>4 DEF T!Between
<1>7. PICK t : t \in ScreenTokens
  BY <1>1
<1> HIDE DEF ScreenTokens
<1>8. T!Only(SubSeq(b, 2, Len(b)), {"echo", "line"}) \in Seq(ScreenTokens)
  BY <1>5, <1>7, OnlyAppend
<1> QED BY <1>5, <1>6, <1>8

\* The combined output grows by the token that is shown, if it is no prompt.
LEMMA BetweenAppend ==
  ASSUME NEW b \in Screens, NEW t \in ScreenTokens
  PROVE  T!Between(Append(b, t)) = IF T!IsPrompt(t) THEN T!Between(b) ELSE Append(T!Between(b), t)
<1> DEFINE c == Append(b, t)  s == SubSeq(b, 2, Len(b))
<1>1. /\ c \in Screens /\ Len(c) = Len(b) + 1 /\ Len(b) \in Nat \ {0} /\ c[Len(b) + 1] = t
      /\ \A i \in 1 .. Len(b) : c[i] = b[i]
  BY ScreenAppend
<1>2. /\ T!Between(b) = T!Only(s, {"echo", "line"}) /\ s \in Seq(ScreenTokens)
      /\ T!Between(c) = T!Only(SubSeq(c, 2, Len(c)), {"echo", "line"})
      /\ SubSeq(c, 2, Len(c)) \in Seq(ScreenTokens)
  BY <1>1, BetweenIs
<1>3. SubSeq(c, 2, Len(c)) = Append(s, t)
  <2> HIDE DEF c
  <2>1. c \in Seq(ScreenTokens) /\ b \in Seq(ScreenTokens)
    BY <1>1 DEF Screens
  <2>2. 2 \in 1 .. Len(c) /\ Len(c) \in 2 .. Len(c)
    BY <1>1
  <2>3. SubSeq(c, 2, Len(c)) = SubSeq(c, 2, Len(c) - 1) \o <<c[Len(c)]>>
    BY <2>1, <2>2, SubSeqRecursiveSecond
  <2>4. Len(c) - 1 = Len(b) /\ c[Len(c)] = t
    BY <1>1
  <2>5. SubSeq(c, 2, Len(b)) = s
    <3> DEFINE d == SubSeq(c, 2, Len(b))
    <3>1. \A i \in 2 .. Len(b) : c[i] = b[i] /\ b[i] \in ScreenTokens
      BY <1>1, <2>1
    <3>2. /\ d \in Seq(ScreenTokens) /\ Len(d) = IF 2 <= Len(b) THEN Len(b) - 2 + 1 ELSE 0
          /\ \A i \in 1 .. Len(b) - 2 + 1 : d[i] = c[2 + i - 1]
      BY <1>1, <3>1, SubSeqProperties
    <3>3. /\ s \in Seq(ScreenTokens) /\ Len(s) = IF 2 <= Len(b) THEN Len(b) - 2 + 1 ELSE 0
          /\ \A i \in 1 .. Len(b) - 2 + 1 : s[i] = b[2 + i - 1]
      BY <1>1, <3>1, SubSeqProperties
    <3> HIDE DEF d, s
    <3>4. ASSUME NEW i \in 1 .. Len(d) PROVE d[i] = s[i]
      <4>1. i \in 1 .. Len(b) - 2 + 1 /\ 2 + i - 1 \in 2 .. Len(b)
        BY <1>1, <3>2
      <4> QED BY <3>1, <3>2, <3>3, <4>1
    <3>5. d = s
      BY <3>2, <3>3, <3>4, SeqEqual
    <3> QED BY <3>5 DEF d
  <2> QED BY <1>2, <2>3, <2>4, <2>5, AppendIsConcat
<1>4. T!IsPrompt(t) <=> t.kind \notin {"echo", "line"}
  BY DEF T!IsPrompt, ScreenTokens
<1> HIDE DEF c, s
<1>5. T!Only(Append(s, t), {"echo", "line"}) =
        IF t.kind \in {"echo", "line"} THEN Append(T!Only(s, {"echo", "line"}), t)
        ELSE T!Only(s, {"echo", "line"})
  BY <1>2, OnlyAppend
<1> QED BY <1>2, <1>3, <1>4, <1>5 DEF c

\* The numbers of the lines in a text, as the text grows.
LEMMA LinesAre ==
  /\ T!Lines(<<>>) = <<>>
  /\ \A u \in Seq(ScreenTokens), t \in ScreenTokens :
       /\ T!Lines(u) \in Seq(Nat)
       /\ T!Lines(Append(u, t)) = IF t.kind = "line" THEN Append(T!Lines(u), t.of) ELSE T!Lines(u)
<1>1. T!Lines(<<>>) = <<>>
  <2>1. T!Only(<<>>, {"line"}) = <<>>
    BY OnlyNone
  <2>2. T!Lines(<<>>) = [i \in 1 .. 0 |-> T!Only(<<>>, {"line"})[i].of]
    BY <2>1 DEF T!Lines
  <2> DEFINE e == [i \in 1 .. 0 |-> T!Only(<<>>, {"line"})[i].of]
  <2>3. 1 .. 0 = {}
    OBVIOUS
  <2>4. e = <<>>
    BY <2>3
  <2> QED BY <2>2, <2>4
<1>2. ASSUME NEW u \in Seq(ScreenTokens), NEW t \in ScreenTokens
      PROVE  /\ T!Lines(u) \in Seq(Nat)
             /\ T!Lines(Append(u, t)) = IF t.kind = "line" THEN Append(T!Lines(u), t.of) ELSE T!Lines(u)
  <2> DEFINE o == T!Only(u, {"line"})  q == T!Only(Append(u, t), {"line"})  n == Len(o)
             l == [i \in 1 .. n |-> o[i].of]  m == [i \in 1 .. Len(q) |-> q[i].of]
  <2>1. o \in Seq(ScreenTokens) /\ q = IF t.kind \in {"line"} THEN Append(o, t) ELSE o
    BY OnlyAppend
  <2>2. T!Lines(u) = l /\ T!Lines(Append(u, t)) = m
    BY DEF T!Lines
  <2> HIDE DEF o, q
  <2>3. n \in Nat /\ \A i \in 1 .. n : o[i].of \in Nat
    <3>1. n \in Nat /\ \A i \in 1 .. n : o[i] \in ScreenTokens
      BY <2>1
    <3> QED BY <3>1 DEF ScreenTokens
  <2>4. l \in Seq(Nat) /\ Len(l) = n /\ \A i \in 1 .. n : l[i] = o[i].of
    <3> HIDE DEF n
    <3>1. l \in [1 .. n -> Nat]
      BY <2>3
    <3> QED BY <2>3, <3>1
  <2>5. CASE t.kind = "line"
    <3>1. /\ q = Append(o, t) /\ Len(q) = n + 1 /\ q[n + 1] = t
          /\ \A i \in 1 .. n : q[i] = o[i]
      BY <2>1, <2>5, AppendProperties
    <3>2. t.of \in Nat
      BY DEF ScreenTokens
    <3> DEFINE r == Append(l, t.of)
    <3>3. /\ r \in Seq(Nat) /\ Len(r) = n + 1 /\ r[n + 1] = t.of
          /\ \A i \in 1 .. n : r[i] = l[i]
      BY <2>4, <3>2, AppendProperties
    <3> HIDE DEF n, l, r
    <3>4. \A i \in 1 .. n + 1 : i \in 1 .. n \/ i = n + 1
      BY <2>3
    <3>5. \A i \in 1 .. n + 1 : q[i].of = r[i]
      BY <2>4, <3>1, <3>3, <3>4
    <3>6. m = r
      <4>1. m = [i \in 1 .. n + 1 |-> r[i]]
        BY <3>1, <3>5
      <4>2. r = [i \in 1 .. n + 1 |-> r[i]]
        BY <3>3
      <4> QED BY <4>1, <4>2
    <3> QED BY <2>2, <2>4, <2>5, <3>6 DEF r
  <2>6. CASE t.kind # "line"
    <3>1. q = o
      BY <2>1, <2>6
    <3> QED BY <2>2, <2>4, <2>6, <3>1
  <2> QED BY <2>5, <2>6
<1> QED BY <1>1, <1>2

\* What is new in a text that goes on: the same, and a token more.
NewOf(prev, raw) ==
  IF T!IsPrefix(prev, raw) THEN SubSeq(raw, Len(prev) + 1, Len(raw)) ELSE raw
LEMMA NewAppend ==
  ASSUME NEW raw \in Seq(ScreenTokens), NEW t \in ScreenTokens, NEW prev \in Seq(ScreenTokens),
         T!IsPrefix(prev, raw)
  PROVE  /\ T!IsPrefix(prev, Append(raw, t)) /\ NewOf(prev, raw) \in Seq(ScreenTokens)
         /\ NewOf(prev, Append(raw, t)) = Append(NewOf(prev, raw), t)
<1> DEFINE c == Append(raw, t)  k == Len(prev)  n == Len(raw)
<1>1. /\ c \in Seq(ScreenTokens) /\ Len(c) = n + 1 /\ c[n + 1] = t /\ n \in Nat /\ k \in Nat
      /\ \A i \in 1 .. n : c[i] = raw[i] /\ raw[i] \in ScreenTokens
  BY AppendProperties, LenProperties
<1>2. k <= n /\ SubSeq(prev, 1, k) = SubSeq(raw, 1, k)
  BY DEF T!IsPrefix
<1>3. NewOf(prev, raw) = SubSeq(raw, k + 1, n)
  BY DEF NewOf
<1> HIDE DEF c, k, n
<1>4. SubSeq(c, 1, k) = SubSeq(raw, 1, k)
  <2> DEFINE d == SubSeq(c, 1, k)  e == SubSeq(raw, 1, k)
  <2>1. \A i \in 1 .. k : c[i] = raw[i] /\ c[i] \in ScreenTokens /\ raw[i] \in ScreenTokens
    BY <1>1, <1>2
  <2>2. /\ d \in Seq(ScreenTokens) /\ Len(d) = IF 1 <= k THEN k - 1 + 1 ELSE 0
        /\ \A i \in 1 .. k - 1 + 1 : d[i] = c[1 + i - 1]
    BY <1>1, <2>1, SubSeqProperties
  <2>3. /\ e \in Seq(ScreenTokens) /\ Len(e) = IF 1 <= k THEN k - 1 + 1 ELSE 0
        /\ \A i \in 1 .. k - 1 + 1 : e[i] = raw[1 + i - 1]
    BY <1>1, <2>1, SubSeqProperties
  <2> HIDE DEF d, e
  <2>4. ASSUME NEW i \in 1 .. Len(d) PROVE d[i] = e[i]
    <3>1. i \in 1 .. k - 1 + 1 /\ i \in 1 .. k /\ 1 + i - 1 = i
      BY <1>1, <2>2
    <3> QED BY <2>1, <2>2, <2>3, <3>1
  <2>5. d = e
    BY <2>2, <2>3, <2>4, SeqEqual
  <2> QED BY <2>5 DEF d, e
<1>5. T!IsPrefix(prev, c)
  <2>1. Len(prev) <= Len(c)
    BY <1>1, <1>2 DEF k
  <2> QED BY <1>2, <1>4, <2>1 DEF T!IsPrefix, k
<1>6. NewOf(prev, c) = SubSeq(c, k + 1, n + 1)
  BY <1>1, <1>5 DEF NewOf, k
<1>7. SubSeq(c, k + 1, n + 1) = SubSeq(c, k + 1, n) \o <<t>>
  <2>1. k + 1 \in 1 .. Len(c) /\ n + 1 \in k + 1 .. Len(c) /\ (n + 1) - 1 = n
    BY <1>1, <1>2
  <2>2. SubSeq(c, k + 1, n + 1) = SubSeq(c, k + 1, (n + 1) - 1) \o <<c[n + 1]>>
    BY <1>1, <2>1, SubSeqRecursiveSecond
  <2> QED BY <1>1, <2>1, <2>2
<1>8. SubSeq(c, k + 1, n) = SubSeq(raw, k + 1, n) /\ SubSeq(raw, k + 1, n) \in Seq(ScreenTokens)
  <2> DEFINE d == SubSeq(c, k + 1, n)  e == SubSeq(raw, k + 1, n)
  <2>1. \A i \in k + 1 .. n : c[i] = raw[i] /\ c[i] \in ScreenTokens /\ raw[i] \in ScreenTokens
    BY <1>1, <1>2
  <2>a. k + 1 \in Int /\ n \in Int
    BY <1>1
  <2>2. /\ d \in Seq(ScreenTokens) /\ Len(d) = IF k + 1 <= n THEN n - (k + 1) + 1 ELSE 0
        /\ \A i \in 1 .. n - (k + 1) + 1 : d[i] = c[(k + 1) + i - 1]
    BY <2>a, <2>1, SubSeqProperties
  <2>3. /\ e \in Seq(ScreenTokens) /\ Len(e) = IF k + 1 <= n THEN n - (k + 1) + 1 ELSE 0
        /\ \A i \in 1 .. n - (k + 1) + 1 : e[i] = raw[(k + 1) + i - 1]
    BY <2>a, <2>1, SubSeqProperties
  <2> HIDE DEF d, e
  <2>4. ASSUME NEW i \in 1 .. Len(d) PROVE d[i] = e[i]
    <3>1. i \in 1 .. n - (k + 1) + 1 /\ (k + 1) + i - 1 \in k + 1 .. n
      BY <1>1, <1>2, <2>2
    <3> QED BY <2>1, <2>2, <2>3, <3>1
  <2>5. d = e
    BY <2>2, <2>3, <2>4, SeqEqual
  <2> QED BY <2>3, <2>5 DEF d, e
<1>9. NewOf(prev, c) = Append(NewOf(prev, raw), t)
  BY <1>3, <1>6, <1>7, <1>8, AppendIsConcat
<1> QED BY <1>3, <1>5, <1>8, <1>9 DEF c

\* The prompts of a screen.
LEMMA CountAppend ==
  ASSUME NEW b \in Screens, NEW t \in ScreenTokens
  PROVE  /\ T!Count(b) \in Nat
         /\ T!Count(Append(b, t)) = IF T!IsPrompt(t) THEN T!Count(b) + 1 ELSE T!Count(b)
<1> DEFINE c == Append(b, t)  n == Len(b)
           I == {i \in 1 .. n : T!IsPrompt(b[i])}
           J == {i \in 1 .. Len(c) : T!IsPrompt(c[i])}
<1>1. /\ Len(c) = n + 1 /\ n \in Nat /\ c[n + 1] = t
      /\ \A i \in 1 .. n : c[i] = b[i]
  BY ScreenAppend
<1>2. T!Count(b) = Cardinality(I) /\ T!Count(c) = Cardinality(J)
  BY DEF T!Count, T!Cardinality, Cardinality
<1> HIDE DEF c, n
<1>3. IsFiniteSet(I)
  <2>1. IsFiniteSet(1 .. n) /\ I \in SUBSET (1 .. n)
    BY <1>1, FS_Interval
  <2> QED BY <2>1, FS_Subset
<1>4. J = IF T!IsPrompt(t) THEN I \cup {n + 1} ELSE I
  <2>1. 1 .. n + 1 = (1 .. n) \cup {n + 1}
    BY <1>1
  <2> QED BY <1>1, <2>1
<1>5. n + 1 \notin I
  BY <1>1
<1> HIDE DEF I, J
<1> QED BY <1>2, <1>3, <1>4, <1>5, FS_AddElement, FS_CardinalityType DEF c

\* What has been told and what is yet to tell are the lines so far, in order.
UpTo(n) == [i \in 1 .. n |-> i]
LEMMA UpToIs ==
  ASSUME NEW n \in Nat
  PROVE  UpTo(n) \in Seq(Nat) /\ Len(UpTo(n)) = n /\ \A i \in 1 .. n : UpTo(n)[i] = i
<1>1. UpTo(n) \in [1 .. n -> Nat]
  BY DEF UpTo
<1>2. \A i \in 1 .. n : UpTo(n)[i] = i
  BY DEF UpTo
<1> QED BY <1>1, <1>2

\* A member at the end of the second list comes to the end of both.
LEMMA ConcatAppend ==
  ASSUME NEW S, NEW s \in Seq(S), NEW l \in Seq(S), NEW x \in S
  PROVE  s \o Append(l, x) = Append(s \o l, x)
<1>1. <<x>> \in Seq(S) /\ s \o l \in Seq(S)
  BY ConcatProperties
<1>2. (s \o l) \o <<x>> = s \o (l \o <<x>>)
  BY <1>1, ConcatAssociative
<1> QED BY <1>1, <1>2, AppendIsConcat

\* The next line comes to the end of what is yet to tell.
LEMMA UpToNext ==
  ASSUME NEW n \in Nat, NEW s \in Seq(Nat), NEW l \in Seq(Nat), s \o l = UpTo(n)
  PROVE  s \o Append(l, n + 1) = UpTo(n + 1)
<1> DEFINE a == s \o Append(l, n + 1)  u == UpTo(n + 1)
<1>1. n + 1 \in Nat
  OBVIOUS
<1>3. a = Append(UpTo(n), n + 1)
  <2>1. s \o Append(l, n + 1) = Append(s \o l, n + 1)
    BY <1>1, ConcatAppend, SMTT(20)
  <2> QED BY <2>1
<1>4. /\ UpTo(n) \in Seq(Nat) /\ Len(UpTo(n)) = n /\ \A i \in 1 .. n : UpTo(n)[i] = i
      /\ u \in Seq(Nat) /\ Len(u) = n + 1 /\ \A i \in 1 .. n + 1 : u[i] = i
  BY <1>1, UpToIs
<1> HIDE DEF a, u
<1>5. a \in Seq(Nat) /\ Len(a) = n + 1 /\ a[n + 1] = n + 1 /\ \A i \in 1 .. n : a[i] = i
  BY <1>1, <1>3, <1>4, AppendProperties
<1>6. ASSUME NEW i \in 1 .. n + 1 PROVE a[i] = u[i]
  <2>1. i \in 1 .. n \/ i = n + 1
    OBVIOUS
  <2> QED BY <1>4, <1>5, <2>1
<1>7. a = u
  BY <1>4, <1>5, <1>6, SeqEqual
<1> QED BY <1>7 DEF a, u

\* The call and the last observation have their fields, whatever the screen shows.
Shaped ==
  /\ sent \in Nat /\ lines \in Nat
  /\ \E p \in {"idle", "look", "send", "wait"}, e \in BOOLEAN,
        k \in {"none", "command", "poll", "input", "interrupt"} : \E i :
       call = [phase |-> p, kind |-> k, initial |-> i, export |-> e]
  /\ call.phase = "idle" => call = T!Idle
  /\ \E d \in BOOLEAN : \E o : last = [done |-> d, of |-> o]

\* The inductive invariant, kept as long as clean: where the screen ends in a prompt the shell
\* waits; since the call counted the prompts there is a new one only if the shell has ended its
\* command; what is typed and not taken is what the call is for; what is on the screen is told
\* or to be told.
Executions == [phase : {"idle", "look", "send", "wait"}, initial : Nat, export : BOOLEAN,
               kind : {"none", "command", "poll", "input", "interrupt"}]
Sorted ==
  /\ busy \in Nat /\ sent \in Nat /\ lines \in Nat /\ told \in Seq(Nat)
  /\ prevOutput \in Seq(ScreenTokens) /\ buffer \in Screens
  /\ call \in Executions
  /\ call.phase # "idle" => call.kind # "none"
AtShell ==
  /\ typed # <<>> => /\ call.phase = "wait"
                     /\ \/ typed = <<"command">> /\ busy = 0 /\ sent # 0
                        \/ typed = <<"interrupt">>
                        \/ typed = <<"input">>
  /\ T!AtPrompt(buffer) <=> busy = 0
  /\ busy # 0 => busy = sent
  /\ busy = 0 /\ typed # <<"command">> => buffer[Len(buffer)].of = sent
AtCaller ==
  /\ call.phase \in {"send", "wait"} /\ (busy # 0 \/ typed = <<"command">>) =>
       T!Count(buffer) <= call.initial
  /\ call.phase = "send" /\ call.kind # "input" =>
       busy = 0 /\ T!Count(buffer) = call.initial /\ call.kind # "poll"
  /\ prevStatus # "timed_out" /\ call.phase \in {"idle", "look"} => busy = 0
  /\ call.phase # "idle" /\ call.kind \in {"poll", "input"} => prevStatus = "timed_out"
Untold == T!Lines(NewOf(prevOutput, T!Between(buffer)))
ToldSoFar == T!IsPrefix(prevOutput, T!Between(buffer)) /\ told \o Untold = UpTo(lines)
Truthful ==
  last.done /\ call.phase = "idle" =>
    busy = 0 /\ typed = <<>> /\ last.of = sent /\ Len(told) = lines
TerminalInv == Sorted /\ AtShell /\ AtCaller /\ ToldSoFar /\ Truthful

\* The screen is not full.
Room == Len(buffer) < Limit

\* A token is shown: the screen is one longer, and what is yet to tell grows by a line.
LEMMA ShowIs ==
  ASSUME T!TerminalAssumption, Room, Sorted, ToldSoFar, NEW t \in ScreenTokens, T!Show(t),
         prevOutput' = prevOutput
  PROVE  /\ buffer' \in Screens /\ buffer'[Len(buffer')] = t
         /\ T!AtPrompt(buffer') <=> T!IsPrompt(t)
         /\ T!Count(buffer) \in Nat
         /\ T!Count(buffer') = IF T!IsPrompt(t) THEN T!Count(buffer) + 1 ELSE T!Count(buffer)
         /\ T!IsPrefix(prevOutput', T!Between(buffer'))
         /\ Untold \in Seq(Nat)
         /\ Untold' = IF t.kind = "line" THEN Append(Untold, t.of) ELSE Untold
<1> DEFINE b == Append(buffer, t)
<1>1. buffer \in Screens /\ prevOutput \in Seq(ScreenTokens) /\ T!IsPrefix(prevOutput, T!Between(buffer))
  BY DEF Sorted, ToldSoFar
<1>2. b \in Screens /\ Len(b) = Len(buffer) + 1 /\ Len(buffer) \in Nat \ {0} /\ b[Len(buffer) + 1] = t
  BY <1>1, ScreenAppend
<1> HIDE DEF b
<1>3. buffer' = b
  <2>1. ~ Len(b) > Limit
    BY <1>2 DEF Room, T!TerminalAssumption
  <2>2. buffer' = SubSeq(b, 1 + 0, Len(b))
    BY <2>1 DEF T!Show, T!Kept, b
  <2>3. SubSeq(b, 1, Len(b)) = b
    BY <1>2, SubSeqFull DEF Screens
  <2> QED BY <2>2, <2>3
<1>4. b[Len(b)] = t /\ (T!AtPrompt(b) <=> T!IsPrompt(t))
  BY <1>2 DEF T!AtPrompt, Screens
<1>5. /\ T!Count(buffer) \in Nat
      /\ T!Count(b) = IF T!IsPrompt(t) THEN T!Count(buffer) + 1 ELSE T!Count(buffer)
  BY <1>1, CountAppend DEF b
<1>6. /\ T!Between(buffer) \in Seq(ScreenTokens)
      /\ T!Between(b) = IF T!IsPrompt(t) THEN T!Between(buffer) ELSE Append(T!Between(buffer), t)
  BY <1>1, BetweenIs, BetweenAppend DEF b
<1> DEFINE r == T!Between(buffer)  w == NewOf(prevOutput, r)
<1>7. /\ T!IsPrefix(prevOutput, Append(r, t)) /\ w \in Seq(ScreenTokens)
      /\ NewOf(prevOutput, Append(r, t)) = Append(w, t)
  BY <1>1, <1>6, NewAppend
<1>8. /\ T!Lines(w) \in Seq(Nat)
      /\ T!Lines(Append(w, t)) = IF t.kind = "line" THEN Append(T!Lines(w), t.of) ELSE T!Lines(w)
  BY <1>7, LinesAre
<1>9. Untold = T!Lines(w) /\ Untold' = T!Lines(NewOf(prevOutput, T!Between(b)))
  BY <1>3 DEF Untold
<1> HIDE DEF r, w
<1>10. T!IsPrompt(t) => t.kind # "line"
  BY DEF T!IsPrompt
<1>11. /\ T!IsPrefix(prevOutput', T!Between(b))
       /\ Untold' = IF t.kind = "line" THEN Append(Untold, t.of) ELSE Untold
  <2>1. CASE T!IsPrompt(t)
    <3>1. T!Between(b) = T!Between(buffer)
      BY <1>6, <2>1
    <3> QED BY <1>1, <1>9, <1>10, <2>1, <3>1 DEF r, w
  <2>2. CASE ~ T!IsPrompt(t)
    <3>1. T!Between(b) = Append(r, t)
      BY <1>6, <2>2 DEF r
    <3> QED BY <1>7, <1>8, <1>9, <3>1
  <2> QED BY <2>1, <2>2
<1> QED BY <1>2, <1>3, <1>4, <1>5, <1>8, <1>9, <1>11

\* What is yet to tell is a list of numbers.
LEMMA UntoldIs == ASSUME TerminalInv PROVE Untold \in Seq(Nat)
<1> DEFINE r == T!Between(buffer)  w == NewOf(prevOutput, r)  t == T!Token("ps1", 0)
<1>1. /\ buffer \in Screens /\ prevOutput \in Seq(ScreenTokens) /\ T!IsPrefix(prevOutput, r)
      /\ t \in ScreenTokens
  BY DEF TerminalInv, Sorted, ToldSoFar, T!Token, ScreenTokens
<1>2. r \in Seq(ScreenTokens)
  BY <1>1, BetweenIs
<1> HIDE DEF r, t
<1>3. w \in Seq(ScreenTokens)
  BY <1>1, <1>2, NewAppend
<1>4. T!Lines(w) \in Seq(Nat)
  BY <1>1, <1>3, LinesAre
<1> QED BY <1>4 DEF Untold, r

\* The shell takes what was typed, prints a line, ends its command.
LEMMA ShellKeeps ==
  ASSUME T!TerminalAssumption, Room, TerminalInv, T!Take \/ T!WriteLine \/ T!End,
         clean'
  PROVE  TerminalInv'
<1>1. /\ Sorted /\ AtShell /\ AtCaller /\ ToldSoFar /\ Truthful
  BY DEF TerminalInv
<1>2. /\ busy \in Nat /\ sent \in Nat /\ lines \in Nat /\ told \in Seq(Nat)
  BY <1>1 DEF Sorted
<1>3. UNCHANGED <<prevStatus, prevOutput, call, sent, inputs, told, last>>
  BY DEF T!Take, T!WriteLine, T!End
<1>4. ASSUME NEW t \in ScreenTokens, T!Show(t), busy' \in Nat, lines' \in Nat,
             t.kind = "line" => t.of = lines + 1 /\ lines' = lines + 1,
             t.kind # "line" => lines' = lines
      PROVE  Sorted' /\ ToldSoFar'
  <2>1. /\ buffer' \in Screens /\ T!IsPrefix(prevOutput', T!Between(buffer'))
        /\ Untold \in Seq(Nat)
        /\ Untold' = IF t.kind = "line" THEN Append(Untold, t.of) ELSE Untold
    BY <1>1, <1>3, <1>4, ShowIs
  <2>2. Sorted'
    BY <1>1, <1>3, <1>4, <2>1 DEF Sorted
  <2>3. told \o Untold = UpTo(lines)
    BY <1>1 DEF ToldSoFar
  <2>4. told \o Untold' = UpTo(lines')
    <3>1. CASE t.kind = "line"
      <4>1. told \o Append(Untold, lines + 1) = UpTo(lines + 1)
        <5> HIDE DEF Untold
        <5> QED BY <1>2, <2>1, <2>3, UpToNext
      <4> QED BY <1>4, <2>1, <3>1, <4>1
    <3>2. CASE t.kind # "line"
      BY <1>4, <2>1, <2>3, <3>2
    <3> QED BY <3>1, <3>2
  <2>5. ToldSoFar'
    BY <1>3, <2>1, <2>4 DEF ToldSoFar
  <2> QED BY <2>2, <2>5
<1>5. ASSUME NEW k \in {"ps1", "echo", "line"}, NEW n \in Nat
      PROVE  /\ T!Token(k, n) \in ScreenTokens /\ T!Token(k, n).kind = k /\ T!Token(k, n).of = n
             /\ T!IsPrompt(T!Token(k, n)) <=> k = "ps1"
  BY DEF T!Token, T!IsPrompt, ScreenTokens
<1>6. CASE T!Take
  <2>1. typed # <<>> /\ typed' = Tail(typed) /\ lines' = lines
    BY <1>6 DEF T!Take
  <2>2. /\ call.phase = "wait"
        /\ \/ typed = <<"command">> /\ busy = 0 /\ sent # 0
           \/ typed = <<"interrupt">>
           \/ typed = <<"input">>
    BY <1>1, <2>1 DEF AtShell
  <2>3. CASE typed = <<"interrupt">>
    <3> DEFINE t == T!Token("ps1", sent)
    <3>1. T!Show(t) /\ busy' = 0 /\ typed' = <<>>
      BY <1>6, <2>1, <2>3 DEF T!Take
    <3>2. t \in ScreenTokens /\ t.kind = "ps1" /\ t.of = sent /\ T!IsPrompt(t)
      BY <1>2, <1>5
    <3> HIDE DEF t
    <3>3. Sorted' /\ ToldSoFar'
      BY <1>2, <1>4, <2>1, <3>1, <3>2
    <3>4. buffer'[Len(buffer')] = t /\ T!AtPrompt(buffer')
      BY <1>1, <1>3, <3>1, <3>2, ShowIs
    <3>5. AtShell'
      BY <1>3, <3>1, <3>2, <3>4 DEF AtShell
    <3>6. AtCaller'
      BY <1>1, <1>3, <2>2, <3>1 DEF AtCaller
    <3>7. Truthful'
      BY <1>3, <2>2 DEF Truthful
    <3> QED BY <3>3, <3>5, <3>6, <3>7 DEF TerminalInv
  <2>4. ASSUME \/ typed = <<"command">> /\ busy = 0 /\ sent # 0
               \/ typed = <<"input">>
        PROVE  TerminalInv'
    <3> DEFINE t == T!Token("echo", sent)
    <3>a. Head(typed) # "interrupt" /\ Tail(typed) = <<>> /\ (Head(typed) = "input" \/ busy = 0)
      <4>1. (typed = <<"command">> /\ busy = 0) \/ typed = <<"input">>
        BY <2>4
      <4>2. ASSUME NEW k \in {"command", "input"}, typed = <<k>>
            PROVE  Head(typed) = k /\ Tail(typed) = <<>>
        BY <4>2
      <4> QED BY <4>1, <4>2
    <3>b. Head(typed) = "input" => busy # 0
      BY <1>6 DEF T!Take
    <3>1. /\ T!Show(t) /\ typed' = <<>>
          /\ busy' = IF busy = 0 THEN sent ELSE busy
      <4> HIDE DEF T!Show, T!Token
      <4> QED BY <1>6, <2>1, <3>a DEF T!Take
    <3>2. t \in ScreenTokens /\ t.kind = "echo" /\ ~ T!IsPrompt(t)
      BY <1>2, <1>5
    <3> HIDE DEF t
    <3>c. typed = <<"input">> => busy # 0
      <4>1. typed = <<"input">> => Head(typed) = "input"
        OBVIOUS
      <4> QED BY <3>b, <4>1
    <3>3. busy' # 0 /\ busy' = sent /\ busy' \in Nat
      BY <1>1, <1>2, <2>4, <3>1, <3>c DEF AtShell
    <3>4. Sorted' /\ ToldSoFar'
      BY <1>2, <1>4, <2>1, <3>1, <3>2, <3>3
    <3>5. ~ T!AtPrompt(buffer') /\ T!Count(buffer') = T!Count(buffer)
      BY <1>1, <1>3, <3>1, <3>2, ShowIs
    <3>6. AtShell'
      BY <1>3, <3>1, <3>3, <3>5 DEF AtShell
    <3>7. AtCaller'
      <4>1. T!Count(buffer)' = T!Count(buffer)
        BY <3>5 DEF T!Count
      <4>2. T!Count(buffer) <= call.initial
        BY <1>1, <2>2, <2>4, <3>c DEF AtCaller
      <4> QED BY <1>1, <1>3, <2>2, <4>1, <4>2 DEF AtCaller
    <3>8. Truthful'
      BY <1>3, <2>2 DEF Truthful
    <3> QED BY <3>4, <3>6, <3>7, <3>8 DEF TerminalInv
  <2> QED BY <2>2, <2>3, <2>4
<1>7. ASSUME busy # 0 PROVE busy = sent /\ typed # <<"command">>
  <2>1. typed = <<"command">> => typed # <<"interrupt">> /\ typed # <<"input">> /\ typed # <<>>
    OBVIOUS
  <2> QED BY <1>1, <1>7, <2>1 DEF AtShell
<1>8. CASE T!WriteLine
  <2> DEFINE t == T!Token("line", lines + 1)
  <2>1. T!Show(t) /\ busy # 0 /\ lines' = lines + 1 /\ busy' = busy /\ typed' = typed
    BY <1>8 DEF T!WriteLine
  <2>2. t \in ScreenTokens /\ t.kind = "line" /\ t.of = lines + 1 /\ ~ T!IsPrompt(t) /\ lines + 1 \in Nat
    <3>1. lines + 1 \in Nat
      BY <1>2
    <3> QED BY <1>5, <3>1
  <2> HIDE DEF t
  <2>3. Sorted' /\ ToldSoFar'
    BY <1>2, <1>4, <2>1, <2>2
  <2>4. ~ T!AtPrompt(buffer') /\ T!Count(buffer') = T!Count(buffer)
    BY <1>1, <1>3, <2>1, <2>2, ShowIs
  <2>5. AtShell'
    BY <1>1, <1>3, <2>1, <2>4 DEF AtShell
  <2>6. AtCaller'
    <3>1. T!Count(buffer)' = T!Count(buffer)
      BY <2>4 DEF T!Count
    <3> QED BY <1>1, <1>3, <2>1, <3>1 DEF AtCaller
  <2>7. Truthful'
    BY <1>1, <1>3, <2>1 DEF Truthful
  <2> QED BY <2>3, <2>5, <2>6, <2>7 DEF TerminalInv
<1>9. CASE T!End
  <2> DEFINE t == T!Token("ps1", busy)
  <2>1. T!Show(t) /\ busy # 0 /\ busy' = 0 /\ typed' = typed /\ lines' = lines
    BY <1>9 DEF T!End
  <2>2. t \in ScreenTokens /\ t.kind = "ps1" /\ t.of = sent /\ T!IsPrompt(t)
    BY <1>2, <1>5, <1>7, <2>1
  <2> HIDE DEF t
  <2>3. typed # <<"command">>
    BY <1>7, <2>1
  <2>4. Sorted' /\ ToldSoFar'
    BY <1>2, <1>4, <2>1, <2>2
  <2>5. buffer'[Len(buffer')] = t /\ T!AtPrompt(buffer')
    BY <1>1, <1>3, <2>1, <2>2, ShowIs
  <2>6. AtShell'
    BY <1>1, <1>3, <2>1, <2>2, <2>3, <2>5 DEF AtShell
  <2>7. AtCaller'
    BY <1>1, <1>3, <2>1, <2>3 DEF AtCaller
  <2>8. Truthful'
    BY <1>1, <1>3, <2>1 DEF Truthful
  <2> QED BY <2>4, <2>6, <2>7, <2>8 DEF TerminalInv
<1> QED BY <1>6, <1>8, <1>9

\* A text that was shown has nothing new.
LEMMA NewSame ==
  ASSUME NEW r \in Seq(ScreenTokens)
  PROVE  T!IsPrefix(r, r) /\ NewOf(r, r) = <<>> /\ T!Lines(NewOf(r, r)) = <<>>
<1>1. T!IsPrefix(r, r)
  BY DEF T!IsPrefix
<1>2. NewOf(r, r) = SubSeq(r, Len(r) + 1, Len(r))
  BY <1>1 DEF NewOf
<1>3. SubSeq(r, Len(r) + 1, Len(r)) = <<>>
  <2>1. Len(r) \in Nat
    OBVIOUS
  <2>2. \A i \in Len(r) + 1 .. Len(r) : r[i] \in ScreenTokens
    BY <2>1
  <2>3. SubSeq(r, Len(r) + 1, Len(r)) \in Seq(ScreenTokens) /\ Len(SubSeq(r, Len(r) + 1, Len(r))) = 0
    BY <2>1, <2>2, SubSeqProperties
  <2> QED BY <2>3, EmptySeq
<1> QED BY <1>1, <1>2, <1>3, LinesAre

\* A screen of one prompt shows nothing.
LEMMA FreshScreen ==
  ASSUME NEW t \in ScreenTokens, T!IsPrompt(t)
  PROVE  /\ <<t>> \in Screens /\ T!AtPrompt(<<t>>) /\ <<t>>[Len(<<t>>)] = t
         /\ T!Between(<<t>>) = <<>>
<1>1. <<t>> \in Screens /\ T!AtPrompt(<<t>>) /\ <<t>>[Len(<<t>>)] = t
  BY DEF Screens, T!AtPrompt
<1> DEFINE b == <<t>>
<1>2. b \in Screens /\ Len(b) = 1
  BY <1>1
<1> HIDE DEF b
<1>3. T!Between(b) = T!Only(SubSeq(b, 2, Len(b)), {"echo", "line"})
  BY <1>2, BetweenIs
<1>4. SubSeq(b, 2, Len(b)) = <<>>
  <2>1. SubSeq(b, 2, 1) \in Seq(ScreenTokens) /\ Len(SubSeq(b, 2, 1)) = 0
    <3>1. \A i \in 2 .. 1 : b[i] \in ScreenTokens
      OBVIOUS
    <3> QED BY <1>2, <3>1, SubSeqProperties DEF Screens
  <2> QED BY <1>2, <2>1, EmptySeq
<1> QED BY <1>1, <1>3, <1>4, OnlyNone DEF b

\* An observation tells what is on the screen and was not told; one that is thrown away shows
\* no lines.
LEMMA TellIs ==
  ASSUME Sorted, ToldSoFar, T!Tell(T!Between(buffer)), clean'
  PROVE  told' = UpTo(lines) /\ told' \in Seq(Nat) /\ Len(told') = lines
<1>1. lines \in Nat /\ told \in Seq(Nat) /\ told \o Untold = UpTo(lines)
  BY DEF Sorted, ToldSoFar
<1>2. Untold = T!Lines(T!New(T!Between(buffer)))
  BY DEF Untold, NewOf, T!New
<1>3. told' = UpTo(lines)
  <2>1. CASE call.export
    <3>1. told' = told /\ T!Lines(T!New(T!Between(buffer))) = <<>>
      BY <2>1 DEF T!Tell
    <3>2. told \o <<>> = told
      BY <1>1, ConcatEmptySeq
    <3> QED BY <1>1, <1>2, <3>1, <3>2
  <2>2. CASE ~ call.export
    BY <1>1, <1>2, <2>2 DEF T!Tell
  <2> QED BY <2>1, <2>2
<1> QED BY <1>1, <1>3, UpToIs

\* After an observation that showed all there is, nothing is left to tell.
LEMMA AllTold ==
  ASSUME lines \in Nat, told' = UpTo(lines), lines' = lines, NEW r \in Seq(ScreenTokens),
         prevOutput' = r, T!Between(buffer') = r
  PROVE  ToldSoFar'
<1>1. T!IsPrefix(r, r) /\ T!Lines(NewOf(r, r)) = <<>>
  BY NewSame
<1>2. Untold' = <<>>
  BY <1>1 DEF Untold
<1>3. told' \o <<>> = told'
  <2>1. told' \in Seq(Nat)
    BY UpToIs
  <2> QED BY <2>1, ConcatEmptySeq
<1> QED BY <1>1, <1>2, <1>3 DEF ToldSoFar

\* What an observation leaves of the call: nothing, or after an export the command it is for.
LEMMA ReturnIs ==
  ASSUME Sorted, T!Return
  PROVE  /\ call' \in Executions /\ call'.initial = 0 /\ call'.export = FALSE
         /\ \/ call'.phase = "idle" /\ ~ call.export
            \/ call'.phase = "look" /\ call'.kind = "command" /\ call.export
<1>1. call.export \in BOOLEAN
  BY DEF Sorted, Executions
<1>2. CASE call.export
  <2>1. call' = [phase |-> "look", kind |-> "command", initial |-> 0, export |-> FALSE]
    BY <1>2 DEF T!Return, T!Idle
  <2> QED BY <1>2, <2>1 DEF Executions
<1>3. CASE ~ call.export
  <2>1. call' = [phase |-> "idle", kind |-> "none", initial |-> 0, export |-> FALSE]
    BY <1>3 DEF T!Return, T!Idle
  <2> QED BY <1>3, <2>1 DEF Executions
<1> QED BY <1>1, <1>2, <1>3

\* A call begins.
LEMMA CallKeeps ==
  ASSUME TerminalInv, NEW k \in {"command", "poll", "input", "interrupt"}, T!Call(k)
  PROVE  TerminalInv'
<1>1. Sorted /\ AtShell /\ AtCaller /\ ToldSoFar
  BY DEF TerminalInv
<1>2. /\ call.phase = "idle"
      /\ k \in {"poll", "input"} => prevStatus = "timed_out"
      /\ \E e \in BOOLEAN :
           call' = [phase |-> "look", kind |-> k, initial |-> 0, export |-> e]
      /\ UNCHANGED <<busy, typed, lines, buffer, prevStatus, prevOutput, sent, inputs, told, last>>
  BY DEF T!Call, T!Idle, T!Running, T!shell
<1>a. call' \in Executions /\ call'.phase = "look" /\ call'.kind = k
  BY <1>2 DEF Executions
<1>3. typed = <<>>
  BY <1>1, <1>2 DEF AtShell
<1>4. Sorted'
  BY <1>1, <1>2, <1>a DEF Sorted
<1>5. AtShell'
  BY <1>1, <1>2, <1>3, <1>a DEF AtShell
<1>6. AtCaller'
  BY <1>1, <1>2, <1>a DEF AtCaller
<1>7. ToldSoFar'
  BY <1>1, <1>2 DEF ToldSoFar, Untold
<1>8. Truthful'
  BY <1>a DEF Truthful
<1> QED BY <1>4, <1>5, <1>6, <1>7, <1>8 DEF TerminalInv

\* An observation is returned and the command goes on: refused, or out of time.
LEMMA GoingOnKeeps ==
  ASSUME Shaped, TerminalInv, T!Refuse \/ T!TimeOut, clean'
  PROVE  TerminalInv'
<1>1. Sorted /\ AtShell /\ AtCaller /\ ToldSoFar
  BY DEF TerminalInv
<1>2. /\ T!Tell(T!Between(buffer)) /\ prevOutput' = T!Between(buffer) /\ T!Return
      /\ last' = [last EXCEPT !.done = FALSE] /\ prevStatus' = "timed_out" /\ typed = <<>>
      /\ UNCHANGED <<busy, typed, lines, buffer, sent, inputs>>
  <2>1. CASE T!Refuse
    <3>1. call.phase = "look" /\ prevStatus = "timed_out"
      BY <2>1 DEF T!Refuse, T!Refused, T!Running
    <3>2. typed = <<>>
      BY <1>1, <3>1 DEF AtShell
    <3> QED BY <2>1, <3>1, <3>2 DEF T!Refuse, T!shell
  <2>2. CASE T!TimeOut
    BY <2>2 DEF T!TimeOut, T!Looks, T!Tell, T!shell
  <2> QED BY <2>1, <2>2
<1>3. buffer \in Screens /\ lines \in Nat
  BY <1>1 DEF Sorted
<1>4. /\ call' \in Executions
      /\ call'.phase = "idle" \/ (call'.phase = "look" /\ call'.kind = "command")
  BY <1>1, <1>2, ReturnIs
<1>5. T!Between(buffer) \in Seq(ScreenTokens)
  BY <1>3, BetweenIs
<1>6. told' = UpTo(lines) /\ told' \in Seq(Nat)
  BY <1>1, <1>2, TellIs
<1>7. last'.done = FALSE
  BY <1>2 DEF Shaped
<1>8. Sorted'
  BY <1>1, <1>2, <1>4, <1>5, <1>6 DEF Sorted
<1>9. AtShell'
  <2>1. UNCHANGED <<busy, typed, buffer, sent>> /\ typed = <<>>
    BY <1>2
  <2>2. T!AtPrompt(buffer)' = T!AtPrompt(buffer)
    BY <2>1 DEF T!AtPrompt
  <2> QED BY <1>1, <2>1, <2>2 DEF AtShell
<1>10. AtCaller'
  <2>1. call'.phase \notin {"send", "wait"} /\ prevStatus' = "timed_out"
    BY <1>2, <1>4
  <2> QED BY <2>1 DEF AtCaller
<1>11. ToldSoFar'
  BY <1>2, <1>3, <1>5, <1>6, AllTold
<1>12. Truthful'
  BY <1>7 DEF Truthful
<1> QED BY <1>8, <1>9, <1>10, <1>11, <1>12 DEF TerminalInv

\* The prompts are counted, and the keys typed.
LEMMA LookKeeps ==
  ASSUME TerminalInv, T!Look
  PROVE  TerminalInv'
<1>1. Sorted /\ AtShell /\ AtCaller /\ ToldSoFar
  BY DEF TerminalInv
<1> DEFINE n == T!Count(buffer)
<1>2. /\ call.phase = "look" /\ ~ T!Refused
      /\ call' = [call EXCEPT !.initial = n,
                              !.phase = IF call.kind = "poll" THEN "wait" ELSE "send"]
      /\ UNCHANGED <<busy, typed, lines, buffer, prevStatus, prevOutput, sent, inputs, told, last>>
  BY DEF T!Look, T!shell
<1>3. n \in Nat
  <2>1. T!Token("ps1", 0) \in ScreenTokens
    BY DEF T!Token, ScreenTokens
  <2> QED BY <1>1, <2>1, CountAppend DEF Sorted
<1>4. call \in Executions
  BY <1>1 DEF Sorted
<1>5. n' = n
  BY <1>2 DEF T!Count
<1> HIDE DEF n
<1>6. /\ call'.initial = n /\ call'.kind = call.kind /\ call.kind # "none"
      /\ call'.phase = IF call.kind = "poll" THEN "wait" ELSE "send"
      /\ call' \in Executions
  BY <1>1, <1>2, <1>3, <1>4 DEF Sorted, Executions
<1>7. Sorted'
  BY <1>1, <1>2, <1>6 DEF Sorted
<1>8. typed = <<>>
  BY <1>1, <1>2 DEF AtShell
<1>9. AtShell'
  BY <1>1, <1>2, <1>8 DEF AtShell
<1>10. call.kind \notin {"poll", "input"} => busy = 0
  <2>1. call.kind \notin {"poll", "input"} => call.kind \in {"command", "interrupt"}
    BY <1>4, <1>6 DEF Executions
  <2>2. call.kind \in {"command", "interrupt"} => prevStatus # "timed_out" \/ T!AtPrompt(buffer)
    BY <1>2 DEF T!Refused, T!Running
  <2> QED BY <1>1, <1>2, <2>1, <2>2 DEF AtShell, AtCaller
<1>11. AtCaller'
  <2>1. T!Count(buffer)' = n
    BY <1>5 DEF n
  <2>2. T!Count(buffer)' <= call'.initial
    BY <1>3, <1>6, <2>1
  <2>3. (call.kind \in {"poll", "input"} => prevStatus = "timed_out")
    BY <1>1, <1>2 DEF AtCaller
  <2> QED BY <1>2, <1>6, <1>10, <2>1, <2>2, <2>3 DEF AtCaller
<1>12. ToldSoFar'
  BY <1>1, <1>2 DEF ToldSoFar, Untold
<1>13. Truthful'
  BY <1>6 DEF Truthful
<1> QED BY <1>7, <1>9, <1>11, <1>12, <1>13 DEF TerminalInv

\* The keys are typed: a command only where the shell waits.
LEMMA SendKeeps ==
  ASSUME TerminalInv, T!Send
  PROVE  TerminalInv'
<1>1. Sorted /\ AtShell /\ AtCaller /\ ToldSoFar
  BY DEF TerminalInv
<1>2. /\ call.phase = "send"
      /\ \E key \in {call.kind} \cup IF call.kind = "input" THEN {"interrupt"} ELSE {} :
           typed' = Append(typed, key)
      /\ call.kind = "command" => sent' = sent + 1
      /\ call.kind # "command" => sent' = sent
      /\ call' = [call EXCEPT !.phase = "wait"]
      /\ UNCHANGED <<busy, lines, buffer, prevStatus, prevOutput, told, last>>
  BY DEF T!Send
<1>3. call \in Executions
  BY <1>1 DEF Sorted
<1>4. call.kind \in {"command", "input", "interrupt"}
  BY <1>1, <1>2, <1>3 DEF Sorted, AtCaller, Executions
<1>5. \/ typed' = <<call.kind>>
      \/ typed' = <<"interrupt">> /\ call.kind = "input"
  <2>1. typed = <<>>
    BY <1>1, <1>2 DEF AtShell
  <2>2. \A key : Append(<<>>, key) = <<key>>
    OBVIOUS
  <2>3. PICK key \in {call.kind} \cup IF call.kind = "input" THEN {"interrupt"} ELSE {} :
               typed' = Append(<<>>, key)
    BY <1>2, <2>1
  <2> QED BY <2>2, <2>3
<1>6. /\ call'.phase = "wait" /\ call'.kind = call.kind /\ call'.initial = call.initial
      /\ call' \in Executions
  BY <1>2, <1>3 DEF Executions
<1>7. sent \in Nat /\ sent' \in Nat
  <2>1. sent \in Nat
    BY <1>1 DEF Sorted
  <2> QED BY <1>2, <2>1
<1>8. Sorted'
  BY <1>1, <1>2, <1>4, <1>6, <1>7 DEF Sorted
<1>9. AtShell'
  <2>1. T!AtPrompt(buffer)' = T!AtPrompt(buffer) /\ (T!AtPrompt(buffer) <=> busy = 0)
    BY <1>1, <1>2 DEF T!AtPrompt, AtShell
  <2>2. busy # 0 => call.kind = "input" /\ busy = sent
    BY <1>1, <1>2 DEF AtShell, AtCaller
  <2>3. typed = <<>> /\ (busy = 0 => buffer[Len(buffer)].of = sent)
    BY <1>1, <1>2 DEF AtShell
  <2>4. CASE call.kind = "command"
    <3>1. typed' = <<"command">> /\ busy' = 0 /\ sent' # 0
      <4>1. call.kind # "input"
        BY <2>4
      <4> QED BY <1>2, <1>5, <1>7, <2>2, <2>4, <4>1
    <3> QED BY <1>2, <1>6, <2>1, <3>1 DEF AtShell
  <2>5. CASE call.kind # "command"
    <3>1. /\ typed' = <<"interrupt">> \/ typed' = <<"input">>
          /\ sent' = sent /\ busy' = busy /\ buffer' = buffer
      BY <1>2, <1>4, <1>5, <2>5
    <3>2. (T!AtPrompt(buffer) <=> busy = 0)' /\ typed' # <<"command">>
      <4>1. \A k \in {"input", "interrupt"} : <<k>> # <<"command">>
        OBVIOUS
      <4> QED BY <1>2, <2>1, <3>1, <4>1
    <3>3. busy' # 0 => busy' = sent'
      BY <2>2, <3>1
    <3>4. busy' = 0 => buffer'[Len(buffer')].of = sent'
      BY <2>3, <3>1
    <3> QED BY <1>6, <3>1, <3>2, <3>3, <3>4 DEF AtShell
  <2> QED BY <1>4, <2>4, <2>5
<1>10. AtCaller'
  <2>1. T!Count(buffer)' = T!Count(buffer)
    BY <1>2 DEF T!Count
  <2>2. busy # 0 \/ typed' = <<"command">> => T!Count(buffer) <= call.initial
    <3>1. CASE busy # 0
      BY <1>1, <1>2, <3>1 DEF AtCaller
    <3>2. CASE typed' = <<"command">>
      <4>1. call.kind = "command"
        <5>1. <<"interrupt">> # <<"command">> /\ (<<call.kind>> = <<"command">> => call.kind = "command")
          OBVIOUS
        <5> QED BY <1>5, <3>2, <5>1
      <4>2. T!Count(buffer) = call.initial /\ T!Count(buffer) \in Nat
        BY <1>1, <1>2, <1>3, <4>1 DEF AtCaller, Executions
      <4> QED BY <4>2
    <3> QED BY <3>1, <3>2
  <2>3. (call.kind \in {"poll", "input"} => prevStatus = "timed_out")
    BY <1>1, <1>2 DEF AtCaller
  <2> QED BY <1>2, <1>6, <2>1, <2>2, <2>3 DEF AtCaller
<1>11. ToldSoFar'
  BY <1>1, <1>2 DEF ToldSoFar, Untold
<1>12. Truthful'
  BY <1>6 DEF Truthful
<1> QED BY <1>8, <1>9, <1>10, <1>11, <1>12 DEF TerminalInv

\* The screen between the first prompt and the last, with the prompt at its end the only one.
LEMMA CompleteKeeps ==
  ASSUME TerminalInv, T!Complete, clean'
  PROVE  TerminalInv'
<1>1. Sorted /\ AtShell /\ AtCaller /\ ToldSoFar
  BY DEF TerminalInv
<1> DEFINE n == Len(buffer)  p == T!LastPrompt(buffer)
<1>2. /\ call.phase = "wait" /\ typed = <<>>
      /\ T!Count(buffer) > call.initial \/ T!AtPrompt(buffer)
      /\ T!Tell(IF T!Count(buffer) = 1 THEN T!Before(buffer) ELSE T!Between(buffer))
      /\ prevStatus' = "completed" /\ prevOutput' = <<>> /\ buffer' = SubSeq(buffer, p, n)
      /\ last' = [done |-> ~ call.export, of |-> buffer[p].of] /\ T!Return
      /\ UNCHANGED <<busy, typed, lines, sent, inputs>>
  BY DEF T!Complete, T!Looks, T!Completed, T!Remaining, T!Tell, T!shell
<1>3. /\ buffer \in Screens /\ call.initial \in Nat
      /\ lines \in Nat /\ sent \in Nat /\ busy \in Nat
  BY <1>1 DEF Sorted, Executions
<1>4. /\ buffer \in Seq(ScreenTokens) /\ n \in Nat \ {0} /\ T!IsPrompt(buffer[1])
      /\ \A i \in 1 .. n : buffer[i] \in ScreenTokens
  BY <1>3, EmptySeq DEF Screens
<1>5. T!Count(buffer) \in Nat
  <2>1. buffer[1] \in ScreenTokens
    BY <1>4
  <2> QED BY <1>3, <2>1, CountAppend
<1>6. busy = 0 /\ T!AtPrompt(buffer) /\ T!IsPrompt(buffer[n]) /\ buffer[n].of = sent
  <2>1. busy # 0 => T!Count(buffer) <= call.initial
    BY <1>1, <1>2 DEF AtCaller
  <2>2. T!AtPrompt(buffer) <=> busy = 0
    BY <1>1 DEF AtShell
  <2>3. busy = 0
    BY <1>2, <1>3, <1>5, <2>1, <2>2
  <2>4. buffer[n].of = sent
    BY <1>1, <1>2, <2>3 DEF AtShell
  <2> QED BY <2>2, <2>3, <2>4 DEF T!AtPrompt
<1> DEFINE I == {i \in 1 .. n : T!IsPrompt(buffer[i])}
<1>7. 1 \in I /\ n \in I /\ I # {} /\ \A i \in I : i \in 1 .. n
  BY <1>4, <1>6
<1>8. p = n
  <2>1. p = T!Max(I)
    BY <1>7 DEF T!LastPrompt, T!SelectLastInSeq
  <2> HIDE DEF I, n, p
  <2>2. n \in Nat /\ n \in I /\ \A i \in I : i <= n
    BY <1>4, <1>7
  <2>3. T!Max(I) \in I /\ n <= T!Max(I)
    BY <2>2, <1>7 DEF T!Max
  <2>4. T!Max(I) \in Nat /\ T!Max(I) <= n
    <3>1. T!Max(I) \in 1 .. n
      BY <1>7, <2>3
    <3> QED BY <3>1
  <2> QED BY <2>1, <2>2, <2>3, <2>4
<1>9. T!Tell(T!Between(buffer))
  <2>1. CASE T!Count(buffer) = 1
    <3>1. Cardinality(I) = 1
      BY <2>1 DEF T!Count, T!Cardinality, Cardinality
    <3>2. IsFiniteSet(I)
      <4>1. IsFiniteSet(1 .. n) /\ I \in SUBSET (1 .. n)
        BY <1>4, FS_Interval
      <4> HIDE DEF I
      <4> QED BY <4>1, FS_Subset
    <3>3. \E x : I = {x}
      <4> HIDE DEF I
      <4> QED BY <3>1, <3>2, FS_Singleton
    <3>4. n = 1
      <4> HIDE DEF I, n
      <4> QED BY <1>7, <3>3
    <3>5. T!Before(buffer) = SubSeq(buffer, 1, 0)
      <4> HIDE DEF n, p
      <4> QED BY <1>8, <3>4 DEF T!Before, p
    <3>6. buffer = <<buffer[1]>>
      BY <1>4, <3>4
    <3>7. T!Between(buffer) = <<>>
      <4>1. buffer[1] \in ScreenTokens
        BY <1>4
      <4>2. T!Between(<<buffer[1]>>) = <<>>
        BY <1>4, <4>1, FreshScreen
      <4> QED BY <3>6, <4>2
    <3>8. SubSeq(buffer, 1, 0) = <<>>
      BY <1>4
    <3> QED BY <1>2, <2>1, <3>5, <3>7, <3>8
  <2>2. CASE T!Count(buffer) # 1
    BY <1>2, <2>2
  <2> QED BY <2>1, <2>2
<1>10. told' = UpTo(lines) /\ told' \in Seq(Nat) /\ Len(told') = lines
  BY <1>1, <1>9, TellIs
<1> DEFINE t == buffer[n]
<1>11. t \in ScreenTokens /\ T!IsPrompt(t) /\ t.of = sent
  BY <1>4, <1>6
<1>12. buffer' = <<t>>
  <2>1. buffer' = SubSeq(buffer, n, n)
    BY <1>2, <1>8
  <2>2. \A i \in n .. n : buffer[i] \in ScreenTokens
    BY <1>4
  <2> DEFINE s == SubSeq(buffer, n, n)
  <2>3. s \in Seq(ScreenTokens) /\ Len(s) = 1 /\ s[1] = buffer[n]
    BY <1>4, <2>2, SubSeqProperties
  <2> HIDE DEF s
  <2>4. s = <<buffer[n]>>
    BY <2>3
  <2> QED BY <2>1, <2>4 DEF s
<1>13. last'.of = sent /\ (last'.done => ~ call.export)
  BY <1>2, <1>8, <1>11
<1> HIDE DEF n, p, t, I
<1>14. /\ buffer' \in Screens /\ T!AtPrompt(buffer') /\ buffer'[Len(buffer')] = t
       /\ T!Between(buffer') = <<>>
  BY <1>11, <1>12, FreshScreen
<1>15. /\ call' \in Executions
       /\ call'.phase = "idle" \/ (call'.phase = "look" /\ call'.kind = "command")
  BY <1>1, <1>2, ReturnIs
<1>16. busy' = 0 /\ typed' = <<>> /\ lines' = lines /\ sent' = sent
  BY <1>2, <1>6
<1>17. Sorted'
  <2>1. prevOutput' \in Seq(ScreenTokens)
    BY <1>2
  <2> QED BY <1>3, <1>10, <1>14, <1>15, <1>16, <2>1 DEF Sorted
<1>18. AtShell'
  BY <1>11, <1>14, <1>16 DEF AtShell
<1>19. AtCaller'
  <2>1. \/ call'.phase \notin {"send", "wait"} /\ call'.kind \notin {"poll", "input"}
        \/ call'.phase = "idle"
    BY <1>15
  <2> QED BY <1>16, <2>1 DEF AtCaller
<1>20. ToldSoFar'
  <2>1. <<>> \in Seq(ScreenTokens) /\ prevOutput' = <<>>
    BY <1>2
  <2> QED BY <1>3, <1>10, <1>14, <1>16, <2>1, AllTold
<1>21. Truthful'
  BY <1>10, <1>13, <1>16 DEF Truthful
<1> QED BY <1>17, <1>18, <1>19, <1>20, <1>21 DEF TerminalInv

\* A new shell shows its prompt.
LEMMA FreshShell ==
  ASSUME NEW t \in ScreenTokens, t = T!Token("ps1", sent), T!IsPrompt(t),
         busy \in Nat, sent \in Nat, lines \in Nat, buffer = <<t>>, prevOutput = <<>>, busy = 0,
         typed = <<>>, told = UpTo(lines), call = T!Idle, ~ last.done
  PROVE  TerminalInv
<1>1. /\ buffer \in Screens /\ T!AtPrompt(buffer) /\ buffer[Len(buffer)] = t
      /\ T!Between(buffer) = <<>>
  BY FreshScreen
<1>2. t.of = sent
  BY DEF T!Token
<1>3. call = [phase |-> "idle", kind |-> "none", initial |-> 0, export |-> FALSE]
  BY DEF T!Idle
<1>4. Sorted
  <2>1. call \in Executions /\ call.phase = "idle"
    BY <1>3 DEF Executions
  <2>2. told \in Seq(Nat) /\ prevOutput \in Seq(ScreenTokens)
    <3>1. told \in Seq(Nat)
      BY UpToIs
    <3>2. prevOutput \in Seq(ScreenTokens)
      OBVIOUS
    <3> QED BY <3>1, <3>2
  <2> QED BY <1>1, <2>1, <2>2 DEF Sorted
<1>5. AtShell
  BY <1>1, <1>2 DEF AtShell
<1>6. AtCaller
  <2>1. call.phase = "idle"
    BY <1>3
  <2> QED BY <2>1 DEF AtCaller
<1>7. ToldSoFar
  <2>1. <<>> \in Seq(ScreenTokens)
    OBVIOUS
  <2>2. T!IsPrefix(<<>>, <<>>) /\ T!Lines(NewOf(<<>>, <<>>)) = <<>>
    BY <2>1, NewSame
  <2>3. told \o <<>> = told
    <3>1. told \in Seq(Nat)
      BY UpToIs
    <3> QED BY <3>1, ConcatEmptySeq
  <2> QED BY <1>1, <2>2, <2>3 DEF ToldSoFar, Untold
<1>8. Truthful
  BY DEF Truthful
<1> QED BY <1>4, <1>5, <1>6, <1>7, <1>8 DEF TerminalInv

\* The shell starts again, and the session with it.
LEMMA ResetKeeps ==
  ASSUME Shaped, T!Reset
  PROVE  TerminalInv'
<1> DEFINE t == T!Token("ps1", sent)
<1>1. sent \in Nat /\ lines \in Nat /\ (call.phase = "idle" => call = T!Idle)
  BY DEF Shaped
<1>2. /\ call.phase = "idle" /\ busy' = 0 /\ typed' = <<>> /\ buffer' = <<t>>
      /\ prevStatus' = "none" /\ prevOutput' = <<>> /\ told' = UpTo(lines)
      /\ last' = [last EXCEPT !.done = FALSE] /\ UNCHANGED <<call, sent, inputs, lines>>
  BY DEF T!Reset, UpTo
<1>3. t \in ScreenTokens /\ T!IsPrompt(t) /\ t.of = sent
  BY <1>1 DEF T!Token, T!IsPrompt, ScreenTokens
<1> HIDE DEF t
<1>4. /\ buffer' \in Screens /\ T!AtPrompt(buffer') /\ buffer'[Len(buffer')] = t
      /\ T!Between(buffer') = <<>>
  BY <1>2, <1>3, FreshScreen
<1>5. last'.done = FALSE
  BY <1>2 DEF Shaped
<1>6. told' \in Seq(Nat) /\ <<>> \in Seq(ScreenTokens)
  BY <1>1, <1>2, UpToIs
<1>7. Sorted'
  <2>1. call' = [phase |-> "idle", kind |-> "none", initial |-> 0, export |-> FALSE]
    BY <1>1, <1>2 DEF T!Idle
  <2>2. call' \in Executions /\ call'.phase = "idle"
    BY <2>1 DEF Executions
  <2> QED BY <1>1, <1>2, <1>4, <1>6, <2>2 DEF Sorted
<1>8. AtShell'
  BY <1>2, <1>3, <1>4 DEF AtShell
<1>9. AtCaller'
  BY <1>2 DEF AtCaller
<1>10. ToldSoFar'
  BY <1>1, <1>2, <1>4, <1>6, AllTold
<1>11. Truthful'
  BY <1>5 DEF Truthful
<1> QED BY <1>7, <1>8, <1>9, <1>10, <1>11 DEF TerminalInv

\* What becomes of an observation that is no longer said to be complete.
LEMMA NotDone ==
  ASSUME NEW S, NEW l \in [done : BOOLEAN, of : S]
  PROVE  \E d \in BOOLEAN : \E o : [l EXCEPT !.done = FALSE] = [done |-> d, of |-> o]
<1>1. [l EXCEPT !.done = FALSE] \in [done : BOOLEAN, of : S]
  OBVIOUS
<1>2. ASSUME NEW m \in [done : BOOLEAN, of : S]
      PROVE  \E d \in BOOLEAN : \E o : m = [done |-> d, of |-> o]
  OBVIOUS
<1> QED BY <1>1, <1>2

\* The call and the last observation keep their fields, clean or not.
LEMMA ShapedKeeps == ASSUME Shaped, [T!Next]_(T!vars) PROVE Shaped'
<1> DEFINE P == {"idle", "look", "send", "wait"}
           K == {"none", "command", "poll", "input", "interrupt"}
           C(c) == \E p \in P, e \in BOOLEAN, k \in K : \E i :
                     c = [phase |-> p, kind |-> k, initial |-> i, export |-> e]
           L(l) == \E d \in BOOLEAN : \E o : l = [done |-> d, of |-> o]
<1>1. /\ sent \in Nat /\ lines \in Nat /\ C(call) /\ L(last)
      /\ call.phase = "idle" => call = T!Idle
  BY DEF Shaped
<1>2. /\ sent' \in {sent, sent + 1} /\ lines' \in {lines, lines + 1}
      /\ call' = call \/ (C(call') /\ (call'.phase = "idle" => call' = T!Idle))
      /\ last' = last \/ L(last')
  <2> DEFINE S(c) == C(c) /\ (c.phase = "idle" => c = T!Idle)
  <2>1. CASE UNCHANGED T!vars
    BY <2>1 DEF T!vars
  <2>2. ASSUME NEW k \in {"command", "poll", "input", "interrupt"}, T!Call(k)
        PROVE  S(call') /\ UNCHANGED <<sent, lines, last>>
    <3>1. PICK e \in BOOLEAN :
            call' = [phase |-> "look", kind |-> k, initial |-> 0, export |-> e]
      BY <2>2 DEF T!Call, T!Idle
    <3>2. UNCHANGED <<sent, lines, last>>
      BY <2>2 DEF T!Call, T!shell
    <3>3. call'.phase = "look"
      BY <3>1
    <3>4. C(call')
      BY <3>1
    <3> QED BY <3>2, <3>3, <3>4
  <2>3. ASSUME T!Return PROVE S(call')
    BY <2>3 DEF T!Return, T!Idle
  <2>4. L([last EXCEPT !.done = FALSE])
    <3>1. PICK d \in BOOLEAN : \E o : last = [done |-> d, of |-> o]
      BY <1>1
    <3>2. PICK o : last = [done |-> d, of |-> o]
      BY <3>1
    <3>3. last \in [done : BOOLEAN, of : {o}]
      BY <3>2
    <3> QED BY <3>3, NotDone
  <2>5. ASSUME T!Refuse \/ T!TimeOut PROVE S(call') /\ L(last') /\ UNCHANGED <<sent, lines>>
    <3>1. T!Return /\ last' = [last EXCEPT !.done = FALSE] /\ UNCHANGED <<sent, lines>>
      BY <2>5 DEF T!Refuse, T!TimeOut, T!shell
    <3> HIDE DEF S, L
    <3> QED BY <2>3, <2>4, <3>1
  <2>6. ASSUME T!Look PROVE S(call') /\ UNCHANGED <<sent, lines, last>>
    <3>1. /\ call' = [call EXCEPT !.initial = T!Count(buffer),
                                  !.phase = IF call.kind = "poll" THEN "wait" ELSE "send"]
          /\ UNCHANGED <<sent, lines, last>>
      BY <2>6 DEF T!Look, T!shell
    <3>2. PICK p \in P, e \in BOOLEAN, k \in K :
            \E i : call = [phase |-> p, kind |-> k, initial |-> i, export |-> e]
      BY <1>1
    <3>3. PICK i : call = [phase |-> p, kind |-> k, initial |-> i, export |-> e]
      BY <3>2
    <3>4. call' = [phase |-> IF k = "poll" THEN "wait" ELSE "send", kind |-> k,
                   initial |-> T!Count(buffer), export |-> e]
      BY <3>1, <3>3
    <3>5. call'.phase # "idle"
      BY <3>4
    <3>6. C(call')
      BY <3>4
    <3> QED BY <3>1, <3>5, <3>6
  <2>7. ASSUME T!Send PROVE S(call') /\ sent' \in {sent, sent + 1} /\ UNCHANGED <<lines, last>>
    <3>1. /\ call' = [call EXCEPT !.phase = "wait"] /\ UNCHANGED <<lines, last>>
          /\ sent' \in {sent, sent + 1}
      BY <2>7 DEF T!Send
    <3>2. PICK p \in P, e \in BOOLEAN, k \in K :
            \E i : call = [phase |-> p, kind |-> k, initial |-> i, export |-> e]
      BY <1>1
    <3>3. PICK i : call = [phase |-> p, kind |-> k, initial |-> i, export |-> e]
      BY <3>2
    <3>4. call' = [phase |-> "wait", kind |-> k, initial |-> i, export |-> e]
      BY <3>1, <3>3
    <3>5. call'.phase # "idle"
      BY <3>4
    <3>6. C(call')
      BY <3>4
    <3> QED BY <3>1, <3>5, <3>6
  <2>8. ASSUME T!Complete PROVE S(call') /\ L(last') /\ UNCHANGED <<sent, lines>>
    <3>1. /\ T!Return /\ UNCHANGED <<sent, lines>>
          /\ \E d \in BOOLEAN : \E o : last' = [done |-> d, of |-> o]
      BY <2>8 DEF T!Complete, T!shell
    <3> QED BY <2>3, <3>1
  <2>9. ASSUME T!Reset PROVE L(last') /\ UNCHANGED <<sent, lines, call>>
    <3>1. last' = [last EXCEPT !.done = FALSE] /\ UNCHANGED <<sent, lines, call>>
      BY <2>9 DEF T!Reset
    <3> QED BY <2>4, <3>1
  <2>10. ASSUME T!Take \/ T!WriteLine \/ T!End
         PROVE  UNCHANGED <<sent, call, last>> /\ lines' \in {lines, lines + 1}
    BY <2>10 DEF T!Take, T!WriteLine, T!End
  <2> HIDE DEF S, L
  <2>11. CASE T!Next
    <3>1. S(call') \/ call' = call
      BY <2>2, <2>5, <2>6, <2>7, <2>8, <2>9, <2>10, <2>11 DEF T!Next, T!Session
    <3>2. L(last') \/ last' = last
      BY <2>2, <2>5, <2>6, <2>7, <2>8, <2>9, <2>10, <2>11 DEF T!Next, T!Session
    <3>3. sent' \in {sent, sent + 1} /\ lines' \in {lines, lines + 1}
      BY <2>2, <2>5, <2>6, <2>7, <2>8, <2>9, <2>10, <2>11 DEF T!Next, T!Session
    <3> QED BY <3>1, <3>2, <3>3 DEF S
  <2> QED BY <2>1, <2>11
<1> HIDE DEF C, L
<1>3. sent' \in Nat /\ lines' \in Nat /\ C(call') /\ L(last') /\ (call'.phase = "idle" => call' = T!Idle)
  BY <1>1, <1>2
<1> QED BY <1>3 DEF Shaped, C, L, P, K

\* Only a new shell makes a session clean again.
LEMMA CleanStays == ASSUME [T!Next]_(T!vars), ~ T!Reset, clean' PROVE clean
<1>1. CASE UNCHANGED T!vars
  BY <1>1 DEF T!vars
<1>2. CASE \E k \in {"command", "poll", "input", "interrupt"} : T!Call(k)
  BY <1>2 DEF T!Call
<1>3. CASE T!Session
  BY <1>3 DEF T!Session, T!Refuse, T!Look, T!Send, T!Complete, T!TimeOut, T!Tell
<1>4. CASE T!Take \/ T!WriteLine \/ T!End
  BY <1>4 DEF T!Take, T!WriteLine, T!End
<1> QED BY <1>1, <1>2, <1>3, <1>4 DEF T!Next

\* Every step of the session, its caller and the shell keeps the invariant while it is clean,
\* and a new shell restores it.
CleanInv == Shaped /\ (clean => TerminalInv)
LEMMA TerminalStep ==
  ASSUME T!TerminalAssumption, Room, CleanInv, [T!Next]_(T!vars)
  PROVE  CleanInv'
<1>1. Shaped /\ (clean => TerminalInv)
  BY DEF CleanInv
<1>2. Shaped'
  BY <1>1, ShapedKeeps
<1>3. ASSUME clean' PROVE TerminalInv'
  <2>1. CASE T!Reset
    BY <1>1, <2>1, ResetKeeps
  <2>2. CASE ~ T!Reset
    <3>1. TerminalInv
      <4>1. clean
        BY <1>3, <2>2, CleanStays
      <4> QED BY <1>1, <4>1
    <3>2. CASE UNCHANGED T!vars
      <4>1. UNCHANGED <<busy, typed, buffer, prevStatus, prevOutput, call, sent, inputs, lines,
                        told, last>>
        BY <3>2 DEF T!vars
      <4>2. Sorted'
        BY <3>1, <4>1 DEF TerminalInv, Sorted
      <4>3. AtShell'
        BY <3>1, <4>1 DEF TerminalInv, AtShell
      <4>4. AtCaller'
        BY <3>1, <4>1 DEF TerminalInv, AtCaller
      <4>5. ToldSoFar'
        BY <3>1, <4>1 DEF TerminalInv, ToldSoFar, Untold
      <4>6. Truthful'
        BY <3>1, <4>1 DEF TerminalInv, Truthful
      <4> QED BY <4>2, <4>3, <4>4, <4>5, <4>6 DEF TerminalInv
    <3>3. CASE \E k \in {"command", "poll", "input", "interrupt"} : T!Call(k)
      BY <3>1, <3>3, CallKeeps
    <3>4. CASE T!Session
      BY <1>1, <1>3, <3>1, <3>4, GoingOnKeeps, LookKeeps, SendKeeps, CompleteKeeps DEF T!Session
    <3>5. CASE T!Take \/ T!WriteLine \/ T!End
      BY <1>3, <3>1, <3>5, ShellKeeps
    <3> QED BY <2>2, <3>2, <3>3, <3>4, <3>5 DEF T!Next
  <2> QED BY <2>1, <2>2
<1> QED BY <1>2, <1>3 DEF CleanInv

\* The first screen is a prompt.
LEMMA TerminalInit == ASSUME T!Init PROVE CleanInv
<1> DEFINE t == T!Token("ps1", 0)
<1>1. /\ busy = 0 /\ typed = <<>> /\ buffer = <<t>> /\ prevOutput = <<>> /\ call = T!Idle
      /\ sent = 0 /\ lines = 0 /\ told = <<>> /\ last = [done |-> FALSE, of |-> 0]
  BY DEF T!Init
<1>2. t \in ScreenTokens /\ T!IsPrompt(t)
  BY DEF T!Token, T!IsPrompt, ScreenTokens
<1>3. UpTo(lines) = <<>>
  <2>1. Len(UpTo(0)) = 0 /\ UpTo(0) \in Seq(Nat)
    BY UpToIs
  <2> QED BY <1>1, <2>1, EmptySeq
<1>4. ~ last.done
  BY <1>1
<1>5. t = T!Token("ps1", sent)
  BY <1>1
<1>6. Shaped
  BY <1>1 DEF Shaped, T!Idle
<1> HIDE DEF t
<1>7. TerminalInv
  BY <1>1, <1>2, <1>3, <1>4, <1>5, FreshShell
<1> QED BY <1>6, <1>7 DEF CleanInv

\* It holds in every run in which the screen never fills.
LEMMA TerminalIs == ASSUME T!TerminalAssumption PROVE T!Spec /\ []Room => []CleanInv
<1>1. T!Init => CleanInv
  BY TerminalInit
<1>2. CleanInv /\ Room /\ [T!Next]_(T!vars) => CleanInv'
  BY TerminalStep
<1> QED BY <1>1, <1>2, PTL DEF T!Spec

\* While the screen has room, and since the shell was started each observation came after the
\* shell had taken what was typed, no export's observation that showed lines was thrown away,
\* and no input came to the shell itself: an observation that says completed speaks of the last
\* command sent; that one has ended, nothing typed is waiting, and every line was told.
THEOREM CompletionIsHonest ==
  ASSUME T!TerminalAssumption PROVE T!Spec /\ []Room => []T!Honest
<1>1. CleanInv => T!Honest
  BY DEF CleanInv, TerminalInv, Truthful, T!Honest
<1> QED BY <1>1, TerminalIs, PTL

\* Under the same conditions: however often a command times out, is polled, refused, fed or
\* interrupted, the observations tell each line of output once and in order.
THEOREM LinesToldOnce ==
  ASSUME T!TerminalAssumption PROVE T!Spec /\ []Room => []T!ToldOnce
<1>1. ASSUME TerminalInv PROVE \A i \in 1 .. Len(told) : told[i] = i
  <2>1. told \in Seq(Nat) /\ lines \in Nat /\ told \o Untold = UpTo(lines)
    BY <1>1 DEF TerminalInv, Sorted, ToldSoFar
  <2>2. Untold \in Seq(Nat)
    BY <1>1, UntoldIs
  <2> HIDE DEF Untold
  <2>3. /\ Len(told \o Untold) = Len(told) + Len(Untold) /\ Len(told) \in Nat /\ Len(Untold) \in Nat
        /\ \A i \in 1 .. Len(told) + Len(Untold) :
             (told \o Untold)[i] = IF i <= Len(told) THEN told[i] ELSE Untold[i - Len(told)]
    BY <2>1, <2>2, ConcatProperties
  <2>4. Len(told) + Len(Untold) = lines /\ \A i \in 1 .. lines : UpTo(lines)[i] = i
    BY <2>1, <2>3, UpToIs
  <2>5. ASSUME NEW i \in 1 .. Len(told) PROVE told[i] = i
    <3>1. i \in 1 .. lines /\ i <= Len(told) /\ i \in 1 .. Len(told) + Len(Untold)
      BY <2>3, <2>4
    <3> QED BY <2>1, <2>3, <2>4, <3>1
  <2> QED BY <2>5
<1>2. CleanInv => T!ToldOnce
  BY <1>1 DEF CleanInv, T!ToldOnce
<1> QED BY <1>2, TerminalIs, PTL

\* Under the same conditions: a command is typed only when the shell waits at its prompt, which
\* the session knows from the screen alone.
THEOREM CommandsOneAtATime ==
  ASSUME T!TerminalAssumption PROVE T!Spec /\ []Room => []T!OneAtATime
<1>1. ASSUME TerminalInv, NEW i \in 1 .. Len(typed), typed[i] = "command" PROVE busy = 0
  <2>1. \/ typed = <<"command">> /\ busy = 0
        \/ typed = <<"interrupt">>
        \/ typed = <<"input">>
        \/ typed = <<>>
    BY <1>1 DEF TerminalInv, AtShell
  <2>2. ASSUME NEW k \in {"interrupt", "input"}, typed = <<k>> PROVE FALSE
    BY <1>1, <2>2
  <2>3. typed # <<>>
    BY <1>1
  <2> QED BY <2>1, <2>2, <2>3
<1>2. CleanInv => T!OneAtATime
  BY <1>1 DEF CleanInv, T!OneAtATime
<1> QED BY <1>2, TerminalIs, PTL

(***************************************************************************)
(* The stuck detector (StuckDetector), for any thresholds, any contents    *)
(* and any number of events and of calls in parallel.                      *)
(***************************************************************************)

CONSTANTS ActionObservation, ActionError, Monologue, Alternating, Contents, Parallel, Confirms,
          MaxEvents
VARIABLES events, status
Stuck == INSTANCE StuckDetector

(***************************************************************************)
(* The inductive invariant.  Ids are places, an action's call is its place *)
(* and its batch the place of the first action of the response, which has  *)
(* nothing but actions after it; a call has one result, after it.  No      *)
(* response comes while an action is unanswered, so a result is of the     *)
(* last batch before it or of a later call, and so is what will come.      *)
(***************************************************************************)
Marks == [id : Nat, kind : Kinds, call : Nat, batch : Nat, thinking : BOOLEAN,
          content : {0} \cup Contents, forgets : {{}}, offset : {-1}]
ByPlace(l) == \A i \in 1 .. Len(l) : l[i].id = i
Contiguous(l) ==
  \A i \in 1 .. Len(l) : IsAction(l[i]) => /\ l[i].call = i /\ l[i].batch \in 1 .. i
                                           /\ \A k \in l[i].batch .. i : IsAction(l[k])
ResultsAfter(l) ==
  \A j \in 1 .. Len(l) : IsResult(l[j]) => l[j].call \in 1 .. j - 1 /\ IsAction(l[l[j].call])
OneResult(l) ==
  \A i, j \in 1 .. Len(l) : IsResult(l[i]) /\ IsResult(l[j]) /\ l[i].call = l[j].call => i = j
OfTheLast(l) ==
  \A i, j \in 1 .. Len(l) : IsAction(l[i]) /\ IsResult(l[j]) /\ i < j => l[i].batch <= l[j].call
IsAnswered(l, k) == \E j \in 1 .. Len(l) : IsResult(l[j]) /\ l[j].call = k
LastOpen(l) ==
  \A i, k \in 1 .. Len(l) : IsAction(l[i]) /\ IsAction(l[k]) => l[i].batch <= k \/ IsAnswered(l, k)
Sound(l) == /\ l \in Seq(Marks)
            /\ ByPlace(l) /\ Contiguous(l) /\ ResultsAfter(l) /\ OneResult(l)
            /\ OfTheLast(l) /\ LastOpen(l)

\* The operators of the module and those of the view are the same.
LEMMA StuckView ==
  /\ \A e : (Stuck!IsAction(e) <=> IsAction(e)) /\ (Stuck!IsResult(e) <=> IsResult(e))
  /\ \A s, S : Stuck!Only(s, S) = Only(s, S)
  /\ \A s : Stuck!Elements(s) = Elements(s)
  /\ \A S : Stuck!MaxOf(S) = MaxOf(S) /\ Stuck!MinOf(S) = MinOf(S) /\ Stuck!Actions(S) = Actions(S)
  /\ \A a, S : Stuck!ResultsOf(a, S) = ResultsOf(a, S)
<1>1. \A e : (Stuck!IsAction(e) <=> IsAction(e)) /\ (Stuck!IsResult(e) <=> IsResult(e))
  BY DEF Stuck!IsAction, IsAction, Stuck!IsResult, IsResult, Stuck!ResultKinds, ResultKinds
<1>2. \A s, S : Stuck!Only(s, S) = Only(s, S)
  BY DEF Stuck!Only, Only
<1>3. \A s : Stuck!Elements(s) = Elements(s)
  BY DEF Stuck!Elements, Elements
<1>4. \A S : Stuck!MaxOf(S) = MaxOf(S) /\ Stuck!MinOf(S) = MinOf(S)
  BY DEF Stuck!MaxOf, MaxOf, Stuck!MinOf, MinOf
<1>5. \A S : Stuck!Actions(S) = Actions(S)
  BY <1>1 DEF Stuck!Actions, Actions
<1>6. \A a, S : Stuck!ResultsOf(a, S) = ResultsOf(a, S)
  BY <1>1 DEF Stuck!ResultsOf, ResultsOf
<1> QED BY <1>1, <1>2, <1>3, <1>4, <1>5, <1>6

\* The events of some kinds, taken one after the other.
LEMMA KindsRun ==
  ASSUME NEW R, NEW l \in Seq(R), NEW kinds
  PROVE  \E f : Filters(f, Len(l), R, l, kinds) /\ Stuck!OfKinds(l, kinds) = f[Len(l)]
<1> DEFINE n == Len(l)
           S == {e \in Elements(l) : e.kind \in kinds}
           G == [i \in 0 .. n |-> Seq(R)]
<1>1. n \in Nat /\ \A i \in 1 .. n : l[i] \in R /\ l[i] \in Elements(l)
  BY DEF Elements
<1>2. Stuck!OfKinds(l, kinds) = Only(l, S)
  BY StuckView DEF Stuck!OfKinds
<1>3. \A i \in 1 .. n : l[i] \in S <=> l[i].kind \in kinds
  BY <1>1
<1> HIDE DEF S
<1>4. PICK f : Takes(f, l, S) /\ Only(l, S) = f[Len(l)]
  BY OnlyRuns
<1>5. f[0] = <<>> /\ \A i \in 1 .. n : f[i] = IF l[i].kind \in kinds THEN Append(f[i - 1], l[i]) ELSE f[i - 1]
  BY <1>3, <1>4 DEF Takes
<1> HIDE DEF n
<1>6. \A i \in 0 .. n : f[i] \in G[i]
  <2>1. \A i \in 0 .. n : G[i] = Seq(R)
    OBVIOUS
  <2>2. f[0] \in G[0]
    <3>1. 0 \in 0 .. n /\ <<>> \in Seq(R)
      BY <1>1
    <3> QED BY <1>5, <2>1, <3>1
  <2>3. \A i \in 1 .. n : f[i - 1] \in G[i - 1] => f[i] \in G[i]
    <3> TAKE i \in 1 .. n
    <3> HAVE f[i - 1] \in G[i - 1]
    <3>1. i - 1 \in 0 .. n /\ i \in 0 .. n
      BY <1>1
    <3>2. f[i - 1] \in Seq(R) /\ l[i] \in R
      BY <1>1, <2>1, <3>1
    <3>3. Append(f[i - 1], l[i]) \in Seq(R)
      BY <3>2, AppendProperties
    <3>4. f[i] \in Seq(R)
      BY <1>5, <3>2, <3>3
    <3> QED BY <2>1, <3>1, <3>4
  <2> HIDE DEF G
  <2> QED BY <1>1, <2>2, <2>3, Reached
<1>7. Filters(f, n, R, l, kinds)
  <2>1. \A i \in 0 .. n : f[i] \in Seq(R)
    BY <1>6
  <2> QED BY <1>5, <2>1 DEF Filters
<1> QED BY <1>2, <1>4, <1>7 DEF n

\* Calls one at a time: a result directly follows its call, once there was a call.
Tidy(l) ==
  /\ \A i \in 1 .. Len(l) : IsAction(l[i]) => i < Len(l) /\ IsResult(l[i + 1])
  /\ \A i, j \in 1 .. Len(l) : IsAction(l[i]) /\ IsResult(l[j]) /\ i < j => IsAction(l[j - 1])

\* The actions a and the results b up to place i of a list, in step but for an action at i.
Behind(l, i, a, b, d) ==
  /\ d \in {0, 1} /\ (d = 1 <=> i > 0 /\ IsAction(l[i]))
  /\ Len(a) - d <= Len(b) /\ Len(a) + Len(b) <= i
  /\ d = 1 => Len(a) >= 1 /\ a[Len(a)] = l[i]
  /\ Len(a) > 0 => \E k \in 1 .. i : IsAction(l[k])
  /\ \A x \in 1 .. Len(a) - d :
       \E p \in 1 .. i - 1 : /\ IsAction(l[p]) /\ IsResult(l[p + 1])
                             /\ a[x] = l[p] /\ b[Len(b) - (Len(a) - d) + x] = l[p + 1]

LEMMA BehindGoesOn ==
  ASSUME NEW R, NEW l \in Seq(R), Tidy(l), NEW i \in 1 .. Len(l),
         NEW a \in Seq(R), NEW b \in Seq(R), NEW d, Behind(l, i - 1, a, b, d),
         NEW a1, NEW b1,
         a1 = IF IsAction(l[i]) THEN Append(a, l[i]) ELSE a,
         b1 = IF IsResult(l[i]) THEN Append(b, l[i]) ELSE b
  PROVE  \E d1 : Behind(l, i, a1, b1, d1)
<1> DEFINE n == Len(l)
           m == Len(a)
           q == Len(b)
<1>1. /\ n \in Nat /\ m \in Nat /\ q \in Nat /\ l[i] \in R
      /\ Len(Append(a, l[i])) = m + 1 /\ Append(a, l[i])[m + 1] = l[i]
      /\ \A x \in 1 .. m : Append(a, l[i])[x] = a[x]
      /\ Len(Append(b, l[i])) = q + 1 /\ Append(b, l[i])[q + 1] = l[i]
      /\ \A x \in 1 .. q : Append(b, l[i])[x] = b[x]
  BY AppendProperties
<1>2. /\ d \in {0, 1} /\ (d = 1 <=> i - 1 > 0 /\ IsAction(l[i - 1]))
      /\ m - d <= q /\ m + q <= i - 1
      /\ d = 1 => m >= 1 /\ a[m] = l[i - 1]
      /\ m > 0 => \E k \in 1 .. i - 1 : IsAction(l[k])
  BY DEF Behind
<1>3. ASSUME NEW x \in 1 .. m - d
      PROVE  \E p \in 1 .. i - 1 : /\ IsAction(l[p]) /\ IsResult(l[p + 1])
                                   /\ p \in 1 .. i - 2
                                   /\ a[x] = l[p] /\ b[q - (m - d) + x] = l[p + 1]
  <2>1. PICK p \in 1 .. (i - 1) - 1 : /\ IsAction(l[p]) /\ IsResult(l[p + 1])
                                      /\ a[x] = l[p] /\ b[q - (m - d) + x] = l[p + 1]
    BY DEF Behind
  <2>2. p \in 1 .. i - 1 /\ p \in 1 .. i - 2
    OBVIOUS
  <2> QED BY <2>1, <2>2
<1>4. ~ (IsAction(l[i]) /\ IsResult(l[i]))
  BY DEF IsAction, IsResult, ResultKinds
<1>5. d = 1 => IsResult(l[i])
  <2> SUFFICES ASSUME d = 1 PROVE IsResult(l[i])
    OBVIOUS
  <2>1. i - 1 \in 1 .. n /\ IsAction(l[i - 1]) /\ (i - 1) + 1 = i
    BY <1>1, <1>2
  <2> QED BY <2>1 DEF Tidy, n
<1>t. IsResult(l[i]) /\ m > 0 => d = 1
  <2> SUFFICES ASSUME IsResult(l[i]), m > 0 PROVE d = 1
    OBVIOUS
  <2>1. PICK k \in 1 .. i - 1 : IsAction(l[k])
    BY <1>2
  <2>2. k \in 1 .. n /\ k < i /\ i - 1 > 0
    BY <1>1
  <2>3. IsAction(l[i - 1])
    BY <2>1, <2>2 DEF Tidy, n
  <2> QED BY <1>2, <2>2, <2>3
<1> HIDE DEF n, m, q
<1>6. CASE IsAction(l[i])
  <2>1. d = 0 /\ a1 = Append(a, l[i]) /\ b1 = b
    BY <1>2, <1>4, <1>5, <1>6
  <2>2. Len(a1) = m + 1 /\ Len(b1) = q /\ (m + 1) - 1 = m
    BY <1>1, <2>1 DEF q
  <2>3. \A x \in 1 .. m : \E p \in 1 .. i - 1 : /\ IsAction(l[p]) /\ IsResult(l[p + 1])
                                   /\ a1[x] = l[p] /\ b1[q - m + x] = l[p + 1]
    <3> TAKE x \in 1 .. m
    <3>1. x \in 1 .. m - d /\ q - (m - d) + x = q - m + x /\ a1[x] = a[x]
      BY <1>1, <2>1
    <3> QED BY <1>3, <2>1, <3>1
  <2>4. i > 0 /\ i \in 1 .. i /\ m + 1 > 0 /\ a1[m + 1] = l[i]
    BY <1>1, <2>1
  <2>5. (m + 1) - 1 <= q /\ (m + 1) + q <= i
    BY <1>1, <1>2, <2>1
  <2>a. a1[Len(a1)] = l[i]
    BY <2>2, <2>4
  <2>b. m + 1 > 0 /\ m + 1 >= 1
    BY <1>1
  <2>6. /\ Len(a1) - 1 = m /\ Len(a1) > 0 /\ Len(a1) >= 1 /\ a1[Len(a1)] = l[i]
        /\ Len(a1) - 1 <= Len(b1) /\ Len(a1) + Len(b1) <= i
    BY <2>2, <2>5, <2>a, <2>b
  <2>7. \A x \in 1 .. Len(a1) - 1 : \E p \in 1 .. i - 1 :
          /\ IsAction(l[p]) /\ IsResult(l[p + 1])
          /\ a1[x] = l[p] /\ b1[Len(b1) - (Len(a1) - 1) + x] = l[p + 1]
    BY <2>2, <2>3, <2>6
  <2>8. Behind(l, i, a1, b1, 1)
    BY <1>6, <2>4, <2>6, <2>7 DEF Behind
  <2> QED BY <2>8
<1>7. CASE IsResult(l[i]) /\ d = 1
  <2>1. a1 = a /\ b1 = Append(b, l[i]) /\ ~ IsAction(l[i])
    BY <1>4, <1>7
  <2>2. Len(a1) = m /\ Len(b1) = q + 1 /\ m - 0 = m
    BY <1>1, <2>1 DEF m
  <2>3. \A x \in 1 .. m : \E p \in 1 .. i - 1 : /\ IsAction(l[p]) /\ IsResult(l[p + 1])
                                   /\ a1[x] = l[p] /\ b1[(q + 1) - m + x] = l[p + 1]
    <3> TAKE x \in 1 .. m
    <3>1. CASE x = m
      <4>1. (q + 1) - m + x = q + 1 /\ i - 1 \in 1 .. i - 1 /\ (i - 1) + 1 = i
        BY <1>1, <1>2, <1>7, <3>1
      <4>2. a1[x] = l[i - 1] /\ b1[q + 1] = l[i] /\ IsAction(l[i - 1])
        BY <1>1, <1>2, <1>7, <2>1, <3>1
      <4> QED BY <1>7, <4>1, <4>2
    <3>2. CASE x # m
      <4>1. m - d = m - 1 /\ m - 1 <= q /\ x \in 1 .. m - d
        <5>1. m - d = m - 1 /\ m - d <= q
          BY <1>2, <1>7
        <5>2. x \in 1 .. m - 1
          BY <1>1, <3>2
        <5> QED BY <5>1, <5>2
      <4>2. (q + 1) - m + x = q - (m - d) + x /\ (q + 1) - m + x \in 1 .. q
        <5>1. x >= 1 /\ x <= m - 1 /\ x \in Nat
          BY <1>1, <4>1
        <5>2. (q + 1) - m + x = q - (m - 1) + x
          BY <1>1, <5>1
        <5>3. (q + 1) - m + x \in 1 .. q
          BY <1>1, <4>1, <5>1
        <5> QED BY <4>1, <5>2, <5>3
      <4>3. b1[(q + 1) - m + x] = b[q - (m - d) + x]
        BY <1>1, <2>1, <4>2
      <4>4. PICK p \in 1 .. i - 1 : /\ IsAction(l[p]) /\ IsResult(l[p + 1])
                                    /\ a[x] = l[p] /\ b[q - (m - d) + x] = l[p + 1]
        BY <1>3, <4>1
      <4> QED BY <2>1, <4>3, <4>4
    <3> QED BY <3>1, <3>2
  <2>4. m <= q + 1 /\ m + (q + 1) <= i
    BY <1>1, <1>2, <1>7
  <2>5. \E k \in 1 .. i : IsAction(l[k])
    <3>1. i - 1 \in 1 .. i /\ IsAction(l[i - 1])
      BY <1>2, <1>7
    <3> QED BY <3>1
  <2>6. /\ Len(a1) - 0 = m /\ Len(b1) - (Len(a1) - 0) = (q + 1) - m
        /\ Len(a1) - 0 <= Len(b1) /\ Len(a1) + Len(b1) <= i
    BY <2>2, <2>4
  <2>7. \A x \in 1 .. Len(a1) - 0 : \E p \in 1 .. i - 1 :
          /\ IsAction(l[p]) /\ IsResult(l[p + 1])
          /\ a1[x] = l[p] /\ b1[Len(b1) - (Len(a1) - 0) + x] = l[p + 1]
    <3> DEFINE z == Len(a1) - 0
               w == Len(b1) - z
    <3>1. z = m /\ w = (q + 1) - m
      BY <2>6
    <3> HIDE DEF z, w
    <3>2. \A x \in 1 .. z : \E p \in 1 .. i - 1 :
            IsAction(l[p]) /\ IsResult(l[p + 1]) /\ a1[x] = l[p] /\ b1[w + x] = l[p + 1]
      BY <2>3, <3>1
    <3> QED BY <3>2 DEF z, w
  <2>8. Behind(l, i, a1, b1, 0)
    <3>1. ~ (0 = 1) /\ 0 \in {0, 1}
      OBVIOUS
    <3> QED BY <2>1, <2>5, <2>6, <2>7, <3>1 DEF Behind
  <2> QED BY <2>8
<1>8. CASE IsResult(l[i]) /\ d # 1
  <2>1. a1 = a /\ b1 = Append(b, l[i]) /\ ~ IsAction(l[i]) /\ m = 0
    BY <1>1, <1>4, <1>8, <1>t
  <2>2. Len(a1) = 0 /\ Len(b1) = q + 1
    BY <1>1, <2>1 DEF m
  <2>3. 0 + (q + 1) <= i /\ 0 <= q + 1
    BY <1>1, <1>2, <2>1
  <2>4. Behind(l, i, a1, b1, 0)
    BY <1>1, <2>1, <2>2, <2>3 DEF Behind
  <2> QED BY <2>4
<1>9. CASE ~ IsAction(l[i]) /\ ~ IsResult(l[i])
  <2>1. a1 = a /\ b1 = b /\ d = 0
    BY <1>2, <1>5, <1>9
  <2>2. \A x \in 1 .. m - 0 : \E p \in 1 .. i - 1 : /\ IsAction(l[p]) /\ IsResult(l[p + 1])
                                   /\ a1[x] = l[p] /\ b1[q - (m - 0) + x] = l[p + 1]
    <3> TAKE x \in 1 .. m - 0
    <3>1. x \in 1 .. m - d
      BY <2>1
    <3>2. PICK p \in 1 .. i - 1 : /\ IsAction(l[p]) /\ IsResult(l[p + 1])
                                  /\ a[x] = l[p] /\ b[q - (m - d) + x] = l[p + 1]
      BY <1>3, <3>1
    <3> QED BY <2>1, <3>2
  <2>3. m - 0 <= q /\ m + q <= i
    BY <1>1, <1>2, <2>1
  <2>4. m > 0 => \E k \in 1 .. i : IsAction(l[k])
    <3>1. \A k \in 1 .. i - 1 : k \in 1 .. i
      OBVIOUS
    <3> QED BY <1>2, <3>1
  <2>5. Behind(l, i, a1, b1, 0)
    BY <1>9, <2>1, <2>2, <2>3, <2>4 DEF Behind, m, q
  <2> QED BY <2>5
<1> QED BY <1>6, <1>7, <1>8, <1>9

\* So at the end: the last results are those of the actions, one for one.
LEMMA InStep ==
  ASSUME NEW R, NEW l \in Seq(R), Tidy(l)
  PROVE  LET a == Stuck!OfKinds(l, {"action"})
             b == Stuck!OfKinds(l, ResultKinds)
         IN  /\ a \in Seq(R) /\ b \in Seq(R)
             /\ Len(a) <= Len(b) /\ Len(a) + Len(b) <= Len(l)
             /\ \A x \in 1 .. Len(a) :
                  \E p \in 1 .. Len(l) - 1 :
                    /\ IsAction(l[p]) /\ IsResult(l[p + 1])
                    /\ a[x] = l[p] /\ b[Len(b) - Len(a) + x] = l[p + 1]
<1> DEFINE n == Len(l)
           G == [i \in 0 .. n |-> {c \in Seq(R) \X Seq(R) : \E d : Behind(l, i, c[1], c[2], d)}]
<1>1. PICK f : Filters(f, Len(l), R, l, {"action"}) /\ Stuck!OfKinds(l, {"action"}) = f[Len(l)]
  BY KindsRun
<1>2. PICK g : Filters(g, Len(l), R, l, ResultKinds) /\ Stuck!OfKinds(l, ResultKinds) = g[Len(l)]
  BY KindsRun
<1>3. n \in Nat
  OBVIOUS
<1>4. /\ f[0] = <<>> /\ \A i \in 0 .. n : f[i] \in Seq(R)
      /\ \A i \in 1 .. n : f[i] = IF IsAction(l[i]) THEN Append(f[i - 1], l[i]) ELSE f[i - 1]
  <2>1. \A i \in 1 .. n : l[i].kind \in {"action"} <=> IsAction(l[i])
    BY DEF IsAction
  <2> QED BY <1>1, <2>1 DEF Filters
<1>5. /\ g[0] = <<>> /\ \A i \in 0 .. n : g[i] \in Seq(R)
      /\ \A i \in 1 .. n : g[i] = IF IsResult(l[i]) THEN Append(g[i - 1], l[i]) ELSE g[i - 1]
  BY <1>2 DEF Filters, IsResult
<1> DEFINE h == [i \in 0 .. n |-> <<f[i], g[i]>>]
<1>6. \A i \in 0 .. n : h[i] = <<f[i], g[i]>>
  OBVIOUS
<1>7. \A i \in 0 .. n : \A u, v \in Seq(R) : <<u, v>> \in G[i] <=> \E d : Behind(l, i, u, v, d)
  <2> TAKE i \in 0 .. n
  <2> TAKE u, v \in Seq(R)
  <2> DEFINE c == <<u, v>>
             Good(e) == \E d : Behind(l, i, e[1], e[2], d)
  <2>1. G[i] = {e \in Seq(R) \X Seq(R) : Good(e)}
    OBVIOUS
  <2>2. c \in Seq(R) \X Seq(R) /\ c[1] = u /\ c[2] = v
    OBVIOUS
  <2> HIDE DEF c
  <2>3. Good(c) <=> \E d : Behind(l, i, u, v, d)
    BY <2>2
  <2> HIDE DEF Good, G
  <2>4. c \in G[i] <=> \E d : Behind(l, i, u, v, d)
    BY <2>1, <2>2, <2>3
  <2> QED BY <2>4 DEF c
<1> HIDE DEF n, h, G
<1>8. h[0] \in G[0]
  <2>1. 0 \in 0 .. n /\ <<>> \in Seq(R)
    BY <1>3
  <2> DEFINE none == <<>>
  <2>2. none = <<>> /\ Len(none) = 0
    OBVIOUS
  <2> HIDE DEF none
  <2>3. Behind(l, 0, none, none, 0)
    BY <2>2 DEF Behind
  <2>4. f[0] = none /\ g[0] = none /\ none \in Seq(R)
    BY <1>4, <1>5, <2>1, <2>2
  <2>5. <<none, none>> \in G[0]
    BY <1>7, <2>1, <2>3, <2>4
  <2> QED BY <1>6, <2>1, <2>4, <2>5
<1>9. \A i \in 1 .. n : h[i - 1] \in G[i - 1] => h[i] \in G[i]
  <2> TAKE i \in 1 .. n
  <2> HAVE h[i - 1] \in G[i - 1]
  <2>1. i - 1 \in 0 .. n /\ i \in 0 .. n
    BY <1>3
  <2>2. PICK d : Behind(l, i - 1, f[i - 1], g[i - 1], d)
    BY <1>4, <1>5, <1>6, <1>7, <2>1
  <2>3. \E e : Behind(l, i, f[i], g[i], e)
    <3>1. f[i - 1] \in Seq(R) /\ g[i - 1] \in Seq(R)
      BY <1>4, <1>5, <2>1
    <3>2. f[i] = IF IsAction(l[i]) THEN Append(f[i - 1], l[i]) ELSE f[i - 1]
      BY <1>4
    <3>3. g[i] = IF IsResult(l[i]) THEN Append(g[i - 1], l[i]) ELSE g[i - 1]
      BY <1>5
    <3>4. i \in 1 .. Len(l)
      BY DEF n
    <3> QED BY <2>2, <3>1, <3>2, <3>3, <3>4, BehindGoesOn
  <2> QED BY <1>4, <1>5, <1>6, <1>7, <2>1, <2>3
<1>10. \A i \in 0 .. n : h[i] \in G[i]
  BY <1>3, <1>8, <1>9, Reached
<1>11. PICK d : Behind(l, n, f[n], g[n], d)
  <2>1. n \in 0 .. n
    BY <1>3
  <2> QED BY <1>4, <1>5, <1>6, <1>7, <1>10, <2>1
<1>12. d = 0
  <2>1. d = 1 => n \in 1 .. n /\ IsAction(l[n])
    BY <1>3, <1>11 DEF Behind
  <2>2. n \in 1 .. n => (IsAction(l[n]) => n < n)
    BY DEF Tidy, n
  <2> QED BY <1>3, <1>11, <2>1, <2>2 DEF Behind
<1> DEFINE a == f[n]
           b == g[n]
<1>13. a \in Seq(R) /\ b \in Seq(R) /\ Len(a) \in Nat /\ Len(b) \in Nat
  <2>1. n \in 0 .. n
    BY <1>3
  <2>2. a \in Seq(R) /\ b \in Seq(R)
    BY <1>4, <1>5, <2>1
  <2> HIDE DEF a, b
  <2> QED BY <2>2
<1>14. Stuck!OfKinds(l, {"action"}) = a /\ Stuck!OfKinds(l, ResultKinds) = b
  BY <1>1, <1>2 DEF n
<1>15. Behind(l, n, a, b, 0)
  BY <1>11, <1>12
<1> HIDE DEF a, b
<1>16. Len(a) - 0 = Len(a)
  BY <1>13
<1>17. /\ Len(a) <= Len(b) /\ Len(a) + Len(b) <= n
       /\ \A x \in 1 .. Len(a) :
            \E p \in 1 .. n - 1 : /\ IsAction(l[p]) /\ IsResult(l[p + 1])
                                  /\ a[x] = l[p] /\ b[Len(b) - Len(a) + x] = l[p + 1]
  BY <1>15, <1>16 DEF Behind
<1> QED BY <1>13, <1>14, <1>17 DEF n

\* What a call and its result are to the detector.
Answering(l) ==
  \A p \in 1 .. Len(l) - 1 :
    IsAction(l[p]) /\ IsResult(l[p + 1]) => ResultsOf(l[p], Elements(l)) = {l[p + 1]}
Fine(l) == l \in Seq(Marks) /\ Tidy(l) /\ Answering(l) /\ ~ Stuck!Rejected(l)

\* The pairs, read off the lists of calls and of results.
LEMMA PairsAre ==
  ASSUME NEW l, Fine(l)
  PROVE  LET a == Stuck!OfKinds(l, {"action"})
             b == Stuck!OfKinds(l, ResultKinds)
             r(x) == b[Len(b) - Len(a) + x]
         IN  /\ a \in Seq(Marks) /\ b \in Seq(Marks)
             /\ Len(a) <= Len(b) /\ Len(a) + Len(b) <= Len(l)
             /\ Len(Stuck!Pairs(l)) = Len(a)
             /\ \A x \in 1 .. Len(a) :
                  /\ a[x].kind = "action" /\ r(x).kind \in {"observation", "error"}
                  /\ Stuck!Pairs(l)[x] = [does |-> a[x].content, gets |-> {<<r(x).kind, r(x).content>>}]
<1> DEFINE a == Stuck!OfKinds(l, {"action"})
           b == Stuck!OfKinds(l, ResultKinds)
           r(x) == b[Len(b) - Len(a) + x]
           gets(x) == {<<e.kind, e.content>> : e \in Stuck!ResultsOf(a[x], Stuck!Elements(l))}
           pairs == [x \in 1 .. Len(a) |-> [does |-> a[x].content, gets |-> gets(x)]]
<1>1. l \in Seq(Marks) /\ Tidy(l) /\ Answering(l)
  BY DEF Fine
<1>2. /\ a \in Seq(Marks) /\ b \in Seq(Marks)
      /\ Len(a) <= Len(b) /\ Len(a) + Len(b) <= Len(l)
      /\ \A x \in 1 .. Len(a) :
           \E p \in 1 .. Len(l) - 1 :
             /\ IsAction(l[p]) /\ IsResult(l[p + 1])
             /\ a[x] = l[p] /\ b[Len(b) - Len(a) + x] = l[p + 1]
  BY <1>1, InStep
<1>3. Stuck!Pairs(l) = [x \in DOMAIN a |-> [does |-> a[x].content, gets |-> gets(x)]]
  BY DEF Stuck!Pairs
<1> HIDE DEF a, b
<1>4. DOMAIN a = 1 .. Len(a) /\ Len(a) \in Nat
  BY <1>2
<1>5. Stuck!Pairs(l) = pairs
  BY <1>3, <1>4
<1>6. Len(pairs) = Len(a) /\ \A x \in 1 .. Len(a) : pairs[x] = [does |-> a[x].content, gets |-> gets(x)]
  BY <1>4
<1> HIDE DEF pairs, gets
<1>7. ASSUME NEW x \in 1 .. Len(a)
      PROVE  /\ a[x].kind = "action" /\ r(x).kind \in {"observation", "error"}
             /\ gets(x) = {<<r(x).kind, r(x).content>>}
  <2>1. PICK p \in 1 .. Len(l) - 1 : /\ IsAction(l[p]) /\ IsResult(l[p + 1])
                                     /\ a[x] = l[p] /\ r(x) = l[p + 1]
    BY <1>2
  <2> HIDE DEF r
  <2>2. ResultsOf(a[x], Elements(l)) = {r(x)}
    BY <1>1, <2>1 DEF Answering
  <2>3. gets(x) = {<<e.kind, e.content>> : e \in {r(x)}}
    BY <2>2, StuckView DEF gets
  <2>4. r(x).kind # "rejection"
    <3>1. p + 1 \in DOMAIN l
      BY <1>1
    <3> QED BY <2>1, <3>1 DEF Fine, Stuck!Rejected
  <2>5. a[x].kind = "action" /\ r(x).kind \in {"observation", "error"}
    BY <2>1, <2>4 DEF IsAction, IsResult, ResultKinds
  <2> QED BY <2>3, <2>5
<1>8. /\ Len(Stuck!Pairs(l)) = Len(a)
      /\ \A x \in 1 .. Len(a) :
           /\ a[x].kind = "action" /\ r(x).kind \in {"observation", "error"}
           /\ Stuck!Pairs(l)[x] = [does |-> a[x].content, gets |-> {<<r(x).kind, r(x).content>>}]
  <2> HIDE DEF r
  <2> QED BY <1>5, <1>6, <1>7
<1> QED BY <1>2, <1>8 DEF a, b

\* The last of some kinds are read off the list from its end.
LEMMA NewestIs ==
  ASSUME NEW l, NEW kinds, NEW n \in Nat, NEW R, NEW found \in Seq(R),
         Stuck!OfKinds(l, kinds) = found
  PROVE  LET s == Stuck!Newest(l, kinds, n)
         IN  /\ Len(s) = IF n <= Len(found) THEN n ELSE Len(found)
             /\ \A i \in 1 .. Len(s) : s[i] = found[Len(found) + 1 - i]
<1> DEFINE S == {n, Len(found)}
           k == Stuck!MinOf(S)
           s == [i \in 1 .. k |-> found[Len(found) + 1 - i]]
<1>1. Len(found) \in Nat
  OBVIOUS
<1>2. k = IF n <= Len(found) THEN n ELSE Len(found)
  <2>1. S \subseteq Nat /\ S # {}
    BY <1>1
  <2>2. k = MinOf(S)
    BY StuckView
  <2>3. MinOf(S) \in S /\ \A y \in S : MinOf(S) <= y
    <3> HIDE DEF S
    <3> QED BY <2>1, MinIs
  <2> HIDE DEF k
  <2>4. k \in {n, Len(found)} /\ k <= n /\ k <= Len(found)
    BY <2>2, <2>3
  <2> QED BY <1>1, <2>4
<1>3. Stuck!Newest(l, kinds, n) = s
  BY DEF Stuck!Newest
<1> HIDE DEF k
<1>4. k \in Nat
  BY <1>1, <1>2
<1>5. Len(s) = k /\ \A i \in 1 .. k : s[i] = found[Len(found) + 1 - i]
  BY <1>4
<1> HIDE DEF s
<1> QED BY <1>2, <1>3, <1>5

Thresholds == Stuck!ThresholdAssumption

\* What the detector compares with what the pairs say, for the last n of each.
LEMMA SameIs ==
  ASSUME NEW l, Fine(l), NEW k \in Nat, NEW n \in Nat \ {0}, n <= k
  PROVE  LET acts == Stuck!Newest(l, {"action"}, k)
             obs == Stuck!Newest(l, ResultKinds, k)
             pairs == Stuck!Pairs(l)
         IN  /\ Stuck!LastSame(pairs, n) <=> /\ Len(acts) >= n /\ Len(obs) >= n
                                             /\ Stuck!AllSame(acts, n) /\ Stuck!AllSame(obs, n)
             /\ Stuck!LastFail(pairs, n) <=> /\ Len(acts) >= n /\ Len(obs) >= n
                                             /\ Stuck!AllSame(acts, n)
                                             /\ \A i \in 1 .. n : obs[i].kind = "error"
             /\ Stuck!LastAlternate(pairs, n) <=>
                  /\ Len(acts) >= n /\ Len(obs) >= n
                  /\ \A i \in 1 .. n - 2 : /\ Stuck!Equal(acts[i], acts[i + 2])
                                           /\ Stuck!Equal(obs[i], obs[i + 2])
             /\ Len(acts) >= n => Len(obs) >= n /\ 2 * n <= Len(l)
<1> DEFINE a == Stuck!OfKinds(l, {"action"})
           b == Stuck!OfKinds(l, ResultKinds)
           acts == Stuck!Newest(l, {"action"}, k)
           obs == Stuck!Newest(l, ResultKinds, k)
           pairs == Stuck!Pairs(l)
           m == Len(a)
           q == Len(b)
           c(x) == a[x].content
           t(x) == b[q - m + x].kind
           v(x) == b[q - m + x].content
<1>1. /\ a \in Seq(Marks) /\ b \in Seq(Marks)
      /\ m <= q /\ m + q <= Len(l) /\ Len(pairs) = m
      /\ \A x \in 1 .. m :
           /\ a[x].kind = "action" /\ t(x) \in {"observation", "error"}
           /\ pairs[x] = [does |-> c(x), gets |-> {<<t(x), v(x)>>}]
  BY PairsAre
<1>a. Stuck!OfKinds(l, {"action"}) = a /\ Stuck!OfKinds(l, ResultKinds) = b
  OBVIOUS
<1> HIDE DEF a, b, pairs
<1>2. m \in Nat /\ q \in Nat /\ Len(l) \in Nat
  BY <1>1 DEF Fine
<1>3. /\ Len(acts) = IF k <= m THEN k ELSE m
      /\ \A i \in 1 .. Len(acts) : acts[i] = a[m + 1 - i]
  BY <1>1, <1>a, NewestIs
<1>4. /\ Len(obs) = IF k <= q THEN k ELSE q
      /\ \A i \in 1 .. Len(obs) : obs[i] = b[q + 1 - i]
  BY <1>1, <1>a, NewestIs
<1> HIDE DEF acts, obs, m, q
<1>5. /\ Len(acts) >= n <=> m >= n
      /\ m >= n => Len(obs) >= n /\ 2 * n <= Len(l)
  BY <1>1, <1>2, <1>3, <1>4
<1>6. ASSUME m >= n, NEW i \in 1 .. n
      PROVE  /\ m + 1 - i \in 1 .. m /\ acts[i] = a[m + 1 - i] /\ obs[i] = b[q - m + (m + 1 - i)]
             /\ acts[i].kind = "action" /\ acts[i].content = c(m + 1 - i)
             /\ obs[i].kind = t(m + 1 - i) /\ obs[i].content = v(m + 1 - i)
             /\ obs[i].kind \in {"observation", "error"}
  <2>1. m + 1 - i \in 1 .. m /\ q + 1 - i = q - m + (m + 1 - i)
    BY <1>2, <1>6
  <2>2. i \in 1 .. Len(acts) /\ i \in 1 .. Len(obs)
    BY <1>2, <1>3, <1>4, <1>5, <1>6
  <2>3. acts[i] = a[m + 1 - i] /\ obs[i] = b[q - m + (m + 1 - i)]
    BY <1>3, <1>4, <2>1, <2>2
  <2> QED BY <1>1, <2>1, <2>3
<1>7. ASSUME NEW x \in 1 .. m, NEW y \in 1 .. m
      PROVE  pairs[x] = pairs[y] <=> c(x) = c(y) /\ t(x) = t(y) /\ v(x) = v(y)
  <2>1. /\ pairs[x].does = c(x) /\ pairs[x].gets = {<<t(x), v(x)>>}
        /\ pairs[y].does = c(y) /\ pairs[y].gets = {<<t(y), v(y)>>}
    BY <1>1
  <2>2. ASSUME pairs[x] = pairs[y] PROVE c(x) = c(y) /\ t(x) = t(y) /\ v(x) = v(y)
    <3> DEFINE f == <<t(x), v(x)>>
               g == <<t(y), v(y)>>
    <3>1. {f} = {g} /\ c(x) = c(y)
      BY <2>1, <2>2
    <3>2. f = g
      <4> HIDE DEF f, g
      <4> QED BY <3>1
    <3>3. f[1] = g[1] /\ f[2] = g[2]
      <4> HIDE DEF f, g
      <4> QED BY <3>2
    <3> QED BY <3>1, <3>3
  <2>3. ASSUME c(x) = c(y), t(x) = t(y), v(x) = v(y) PROVE pairs[x] = pairs[y]
    <3>1. /\ pairs[x] = [does |-> c(x), gets |-> {<<t(x), v(x)>>}]
          /\ pairs[y] = [does |-> c(y), gets |-> {<<t(y), v(y)>>}]
      BY <1>1
    <3> HIDE DEF c, t, v
    <3> QED BY <2>3, <3>1
  <2> QED BY <2>2, <2>3
<1>8. ASSUME m >= n, NEW i \in 1 .. n, NEW j \in 1 .. n
      PROVE  /\ Stuck!Equal(acts[i], acts[j]) <=> c(m + 1 - i) = c(m + 1 - j)
             /\ Stuck!Equal(obs[i], obs[j]) <=> /\ t(m + 1 - i) = t(m + 1 - j)
                                                /\ v(m + 1 - i) = v(m + 1 - j)
  <2> HIDE DEF c, t, v
  <2>1. /\ acts[i].kind = "action" /\ acts[i].content = c(m + 1 - i)
        /\ acts[j].kind = "action" /\ acts[j].content = c(m + 1 - j)
    BY <1>6, <1>8
  <2>2. /\ obs[i].kind = t(m + 1 - i) /\ obs[i].content = v(m + 1 - i) /\ obs[i].kind # "rejection"
        /\ obs[j].kind = t(m + 1 - j) /\ obs[j].content = v(m + 1 - j)
    BY <1>6, <1>8
  <2> QED BY <2>1, <2>2 DEF Stuck!Equal
<1>9. ASSUME m >= n, NEW x \in m - n + 1 .. m
      PROVE  m + 1 - x \in 1 .. n /\ m + 1 - (m + 1 - x) = x /\ x \in 1 .. m
  BY <1>2, <1>9
<1>b. m >= n => 1 \in 1 .. n /\ m + 1 - 1 = m /\ m \in 1 .. m /\ \A i \in 1 .. n : m + 1 - i \in m - n + 1 .. m
  BY <1>2
<1>c. \A i \in 1 .. n : m >= n => /\ obs[i].kind = t(m + 1 - i) /\ m + 1 - i \in 1 .. m
  BY <1>6
<1>p. \A x \in 1 .. m : pairs[x].does = c(x) /\ pairs[x].gets = {<<t(x), v(x)>>}
  BY <1>1
<1> HIDE DEF c, t, v
<1>10. Stuck!AllSame(acts, n) <=> \A i \in 1 .. n : Stuck!Equal(acts[1], acts[i])
  BY DEF Stuck!AllSame
<1>11. Stuck!AllSame(obs, n) <=> \A i \in 1 .. n : Stuck!Equal(obs[1], obs[i])
  BY DEF Stuck!AllSame
<1>12. ASSUME m >= n
       PROVE  /\ Stuck!AllSame(acts, n) <=> \A x \in m - n + 1 .. m : c(x) = c(m)
              /\ Stuck!AllSame(obs, n) <=> \A x \in m - n + 1 .. m : t(x) = t(m) /\ v(x) = v(m)
  <2>1. \A i \in 1 .. n : /\ Stuck!Equal(acts[1], acts[i]) <=> c(m) = c(m + 1 - i)
                          /\ Stuck!Equal(obs[1], obs[i]) <=> t(m) = t(m + 1 - i) /\ v(m) = v(m + 1 - i)
    BY <1>8, <1>12, <1>b
  <2>2. \A x \in m - n + 1 .. m : m + 1 - x \in 1 .. n /\ m + 1 - (m + 1 - x) = x
    BY <1>9, <1>12
  <2>3. \A i \in 1 .. n : m + 1 - i \in m - n + 1 .. m
    BY <1>12, <1>b
  <2>4. (\A i \in 1 .. n : c(m) = c(m + 1 - i)) <=> \A x \in m - n + 1 .. m : c(x) = c(m)
    BY <2>2, <2>3
  <2>5. (\A i \in 1 .. n : t(m) = t(m + 1 - i) /\ v(m) = v(m + 1 - i))
          <=> \A x \in m - n + 1 .. m : t(x) = t(m) /\ v(x) = v(m)
    BY <2>2, <2>3
  <2> QED BY <1>10, <1>11, <2>1, <2>4, <2>5
<1>13. Stuck!LastSame(pairs, n) <=> /\ Len(acts) >= n /\ Len(obs) >= n
                                    /\ Stuck!AllSame(acts, n) /\ Stuck!AllSame(obs, n)
  <2>1. Stuck!LastSame(pairs, n) <=> m >= n /\ \A x \in m - n + 1 .. m : pairs[x] = pairs[m]
    BY <1>1 DEF Stuck!LastSame
  <2>2. ASSUME m >= n, NEW x \in m - n + 1 .. m
        PROVE  pairs[x] = pairs[m] <=> c(x) = c(m) /\ t(x) = t(m) /\ v(x) = v(m)
    <3>1. x \in 1 .. m /\ m \in 1 .. m
      BY <1>9, <1>b, <2>2
    <3> QED BY <1>7, <3>1 DEF c, t, v
  <2> QED BY <1>5, <1>12, <2>1, <2>2
<1>14. Stuck!LastFail(pairs, n) <=> /\ Len(acts) >= n /\ Len(obs) >= n
                                    /\ Stuck!AllSame(acts, n)
                                    /\ \A i \in 1 .. n : obs[i].kind = "error"
  <2>1. Stuck!LastFail(pairs, n) <=>
          /\ m >= n
          /\ \A x \in m - n + 1 .. m : /\ pairs[x].does = pairs[m].does
                                       /\ \A r \in pairs[x].gets : r[1] = "error"
    BY <1>1 DEF Stuck!LastFail
  <2>2. ASSUME m >= n, NEW x \in m - n + 1 .. m
        PROVE  /\ pairs[x].does = pairs[m].does <=> c(x) = c(m)
               /\ (\A r \in pairs[x].gets : r[1] = "error") <=> t(x) = "error"
    <3>1. x \in 1 .. m /\ m \in 1 .. m
      BY <1>9, <1>b, <2>2
    <3>2. pairs[x].does = c(x) /\ pairs[m].does = c(m) /\ pairs[x].gets = {<<t(x), v(x)>>}
      BY <1>p, <3>1
    <3> QED BY <3>2
  <2>3. ASSUME m >= n
        PROVE  (\A i \in 1 .. n : obs[i].kind = "error") <=> \A x \in m - n + 1 .. m : t(x) = "error"
    <3>1. \A x \in m - n + 1 .. m : m + 1 - x \in 1 .. n /\ m + 1 - (m + 1 - x) = x
      BY <1>9, <2>3
    <3>2. \A i \in 1 .. n : m + 1 - i \in m - n + 1 .. m /\ obs[i].kind = t(m + 1 - i)
      BY <1>b, <1>c, <2>3
    <3> QED BY <3>1, <3>2
  <2> QED BY <1>5, <1>12, <2>1, <2>2, <2>3
<1>15. Stuck!LastAlternate(pairs, n) <=>
         /\ Len(acts) >= n /\ Len(obs) >= n
         /\ \A i \in 1 .. n - 2 : /\ Stuck!Equal(acts[i], acts[i + 2])
                                  /\ Stuck!Equal(obs[i], obs[i + 2])
  <2>1. Stuck!LastAlternate(pairs, n) <=> m >= n /\ \A x \in m - n + 1 .. m - 2 : pairs[x] = pairs[x + 2]
    BY <1>1 DEF Stuck!LastAlternate
  <2>2. ASSUME m >= n, NEW i \in 1 .. n - 2
        PROVE  (Stuck!Equal(acts[i], acts[i + 2]) /\ Stuck!Equal(obs[i], obs[i + 2]))
                 <=> pairs[m - 1 - i] = pairs[m - 1 - i + 2]
    <3>1. i \in 1 .. n /\ i + 2 \in 1 .. n /\ m + 1 - (i + 2) = m - 1 - i /\ m + 1 - i = m - 1 - i + 2
          /\ m - 1 - i \in 1 .. m /\ m - 1 - i + 2 \in 1 .. m
      BY <1>2, <2>2
    <3>2. pairs[m - 1 - i] = pairs[m - 1 - i + 2]
            <=> /\ c(m - 1 - i) = c(m - 1 - i + 2) /\ t(m - 1 - i) = t(m - 1 - i + 2)
                /\ v(m - 1 - i) = v(m - 1 - i + 2)
      BY <1>7, <3>1 DEF c, t, v
    <3>3. /\ Stuck!Equal(acts[i], acts[i + 2]) <=> c(m - 1 - i + 2) = c(m - 1 - i)
          /\ Stuck!Equal(obs[i], obs[i + 2]) <=> /\ t(m - 1 - i + 2) = t(m - 1 - i)
                                                 /\ v(m - 1 - i + 2) = v(m - 1 - i)
      <4>1. /\ Stuck!Equal(acts[i], acts[i + 2]) <=> c(m + 1 - i) = c(m + 1 - (i + 2))
            /\ Stuck!Equal(obs[i], obs[i + 2]) <=> /\ t(m + 1 - i) = t(m + 1 - (i + 2))
                                                   /\ v(m + 1 - i) = v(m + 1 - (i + 2))
        BY <1>8, <2>2, <3>1
      <4> QED BY <3>1, <4>1
    <3> QED BY <3>2, <3>3
  <2>3. ASSUME m >= n
        PROVE  (\A i \in 1 .. n - 2 : pairs[m - 1 - i] = pairs[m - 1 - i + 2])
                 <=> \A x \in m - n + 1 .. m - 2 : pairs[x] = pairs[x + 2]
    <3>1. \A x \in m - n + 1 .. m - 2 : m - 1 - x \in 1 .. n - 2 /\ m - 1 - (m - 1 - x) = x
      BY <1>2, <2>3
    <3>2. \A i \in 1 .. n - 2 : m - 1 - i \in m - n + 1 .. m - 2
      BY <1>2, <2>3
    <3> QED BY <3>1, <3>2
  <2> QED BY <1>5, <2>1, <2>2, <2>3
<1> QED BY <1>5, <1>13, <1>14, <1>15 DEF acts, obs, pairs

\* The shortest history the detector looks at is not longer than what alternates.
Reachable == Stuck!MinOf({ActionObservation, ActionError, Monologue}) <= 2 * Alternating

\* For calls one at a time the detector says what the pairs say.
LEMMA StuckIs ==
  ASSUME Thresholds, Reachable, NEW e, NEW l, l = Stuck!SinceUser(e), Fine(l),
         \E i \in DOMAIN e : e[i].kind = "user"
  PROVE  Stuck!IsStuck(e) <=> \/ Stuck!LastSame(Stuck!Pairs(l), ActionObservation)
                              \/ Stuck!LastFail(Stuck!Pairs(l), ActionError)
                              \/ Stuck!LastAlternate(Stuck!Pairs(l), Alternating)
                              \/ Stuck!IsMonologue(l)
<1> DEFINE pairs == Stuck!Pairs(l)
           needed == Stuck!MaxOf({ActionObservation, ActionError})
           least == Stuck!MinOf({ActionObservation, ActionError, Monologue})
           acts == Stuck!Newest(l, {"action"}, needed)
           obs == Stuck!Newest(l, ResultKinds, needed)
           acts1 == Stuck!Newest(l, {"action"}, Alternating)
           obs1 == Stuck!Newest(l, ResultKinds, Alternating)
<1>1. /\ ActionObservation \in Nat \ {0} /\ ActionError \in Nat \ {0}
      /\ Monologue \in Nat \ {0} /\ Alternating \in Nat \ {0}
  BY DEF Thresholds, Stuck!ThresholdAssumption
<1>2. needed \in Nat /\ ActionObservation <= needed /\ ActionError <= needed
  <2> DEFINE S == {ActionObservation, ActionError}
             n == ActionObservation + ActionError
  <2>1. n \in Nat /\ S \subseteq 0 .. n /\ S # {} /\ S \subseteq Nat
    BY <1>1
  <2>2. needed = MaxOf(S)
    BY StuckView
  <2>3. MaxOf(S) \in S /\ \A y \in S : y <= MaxOf(S)
    <3> HIDE DEF S, n
    <3> QED BY <2>1, MaxIs
  <2> QED BY <2>1, <2>2, <2>3
<1>3. /\ least \in Nat /\ least <= ActionObservation /\ least <= ActionError /\ least <= Monologue
      /\ least <= 2 * Alternating
  <2> DEFINE S == {ActionObservation, ActionError, Monologue}
  <2>1. S \subseteq Nat /\ S # {}
    BY <1>1
  <2>2. least = MinOf(S)
    BY StuckView
  <2>3. MinOf(S) \in S /\ \A y \in S : MinOf(S) <= y
    <3> HIDE DEF S
    <3> QED BY <2>1, MinIs
  <2>4. least <= 2 * Alternating
    BY DEF Reachable
  <2> QED BY <2>1, <2>2, <2>3, <2>4
<1>4. Len(l) \in Nat
  BY DEF Fine
<1>5. Stuck!Newest(l, {"observation", "error"}, Alternating) = obs1
  <2>1. \A i \in DOMAIN l : l[i].kind # "rejection"
    BY DEF Fine, Stuck!Rejected
  <2>2. \A x \in Stuck!Elements(l) : x.kind \in {"observation", "error"} <=> x.kind \in ResultKinds
    BY <2>1 DEF Stuck!Elements, ResultKinds
  <2>3. {x \in Stuck!Elements(l) : x.kind \in {"observation", "error"}}
          = {x \in Stuck!Elements(l) : x.kind \in ResultKinds}
    BY <2>2
  <2>4. Stuck!OfKinds(l, {"observation", "error"}) = Stuck!OfKinds(l, ResultKinds)
    BY <2>3 DEF Stuck!OfKinds
  <2> QED BY <2>4 DEF Stuck!Newest
<1>6. Stuck!IsAlternating(l) <=>
        /\ Len(l) >= Alternating /\ Len(acts1) = Alternating /\ Len(obs1) = Alternating
        /\ \A i \in 1 .. Alternating - 2 : /\ Stuck!Equal(acts1[i], acts1[i + 2])
                                           /\ Stuck!Equal(obs1[i], obs1[i + 2])
  BY <1>5 DEF Stuck!IsAlternating
<1>7. Stuck!IsStuck(e) <=>
        /\ Len(l) >= least
        /\ \/ Stuck!Repeating(acts, obs) \/ Stuck!RepeatingError(acts, obs)
           \/ Stuck!IsMonologue(l) \/ Stuck!IsAlternating(l)
  <2>1. Stuck!ResultKinds = ResultKinds
    BY DEF Stuck!ResultKinds, ResultKinds
  <2> QED BY <2>1 DEF Stuck!IsStuck
<1> HIDE DEF needed, least
<1>8. /\ Stuck!LastSame(pairs, ActionObservation) <=> Stuck!Repeating(acts, obs)
      /\ Len(acts) >= ActionObservation => 2 * ActionObservation <= Len(l)
  <2>1. /\ Stuck!LastSame(pairs, ActionObservation) <=>
             /\ Len(acts) >= ActionObservation /\ Len(obs) >= ActionObservation
             /\ Stuck!AllSame(acts, ActionObservation) /\ Stuck!AllSame(obs, ActionObservation)
        /\ Len(acts) >= ActionObservation => 2 * ActionObservation <= Len(l)
    BY <1>1, <1>2, SameIs
  <2> HIDE DEF acts, obs, pairs
  <2> QED BY <2>1 DEF Stuck!Repeating
<1>9. /\ Stuck!LastFail(pairs, ActionError) <=> Stuck!RepeatingError(acts, obs)
      /\ Len(acts) >= ActionError => 2 * ActionError <= Len(l)
  <2>1. /\ Stuck!LastFail(pairs, ActionError) <=>
             /\ Len(acts) >= ActionError /\ Len(obs) >= ActionError
             /\ Stuck!AllSame(acts, ActionError)
             /\ \A i \in 1 .. ActionError : obs[i].kind = "error"
        /\ Len(acts) >= ActionError => 2 * ActionError <= Len(l)
    BY <1>1, <1>2, SameIs
  <2> HIDE DEF acts, obs, pairs
  <2> QED BY <2>1 DEF Stuck!RepeatingError
<1>10. /\ Stuck!LastAlternate(pairs, Alternating) <=> Stuck!IsAlternating(l)
       /\ Stuck!LastAlternate(pairs, Alternating) => 2 * Alternating <= Len(l)
  <2>1. /\ Stuck!LastAlternate(pairs, Alternating) <=>
             /\ Len(acts1) >= Alternating /\ Len(obs1) >= Alternating
             /\ \A i \in 1 .. Alternating - 2 : /\ Stuck!Equal(acts1[i], acts1[i + 2])
                                                /\ Stuck!Equal(obs1[i], obs1[i + 2])
        /\ Len(acts1) >= Alternating => 2 * Alternating <= Len(l)
    <3>1. Alternating \in Nat /\ Alternating <= Alternating
      BY <1>1
    <3> QED BY <1>1, <3>1, SameIs
  <2>2. Len(acts1) <= Alternating /\ Len(obs1) <= Alternating /\ Len(acts1) \in Nat /\ Len(obs1) \in Nat
    <3> DEFINE a == Stuck!OfKinds(l, {"action"})
               b == Stuck!OfKinds(l, ResultKinds)
    <3>1. a \in Seq(Marks) /\ b \in Seq(Marks)
      BY PairsAre
    <3>2. /\ Stuck!OfKinds(l, {"action"}) = a /\ Stuck!OfKinds(l, ResultKinds) = b
          /\ Alternating \in Nat
      BY <1>1
    <3> HIDE DEF a, b
    <3>3. /\ Len(acts1) = IF Alternating <= Len(a) THEN Alternating ELSE Len(a)
          /\ Len(obs1) = IF Alternating <= Len(b) THEN Alternating ELSE Len(b)
      BY <3>1, <3>2, NewestIs
    <3>4. Len(a) \in Nat /\ Len(b) \in Nat
      BY <3>1
    <3> HIDE DEF acts1, obs1
    <3> QED BY <3>2, <3>3, <3>4
  <2> HIDE DEF acts1, obs1, pairs
  <2>3. Len(acts1) >= Alternating <=> Len(acts1) = Alternating
    BY <1>1, <2>2
  <2>4. Len(obs1) >= Alternating <=> Len(obs1) = Alternating
    BY <1>1, <2>2
  <2>5. 2 * Alternating <= Len(l) => Len(l) >= Alternating
    BY <1>1, <1>4
  <2> QED BY <1>6, <2>1, <2>3, <2>4, <2>5
<1> HIDE DEF acts, obs, acts1, obs1, pairs
<1>11. Stuck!Repeating(acts, obs) => Len(l) >= least
  <2>1. Stuck!Repeating(acts, obs) => Len(acts) >= ActionObservation
    BY DEF Stuck!Repeating
  <2> QED BY <1>1, <1>3, <1>4, <1>8, <2>1
<1>12. Stuck!RepeatingError(acts, obs) => Len(l) >= least
  <2>1. Stuck!RepeatingError(acts, obs) => Len(acts) >= ActionError
    BY DEF Stuck!RepeatingError
  <2> QED BY <1>1, <1>3, <1>4, <1>9, <2>1
<1>13. Stuck!IsMonologue(l) => Len(l) >= least
  <2>1. Stuck!IsMonologue(l) => Len(l) >= Monologue
    BY DEF Stuck!IsMonologue
  <2> QED BY <1>1, <1>3, <1>4, <2>1
<1>14. Stuck!IsAlternating(l) => Len(l) >= least
  BY <1>1, <1>3, <1>4, <1>10
<1>15. Stuck!IsStuck(e) <=> \/ Stuck!LastSame(pairs, ActionObservation)
                            \/ Stuck!LastFail(pairs, ActionError)
                            \/ Stuck!LastAlternate(pairs, Alternating)
                            \/ Stuck!IsMonologue(l)
  BY <1>7, <1>8, <1>9, <1>10, <1>11, <1>12, <1>13, <1>14
<1> QED BY <1>15 DEF pairs

\* What a sound log has after the last message of the user, if the calls come one at a time.
LEMMA SinceIs ==
  ASSUME NEW e, Sound(e), \E i \in DOMAIN e : e[i].kind = "user",
         NEW l, l = Stuck!SinceUser(e), Stuck!InPairs(l), ~ Stuck!Rejected(l)
  PROVE  Fine(l)
<1> DEFINE N == Len(e)
           U == {0} \cup {i \in DOMAIN e : e[i].kind = "user"}
           u == MaxOf(U)
           n == Len(l)
<1>1. /\ e \in Seq(Marks) /\ N \in Nat /\ DOMAIN e = 1 .. N /\ \A i \in 1 .. N : e[i] \in Marks
  BY DEF Sound
<1>2. u \in 1 .. N /\ e[u].kind = "user"
  <2>1. U \subseteq 0 .. N /\ U # {}
    BY <1>1
  <2>2. MaxOf(U) \in U /\ \A y \in U : y <= MaxOf(U)
    <3> HIDE DEF U
    <3> QED BY <1>1, <2>1, MaxIs
  <2>3. PICK i \in DOMAIN e : e[i].kind = "user"
    OBVIOUS
  <2>4. i \in U /\ i \in 1 .. N
    BY <1>1, <2>3
  <2>5. u # 0
    <3>1. i <= u /\ u \in 0 .. N
      BY <2>1, <2>2, <2>4
    <3> QED BY <1>1, <2>4, <3>1
  <2> QED BY <1>1, <2>2, <2>5
<1>3. l = SubSeq(e, 1 + u, N)
  BY StuckView DEF Stuck!SinceUser
<1> HIDE DEF N, u, n
<1>4. l \in Seq(Marks) /\ n = N - u /\ \A i \in 1 .. n : l[i] = e[u + i]
  <2>1. 1 + u \in Int /\ N \in Int /\ \A i \in 1 + u .. N : e[i] \in Marks
    BY <1>1, <1>2
  <2>2. SubSeq(e, 1 + u, N) \in Seq(Marks)
    BY <2>1, SubSeqProperties
  <2>3. /\ Len(SubSeq(e, 1 + u, N)) = N - u
        /\ \A i \in 1 .. N - u : SubSeq(e, 1 + u, N)[i] = e[u + i]
    BY <1>1, <1>2
  <2> QED BY <1>3, <2>2, <2>3 DEF n
<1>5. n \in Nat /\ DOMAIN l = 1 .. n /\ \A i \in 1 .. n : u + i \in 1 .. N /\ u + i - u = i
  BY <1>1, <1>2, <1>4 DEF n
<1>6. \A i \in 1 .. n : IsAction(l[i]) => /\ i < n /\ i + 1 \in 1 .. n
                                          /\ IsResult(l[i + 1]) /\ l[i + 1].call = l[i].call
  BY <1>5, StuckView DEF Stuck!InPairs, n
<1>7. ASSUME NEW i \in 1 .. n, NEW j \in 1 .. n, IsAction(l[i]), IsResult(l[j]), i < j
      PROVE  IsAction(l[j - 1])
  <2>1. IsAction(e[u + i]) /\ IsResult(e[u + j]) /\ u + i < u + j /\ u + i \in 1 .. N /\ u + j \in 1 .. N
    BY <1>2, <1>4, <1>5, <1>7
  <2>2. e[u + i].batch <= e[u + j].call
    BY <2>1 DEF Sound, OfTheLast, N
  <2>3. e[u + i].batch \in Nat /\ e[u + i].batch > u
    <3>1. e[u + i].batch \in 1 .. u + i /\ \A k \in e[u + i].batch .. u + i : IsAction(e[k])
      BY <2>1 DEF Sound, Contiguous, N
    <3>2. ~ IsAction(e[u])
      BY <1>2 DEF IsAction
    <3> QED BY <1>2, <3>1, <3>2
  <2>4. e[u + j].call \in 1 .. u + j - 1 /\ IsAction(e[e[u + j].call])
    <3> DEFINE g == u + j
    <3>1. g \in 1 .. Len(e) /\ IsResult(e[g])
      BY <2>1 DEF N
    <3>2. g = u + j
      OBVIOUS
    <3> HIDE DEF g
    <3>3. e[g].call \in 1 .. g - 1 /\ IsAction(e[e[g].call])
      BY <3>1 DEF Sound, ResultsAfter
    <3>4. g - 1 = u + j - 1
      BY <1>2, <1>5, <3>2
    <3> QED BY <3>2, <3>3, <3>4
  <2> DEFINE k == e[u + j].call - u
  <2>5. k \in 1 .. n /\ u + k = e[u + j].call /\ k < j
    <3> DEFINE b == e[u + i].batch
               c == e[u + j].call
    <3>1. b \in Nat /\ b > u /\ b <= c
      BY <2>2, <2>3
    <3>2. c \in 1 .. u + j - 1 /\ u \in Nat /\ j \in 1 .. n /\ n \in Nat
      BY <1>2, <1>5, <2>4
    <3> HIDE DEF b, c
    <3>3. c - u \in 1 .. n /\ u + (c - u) = c /\ c - u < j
      BY <3>1, <3>2
    <3> QED BY <3>3 DEF c
  <2>6. l[k] = e[u + k] /\ IsAction(l[k]) /\ l[k].call = e[u + j].call
    <3>1. u + k \in 1 .. N
      BY <1>5, <2>5
    <3>2. e[u + k].call = u + k
      BY <2>4, <2>5, <3>1 DEF Sound, Contiguous, N
    <3> QED BY <1>4, <2>4, <2>5, <3>2
  <2> HIDE DEF k
  <2>7. k + 1 \in 1 .. n /\ IsResult(l[k + 1]) /\ l[k + 1].call = l[k].call
    BY <1>6, <2>5, <2>6
  <2>8. u + (k + 1) = u + j
    <3>1. u + (k + 1) \in 1 .. N /\ l[k + 1] = e[u + (k + 1)]
      BY <1>4, <1>5, <2>7
    <3>2. IsResult(e[u + (k + 1)]) /\ e[u + (k + 1)].call = e[u + j].call
      BY <2>6, <2>7, <3>1
    <3> QED BY <2>1, <3>1, <3>2 DEF Sound, OneResult, N
  <2>9. j - 1 = k
    BY <1>2, <2>5, <2>8
  <2> QED BY <2>6, <2>9
<1>8. Tidy(l)
  BY <1>6, <1>7 DEF Tidy, n
<1>9. ASSUME NEW p \in 1 .. n - 1, IsAction(l[p]), IsResult(l[p + 1])
      PROVE  ResultsOf(l[p], Elements(l)) = {l[p + 1]}
  <2>1. p \in 1 .. n /\ p + 1 \in 1 .. n /\ l[p + 1].call = l[p].call
    BY <1>5, <1>6, <1>9
  <2>2. ASSUME NEW i \in 1 .. n, IsResult(l[i]), l[i].call = l[p].call PROVE l[i] = l[p + 1]
    <3>1. /\ u + i \in 1 .. N /\ l[i] = e[u + i] /\ u + (p + 1) \in 1 .. N /\ l[p + 1] = e[u + (p + 1)]
      BY <1>4, <1>5, <2>1
    <3>2. u + i = u + (p + 1)
      <4>1. IsResult(e[u + i]) /\ IsResult(e[u + (p + 1)]) /\ e[u + i].call = e[u + (p + 1)].call
        BY <1>9, <2>1, <2>2, <3>1
      <4> QED BY <3>1, <4>1 DEF Sound, OneResult, N
    <3> QED BY <3>1, <3>2
  <2>3. l[p + 1] \in Elements(l)
    BY <1>5, <2>1 DEF Elements
  <2>4. \A x \in Elements(l) : IsResult(x) /\ x.call = l[p].call <=> x = l[p + 1]
    BY <1>5, <1>9, <2>1, <2>2 DEF Elements
  <2> QED BY <2>3, <2>4 DEF ResultsOf
<1> QED BY <1>4, <1>8, <1>9 DEF Fine, Answering, n

\* So the invariant gives what is to be shown.
LEMMA SoundIsExact ==
  ASSUME Thresholds, Reachable, Sound(events)
  PROVE  Stuck!Exact
<1> DEFINE l == Stuck!SinceUser(events)
<1> SUFFICES ASSUME \E i \in DOMAIN events : events[i].kind = "user", Stuck!InPairs(l),
                    ~ Stuck!Rejected(l)
             PROVE  Stuck!IsStuck(events) <=> \/ Stuck!LastSame(Stuck!Pairs(l), ActionObservation)
                                              \/ Stuck!LastFail(Stuck!Pairs(l), ActionError)
                                              \/ Stuck!LastAlternate(Stuck!Pairs(l), Alternating)
                                              \/ Stuck!IsMonologue(l)
  BY DEF Stuck!Exact
<1>a. l = Stuck!SinceUser(events)
  OBVIOUS
<1> HIDE DEF l
<1>1. Fine(l)
  BY <1>a, SinceIs
<1> QED BY <1>1, <1>a, StuckIs

\* What is taken from a log keeps its order.
LEMMA TakenInOrder ==
  ASSUME NEW l \in Seq(Marks), ByPlace(l), NEW S
  PROVE  LET s == Only(l, S)
         IN  /\ s \in Seq(Marks) /\ Elements(s) = Elements(l) \cap S
             /\ \A i, j \in 1 .. Len(s) : i < j => s[i].id < s[j].id
<1> DEFINE n == Len(l)
           Rising(s) == \A i, j \in 1 .. Len(s) : i < j => s[i].id < s[j].id
           Below(s, k) == \A i \in 1 .. Len(s) : s[i].id <= k
           G == [k \in 0 .. n |-> {s \in Seq(Marks) : Rising(s) /\ Below(s, k)}]
<1>1. PICK f : Takes(f, l, S) /\ Only(l, S) = f[n]
  BY OnlyRuns
<1>2. Only(l, S) \in Seq(Marks) /\ Elements(Only(l, S)) = Elements(l) \cap S
  BY OnlyIs
<1>3. n \in Nat /\ \A i \in 1 .. n : l[i] \in Marks /\ l[i].id = i
  BY DEF ByPlace
<1>4. f[0] = <<>> /\ \A i \in 1 .. n : f[i] = IF l[i] \in S THEN Append(f[i - 1], l[i]) ELSE f[i - 1]
  BY <1>1 DEF Takes
<1> HIDE DEF n
<1>5. \A k \in 0 .. n : \A s : s \in G[k] <=> s \in Seq(Marks) /\ Rising(s) /\ Below(s, k)
  <2> HIDE DEF Rising, Below
  <2> QED OBVIOUS
<1>6. f[0] \in G[0]
  <2> DEFINE none == <<>>
  <2>1. none \in Seq(Marks) /\ Len(none) = 0 /\ f[0] = none
    BY <1>4
  <2> HIDE DEF none, G
  <2>2. Rising(none) /\ Below(none, 0) /\ 0 \in 0 .. n
    BY <1>3, <2>1
  <2> QED BY <1>5, <2>1, <2>2
<1>7. ASSUME NEW i \in 1 .. n, f[i - 1] \in G[i - 1] PROVE f[i] \in G[i]
  <2> DEFINE s == f[i - 1]
             t == Append(s, l[i])
  <2>1. i - 1 \in 0 .. n /\ i \in 0 .. n /\ l[i] \in Marks /\ l[i].id = i
    BY <1>3
  <2> HIDE DEF G
  <2>2. s \in Seq(Marks) /\ Rising(s) /\ Below(s, i - 1)
    <3> HIDE DEF Rising, Below
    <3> QED BY <1>5, <1>7, <2>1
  <2> HIDE DEF s
  <2>3. /\ t \in Seq(Marks) /\ Len(t) = Len(s) + 1 /\ Len(s) \in Nat /\ t[Len(s) + 1] = l[i]
        /\ \A k \in 1 .. Len(s) : t[k] = s[k] /\ s[k] \in Marks
    BY <2>1, <2>2, AppendProperties
  <2>4. f[i] = t \/ f[i] = s
    BY <1>4 DEF s, t
  <2> HIDE DEF t
  <2>5. \A k \in 1 .. Len(s) : s[k].id \in Nat /\ s[k].id <= i - 1
    BY <2>2, <2>3 DEF Marks
  <2>6. \A k \in 1 .. Len(t) : k \in 1 .. Len(s) \/ k = Len(s) + 1
    BY <2>3
  <2>a. \A k \in 1 .. Len(s) : s[k].id <= i
    BY <2>1, <2>5
  <2>b. ASSUME NEW k \in 1 .. Len(t) PROVE t[k].id <= i
    <3>1. CASE k \in 1 .. Len(s)
      BY <2>3, <2>a, <3>1
    <3>2. CASE k = Len(s) + 1
      BY <2>1, <2>3, <3>2
    <3> QED BY <2>6, <3>1, <3>2
  <2>7. Below(t, i) /\ Below(s, i)
    BY <2>a, <2>b
  <2>8. Rising(t)
    <3> SUFFICES ASSUME NEW p \in 1 .. Len(t), NEW r \in 1 .. Len(t), p < r PROVE t[p].id < t[r].id
      OBVIOUS
    <3>1. p \in 1 .. Len(s)
      BY <2>3
    <3>2. CASE r \in 1 .. Len(s)
      BY <2>2, <2>3, <3>1, <3>2
    <3>3. CASE r = Len(s) + 1
      BY <2>1, <2>3, <2>5, <3>1, <3>3
    <3> QED BY <2>6, <3>2, <3>3
  <2> HIDE DEF Rising, Below
  <2> QED BY <1>5, <2>1, <2>2, <2>3, <2>4, <2>7, <2>8
<1>8. \A i \in 0 .. n : f[i] \in G[i]
  <2> HIDE DEF G
  <2> QED BY <1>3, <1>6, <1>7, Reached
<1>9. Rising(f[n])
  <2>1. n \in 0 .. n
    BY <1>3
  <2> HIDE DEF Rising, Below, G
  <2> QED BY <1>5, <1>8, <2>1
<1> QED BY <1>1, <1>2, <1>9

\* The actions of a log that have no result.
Unanswered(l) == {a \in Actions(Elements(l)) : ~ IsAnswered(l, a.call)}

LEMMA OpenIs ==
  ASSUME NEW l, Sound(l)
  PROVE  /\ \A a \in Unanswered(l) : /\ a.call \in 1 .. Len(l) /\ a.id = a.call /\ l[a.call] = a
                               /\ IsAction(a) /\ ~ IsAnswered(l, a.call)
         /\ \A p \in 1 .. Len(l) : IsAction(l[p]) /\ ~ IsAnswered(l, p) => l[p] \in Unanswered(l)
<1>1. DOMAIN l = 1 .. Len(l)
  BY DEF Sound
<1>2. \A p \in 1 .. Len(l) : IsAction(l[p]) => l[p].call = p /\ l[p].id = p
  BY DEF Sound, Contiguous, ByPlace
<1> QED BY <1>1, <1>2 DEF Unanswered, Actions, Elements

\* _get_unmatched_actions: those, in order.
LEMMA StuckPending ==
  ASSUME Sound(events)
  PROVE  LET acts == Stuck!Pending
         IN  /\ acts \in Seq(Unanswered(events))
             /\ \A i, j \in 1 .. Len(acts) : i < j => acts[i].id < acts[j].id
             /\ acts = <<>> => Unanswered(events) = {}
<1> DEFINE S == {a \in Actions(Elements(events)) : ResultsOf(a, Elements(events)) = {}}
           acts == Only(events, S)
<1>1. /\ events \in Seq(Marks) /\ ByPlace(events) /\ Len(events) \in Nat
      /\ DOMAIN events = 1 .. Len(events)
  BY DEF Sound
<1>2. S = Unanswered(events)
  <2>1. \A a \in Actions(Elements(events)) : ResultsOf(a, Elements(events)) = {} <=> ~ IsAnswered(events, a.call)
    BY <1>1 DEF ResultsOf, IsAnswered, Elements
  <2> QED BY <2>1 DEF Unanswered
<1>3. Stuck!Pending = acts
  BY StuckView DEF Stuck!Pending
<1> HIDE DEF S
<1>4. /\ acts \in Seq(Marks) /\ Elements(acts) = Elements(events) \cap S
      /\ \A i, j \in 1 .. Len(acts) : i < j => acts[i].id < acts[j].id
  BY <1>1, TakenInOrder
<1> HIDE DEF acts
<1>5. S \subseteq Elements(events)
  BY <1>2 DEF Unanswered, Actions
<1>6. Elements(acts) = Unanswered(events)
  BY <1>2, <1>4, <1>5
<1>7. acts \in Seq(Unanswered(events))
  <2>1. \A i \in 1 .. Len(acts) : acts[i] \in Unanswered(events)
    BY <1>4, <1>6 DEF Elements
  <2> DEFINE k == Len(acts)
  <2>2. k \in Nat /\ acts \in [1 .. k -> Unanswered(events)]
    BY <1>4, <2>1
  <2> HIDE DEF k
  <2> QED BY <2>2, FunctionIsList
<1>8. acts = <<>> => Unanswered(events) = {}
  <2>1. ASSUME acts = <<>> PROVE Elements(acts) = {}
    BY <2>1 DEF Elements
  <2> QED BY <1>6, <2>1
<1> QED BY <1>3, <1>4, <1>7, <1>8

\* The events that follow a log.
LEMMA Joined ==
  ASSUME NEW l \in Seq(Marks), NEW s \in Seq(Marks)
  PROVE  LET x == l \o s
         IN  /\ x \in Seq(Marks) /\ Len(x) = Len(l) + Len(s)
             /\ \A i \in 1 .. Len(l) : x[i] = l[i]
             /\ \A k \in 1 .. Len(s) : Len(l) + k \in 1 .. Len(x) /\ x[Len(l) + k] = s[k]
             /\ \A i \in 1 .. Len(x) : i \in 1 .. Len(l) \/ \E k \in 1 .. Len(s) : i = Len(l) + k
<1> DEFINE x == l \o s
           n == Len(l)
           m == Len(s)
<1>1. /\ n \in Nat /\ m \in Nat /\ x \in Seq(Marks) /\ Len(x) = n + m
      /\ \A i \in 1 .. n + m : x[i] = IF i <= n THEN l[i] ELSE s[i - n]
  BY ConcatProperties
<1> HIDE DEF x, n, m
<1>2. \A i \in 1 .. n : i \in 1 .. n + m /\ i <= n
  BY <1>1
<1>3. \A k \in 1 .. m : n + k \in 1 .. n + m /\ ~ (n + k <= n) /\ n + k - n = k
  BY <1>1
<1>4. ASSUME NEW k \in 1 .. m PROVE x[n + k] = s[k]
  <2> DEFINE g == n + k
  <2>1. g \in 1 .. n + m /\ ~ (g <= n) /\ g - n = k
    BY <1>1, <1>3
  <2> HIDE DEF g
  <2>2. x[g] = s[k]
    BY <1>1, <2>1
  <2> QED BY <2>2 DEF g
<1>5. ASSUME NEW i \in 1 .. n + m PROVE i \in 1 .. n \/ \E k \in 1 .. m : i = n + k
  <2>1. CASE i <= n
    BY <1>1, <2>1
  <2>2. CASE ~ (i <= n)
    <3>1. i - n \in 1 .. m /\ i = n + (i - n)
      BY <1>1, <2>2
    <3> QED BY <3>1
  <2> QED BY <2>1, <2>2
<1>6. \A i \in 1 .. n : x[i] = l[i]
  BY <1>1, <1>2
<1> QED BY <1>1, <1>3, <1>4, <1>5, <1>6 DEF x, n, m

\* An event as it is written.
LEMMA MarkIs ==
  ASSUME NEW l \in Seq(Marks), NEW kind \in Kinds, NEW c \in Nat, NEW content \in {0} \cup Contents
  PROVE  /\ Stuck!Event(l, kind, c, content) \in Marks
         /\ Stuck!Event(l, kind, c, content).id = Len(l) + 1
         /\ Stuck!Event(l, kind, c, content).kind = kind
         /\ Stuck!Event(l, kind, c, content).call = c
<1> DEFINE e == Stuck!Event(l, kind, c, content)
           blank == Stuck!Blank
           n == Len(l) + 1
<1>1. blank \in Marks
  BY DEF Marks, Kinds, Stuck!Blank
<1>2. n \in Nat
  OBVIOUS
<1>3. e = [blank EXCEPT !.id = n, !.kind = kind, !.call = c, !.content = content]
  BY DEF Stuck!Event
<1> HIDE DEF e, blank, n
<1>4. e \in Marks /\ e.id = n /\ e.kind = kind /\ e.call = c
  BY <1>1, <1>2, <1>3 DEF Marks
<1> QED BY <1>4 DEF e, n

\* With another id.
LEMMA MarkAt ==
  ASSUME NEW e \in Marks, NEW i \in Nat
  PROVE  /\ [e EXCEPT !.id = i] \in Marks
         /\ [e EXCEPT !.id = i].id = i
         /\ [e EXCEPT !.id = i].kind = e.kind
         /\ [e EXCEPT !.id = i].call = e.call
BY DEF Marks

\* Events that are neither calls nor results may follow.
LEMMA PlainKeeps ==
  ASSUME NEW l, Sound(l), NEW e \in Marks, e.id = Len(l) + 1, ~ IsAction(e), ~ IsResult(e)
  PROVE  Sound(Append(l, e))
<1> DEFINE x == Append(l, e)
           n == Len(l)
<1>1. /\ n \in Nat /\ x \in Seq(Marks) /\ Len(x) = n + 1 /\ x[n + 1] = e
      /\ \A i \in 1 .. n : x[i] = l[i]
  BY AppendProperties DEF Sound
<1>2. /\ \A i \in 1 .. n : l[i].id = i
      /\ \A i \in 1 .. n : IsAction(l[i]) => /\ l[i].call = i /\ l[i].batch \in 1 .. i
                                             /\ \A k \in l[i].batch .. i : IsAction(l[k])
      /\ \A j \in 1 .. n : IsResult(l[j]) => l[j].call \in 1 .. j - 1 /\ IsAction(l[l[j].call])
      /\ \A i, j \in 1 .. n : IsResult(l[i]) /\ IsResult(l[j]) /\ l[i].call = l[j].call => i = j
      /\ \A i, j \in 1 .. n : IsAction(l[i]) /\ IsResult(l[j]) /\ i < j => l[i].batch <= l[j].call
      /\ \A i, k \in 1 .. n : IsAction(l[i]) /\ IsAction(l[k]) => l[i].batch <= k \/ IsAnswered(l, k)
  BY DEF Sound, ByPlace, Contiguous, ResultsAfter, OneResult, OfTheLast, LastOpen
<1>3. e.id = n + 1
  OBVIOUS
<1> HIDE DEF x, n
<1>4. \A i \in 1 .. n + 1 : i \in 1 .. n \/ i = n + 1
  BY <1>1
<1>5. \A i \in 1 .. n + 1 : IsAction(x[i]) \/ IsResult(x[i]) => i \in 1 .. n /\ x[i] = l[i]
  BY <1>1, <1>4
<1>6. ByPlace(x)
  BY <1>1, <1>2, <1>3, <1>4 DEF ByPlace
<1>7. Contiguous(x)
  <2> SUFFICES ASSUME NEW i \in 1 .. n, IsAction(l[i])
               PROVE  l[i].call = i /\ l[i].batch \in 1 .. i /\ \A k \in l[i].batch .. i : IsAction(x[k])
    BY <1>1, <1>5 DEF Contiguous
  <2>1. \A k \in l[i].batch .. i : k \in 1 .. n
    BY <1>1, <1>2
  <2> QED BY <1>1, <1>2, <2>1
<1>8. ResultsAfter(x)
  <2> SUFFICES ASSUME NEW j \in 1 .. n, IsResult(l[j])
               PROVE  l[j].call \in 1 .. j - 1 /\ IsAction(x[l[j].call])
    BY <1>1, <1>5 DEF ResultsAfter
  <2>1. l[j].call \in 1 .. j - 1 /\ l[j].call \in 1 .. n /\ IsAction(l[l[j].call])
    BY <1>1, <1>2
  <2> QED BY <1>1, <2>1
<1>9. OneResult(x) /\ OfTheLast(x)
  BY <1>1, <1>2, <1>5 DEF OneResult, OfTheLast
<1>10. LastOpen(x)
  <2>1. \A k : IsAnswered(l, k) => IsAnswered(x, k)
    <3>1. \A i \in 1 .. n : i \in 1 .. n + 1
      BY <1>1
    <3> QED BY <1>1, <3>1 DEF IsAnswered, n
  <2> QED BY <1>1, <1>2, <1>5, <2>1 DEF LastOpen
<1> QED BY <1>1, <1>6, <1>7, <1>8, <1>9, <1>10 DEF Sound, x

\* The results of open calls may follow.
LEMMA AnswersKeep ==
  ASSUME NEW l, Sound(l), NEW acts \in Seq(Unanswered(l)),
         \A i, j \in 1 .. Len(acts) : i < j => acts[i].id < acts[j].id,
         NEW kind \in ResultKinds, NEW content \in {0} \cup Contents
  PROVE  Sound(l \o Stuck!Answers(acts, l, kind, content))
<1> DEFINE n == Len(l)
           m == Len(acts)
           s == Stuck!Answers(acts, l, kind, content)
           x == l \o s
<1>1. n \in Nat /\ m \in Nat /\ DOMAIN acts = 1 .. m /\ l \in Seq(Marks)
  BY DEF Sound
<1>2. \A i \in 1 .. m : /\ acts[i].call \in 1 .. n /\ acts[i].id = acts[i].call
                        /\ IsAction(l[acts[i].call]) /\ ~ IsAnswered(l, acts[i].call)
  <2>1. \A i \in 1 .. m : acts[i] \in Unanswered(l)
    OBVIOUS
  <2> QED BY <2>1, OpenIs
<1>3. \A i, j \in 1 .. m : acts[i].call = acts[j].call => i = j
  <2> TAKE i, j \in 1 .. m
  <2>1. i < j => acts[i].call < acts[j].call
    BY <1>2
  <2>2. j < i => acts[j].call < acts[i].call
    BY <1>2
  <2>3. acts[i].call \in Nat /\ acts[j].call \in Nat
    BY <1>2
  <2>4. i < j \/ j < i \/ i = j
    OBVIOUS
  <2> QED BY <2>1, <2>2, <2>3, <2>4
<1>4. /\ s \in Seq(Marks) /\ Len(s) = m
      /\ \A i \in 1 .. m : /\ s[i].id = n + i /\ s[i].kind = kind /\ s[i].call = acts[i].call
                           /\ IsResult(s[i]) /\ ~ IsAction(s[i])
  <2> DEFINE r(i) == [Stuck!Event(l, kind, acts[i].call, content) EXCEPT !.id = Len(l) + i]
             t == [i \in 1 .. m |-> r(i)]
  <2>1. s = t
    <3> HIDE DEF r, m
    <3>1. s = [i \in DOMAIN acts |-> r(i)]
      BY DEF Stuck!Answers, r
    <3> HIDE DEF s
    <3> QED BY <1>1, <3>1
  <2>2. ASSUME NEW i \in 1 .. m
        PROVE  r(i) \in Marks /\ r(i).id = n + i /\ r(i).kind = kind /\ r(i).call = acts[i].call
    <3> DEFINE c == acts[i].call
               g == Len(l) + i
               e == Stuck!Event(l, kind, c, content)
               d == [e EXCEPT !.id = g]
    <3>1. g \in Nat /\ c \in Nat /\ kind \in Kinds /\ l \in Seq(Marks)
      BY <1>1, <1>2 DEF Kinds, ResultKinds
    <3> HIDE DEF c, g
    <3>2. e \in Marks /\ e.kind = kind /\ e.call = c
      BY <3>1, MarkIs
    <3> HIDE DEF e
    <3>3. d \in Marks /\ d.id = g /\ d.kind = kind /\ d.call = c
      BY <3>1, <3>2, MarkAt
    <3>4. r(i) = d
      BY DEF d, e, c, g
    <3> HIDE DEF d, r
    <3> QED BY <3>3, <3>4 DEF c, g
  <2> HIDE DEF r
  <2>3. t \in [1 .. m -> Marks] /\ \A i \in 1 .. m : t[i] = r(i)
    BY <2>2
  <2> HIDE DEF t, s, m, n
  <2>7. t \in Seq(Marks) /\ Len(t) = m
    BY <1>1, <2>3, FunctionIsList
  <2>8. kind # "action"
    BY DEF ResultKinds
  <2> QED BY <2>1, <2>2, <2>3, <2>7, <2>8 DEF IsResult, IsAction
<1> HIDE DEF s, m
<1>5. /\ x \in Seq(Marks) /\ Len(x) = n + m
      /\ \A i \in 1 .. n : x[i] = l[i]
      /\ \A k \in 1 .. m : n + k \in 1 .. n + m /\ x[n + k] = s[k]
      /\ \A i \in 1 .. n + m : i \in 1 .. n \/ \E k \in 1 .. m : i = n + k
  <2>1. /\ x \in Seq(Marks) /\ Len(x) = Len(l) + Len(s)
        /\ \A i \in 1 .. Len(l) : x[i] = l[i]
        /\ \A k \in 1 .. Len(s) : Len(l) + k \in 1 .. Len(x) /\ x[Len(l) + k] = s[k]
        /\ \A i \in 1 .. Len(x) : i \in 1 .. Len(l) \/ \E k \in 1 .. Len(s) : i = Len(l) + k
    BY <1>1, <1>4, Joined
  <2> HIDE DEF x
  <2> QED BY <1>4, <2>1
<1>6. /\ \A i \in 1 .. n : l[i].id = i
      /\ \A i \in 1 .. n : IsAction(l[i]) => /\ l[i].call = i /\ l[i].batch \in 1 .. i
                                             /\ \A k \in l[i].batch .. i : IsAction(l[k])
      /\ \A j \in 1 .. n : IsResult(l[j]) => l[j].call \in 1 .. j - 1 /\ IsAction(l[l[j].call])
      /\ \A i, j \in 1 .. n : IsResult(l[i]) /\ IsResult(l[j]) /\ l[i].call = l[j].call => i = j
      /\ \A i, j \in 1 .. n : IsAction(l[i]) /\ IsResult(l[j]) /\ i < j => l[i].batch <= l[j].call
      /\ \A i, k \in 1 .. n : IsAction(l[i]) /\ IsAction(l[k]) => l[i].batch <= k \/ IsAnswered(l, k)
  BY DEF Sound, ByPlace, Contiguous, ResultsAfter, OneResult, OfTheLast, LastOpen
<1>7. \A k : IsAnswered(l, k) <=> \E j \in 1 .. n : IsResult(l[j]) /\ l[j].call = k
  BY DEF IsAnswered
<1> HIDE DEF x, n
<1>8. \A i \in 1 .. n + m : IsAction(x[i]) => i \in 1 .. n /\ x[i] = l[i]
  <2> SUFFICES ASSUME NEW i \in 1 .. n + m, IsAction(x[i]) PROVE i \in 1 .. n /\ x[i] = l[i]
    OBVIOUS
  <2>1. \A k \in 1 .. m : ~ IsAction(x[n + k])
    BY <1>4, <1>5
  <2> QED BY <1>5, <2>1
<1>9. ASSUME NEW j \in 1 .. n + m, IsResult(x[j])
      PROVE  \/ j \in 1 .. n /\ x[j] = l[j]
             \/ \E k \in 1 .. m : j = n + k /\ x[j].call = acts[k].call
  <2>1. \A k \in 1 .. m : x[n + k].call = acts[k].call
    BY <1>4, <1>5
  <2> QED BY <1>5, <2>1
<1>10. ByPlace(x)
  <2> SUFFICES ASSUME NEW i \in 1 .. n + m PROVE x[i].id = i
    BY <1>5 DEF ByPlace
  <2>1. \A k \in 1 .. m : x[n + k].id = n + k
    BY <1>4, <1>5
  <2>2. \A k \in 1 .. n : x[k].id = k
    BY <1>5, <1>6
  <2> QED BY <1>5, <2>1, <2>2
<1>11. Contiguous(x)
  <2> SUFFICES ASSUME NEW i \in 1 .. n, IsAction(l[i])
               PROVE  l[i].call = i /\ l[i].batch \in 1 .. i /\ \A k \in l[i].batch .. i : IsAction(x[k])
    BY <1>5, <1>8 DEF Contiguous
  <2>1. \A k \in l[i].batch .. i : k \in 1 .. n
    BY <1>1, <1>6
  <2> QED BY <1>5, <1>6, <2>1
<1>12. ResultsAfter(x)
  <2> SUFFICES ASSUME NEW j \in 1 .. n + m, IsResult(x[j])
               PROVE  x[j].call \in 1 .. j - 1 /\ IsAction(x[x[j].call])
    BY <1>5 DEF ResultsAfter
  <2>1. CASE j \in 1 .. n /\ x[j] = l[j]
    <3>1. l[j].call \in 1 .. j - 1 /\ l[j].call \in 1 .. n /\ IsAction(l[l[j].call])
      BY <1>1, <1>6, <2>1
    <3> QED BY <1>5, <2>1, <3>1
  <2>2. ASSUME NEW k \in 1 .. m, j = n + k, x[j].call = acts[k].call
        PROVE  x[j].call \in 1 .. j - 1 /\ IsAction(x[x[j].call])
    <3>1. acts[k].call \in 1 .. n /\ acts[k].call \in 1 .. j - 1 /\ IsAction(l[acts[k].call])
      BY <1>1, <1>2, <2>2
    <3> QED BY <1>5, <2>2, <3>1
  <2> QED BY <1>9, <2>1, <2>2
<1>13. OneResult(x)
  <2> SUFFICES ASSUME NEW i \in 1 .. n + m, NEW j \in 1 .. n + m, IsResult(x[i]), IsResult(x[j]),
                      x[i].call = x[j].call
               PROVE  i = j
    BY <1>5 DEF OneResult
  <2>1. ASSUME NEW p \in 1 .. n, IsResult(l[p]), NEW k \in 1 .. m PROVE l[p].call # acts[k].call
    BY <1>2, <1>7, <2>1
  <2>2. CASE i \in 1 .. n /\ x[i] = l[i] /\ j \in 1 .. n /\ x[j] = l[j]
    BY <1>6, <2>2
  <2>3. ASSUME NEW k \in 1 .. m, i = n + k, x[i].call = acts[k].call,
               NEW h \in 1 .. m, j = n + h, x[j].call = acts[h].call
        PROVE  i = j
    <3>1. k = h
      BY <1>3, <2>3
    <3> QED BY <2>3, <3>1
  <2> QED BY <1>9, <2>1, <2>2, <2>3
<1>14. OfTheLast(x)
  <2> SUFFICES ASSUME NEW i \in 1 .. n + m, NEW j \in 1 .. n + m, IsAction(x[i]), IsResult(x[j]), i < j
               PROVE  x[i].batch <= x[j].call
    BY <1>5 DEF OfTheLast
  <2>1. i \in 1 .. n /\ x[i] = l[i]
    BY <1>8
  <2>2. CASE j \in 1 .. n /\ x[j] = l[j]
    BY <1>6, <2>1, <2>2
  <2>3. ASSUME NEW k \in 1 .. m, j = n + k, x[j].call = acts[k].call PROVE x[i].batch <= x[j].call
    <3>1. acts[k].call \in 1 .. n /\ IsAction(l[acts[k].call]) /\ ~ IsAnswered(l, acts[k].call)
      BY <1>2
    <3> QED BY <1>6, <2>1, <2>3, <3>1
  <2> QED BY <1>9, <2>2, <2>3
<1>15. LastOpen(x)
  <2>1. ASSUME NEW k, IsAnswered(l, k) PROVE IsAnswered(x, k)
    <3>1. PICK i \in 1 .. n : IsResult(l[i]) /\ l[i].call = k
      BY <1>7, <2>1
    <3>2. i \in 1 .. Len(x) /\ x[i] = l[i]
      BY <1>1, <1>5
    <3> QED BY <3>1, <3>2 DEF IsAnswered
  <2> QED BY <1>5, <1>6, <1>8, <2>1 DEF LastOpen
<1>16. Sound(x)
  BY <1>5, <1>10, <1>11, <1>12, <1>13, <1>14, <1>15 DEF Sound
<1> QED BY <1>16 DEF x, s

\* A batch of calls may follow when none is open.
LEMMA CallsKeep ==
  ASSUME Sound(events), Unanswered(events) = {}, NEW n \in Nat, NEW content \in Contents
  PROVE  LET s == Stuck!Calls(n, content)
             x == events \o s
         IN  /\ Sound(x) /\ s \in Seq(Unanswered(x))
             /\ \A i, j \in 1 .. Len(s) : i < j => s[i].id < s[j].id
<1> DEFINE l == events
           N == Len(l)
           s == Stuck!Calls(n, content)
           x == l \o s
<1>1. N \in Nat /\ l \in Seq(Marks)
  BY DEF Sound
<1>2. /\ s \in Seq(Marks) /\ Len(s) = n
      /\ \A i \in 1 .. n : /\ s[i].id = N + i /\ s[i].kind = "action" /\ s[i].call = N + i
                           /\ s[i].batch = N + 1 /\ IsAction(s[i]) /\ ~ IsResult(s[i])
  <2> DEFINE r(i) == [Stuck!Event(l, "action", Len(l) + i, content) EXCEPT !.id = Len(l) + i,
                                                                           !.batch = Len(l) + 1]
             t == [i \in 1 .. n |-> r(i)]
  <2>1. s = t
    BY DEF Stuck!Calls
  <2>2. ASSUME NEW i \in 1 .. n
        PROVE  /\ r(i) \in Marks /\ r(i).id = N + i /\ r(i).kind = "action" /\ r(i).call = N + i
               /\ r(i).batch = N + 1
    <3> DEFINE g == Len(l) + i
               b == Len(l) + 1
               e == Stuck!Event(l, "action", g, content)
               d == [e EXCEPT !.id = g, !.batch = b]
    <3>1. /\ g \in Nat /\ b \in Nat /\ "action" \in Kinds /\ content \in {0} \cup Contents
          /\ l \in Seq(Marks)
      BY <1>1 DEF Kinds
    <3> HIDE DEF g, b
    <3>2. e \in Marks /\ e.kind = "action" /\ e.call = g
      BY <3>1, MarkIs
    <3> HIDE DEF e
    <3>3. d \in Marks /\ d.id = g /\ d.kind = "action" /\ d.call = g /\ d.batch = b
      BY <3>1, <3>2 DEF Marks
    <3>4. r(i) = d
      BY DEF d, e, g, b
    <3> HIDE DEF d
    <3> HIDE DEF r
    <3> QED BY <3>3, <3>4 DEF g, b
  <2> HIDE DEF r
  <2>3. t \in [1 .. n -> Marks] /\ \A i \in 1 .. n : t[i] = r(i)
    BY <2>2
  <2> HIDE DEF t, s, N
  <2>4. t \in Seq(Marks) /\ Len(t) = n
    BY <2>3, FunctionIsList
  <2> QED BY <2>1, <2>2, <2>3, <2>4 DEF IsResult, IsAction, ResultKinds
<1> HIDE DEF s
<1>3. /\ x \in Seq(Marks) /\ Len(x) = N + n
      /\ \A i \in 1 .. N : x[i] = l[i]
      /\ \A k \in 1 .. n : N + k \in 1 .. N + n /\ x[N + k] = s[k]
      /\ \A i \in 1 .. N + n : i \in 1 .. N \/ \E k \in 1 .. n : i = N + k
  <2>1. /\ x \in Seq(Marks) /\ Len(x) = Len(l) + Len(s)
        /\ \A i \in 1 .. Len(l) : x[i] = l[i]
        /\ \A k \in 1 .. Len(s) : Len(l) + k \in 1 .. Len(x) /\ x[Len(l) + k] = s[k]
        /\ \A i \in 1 .. Len(x) : i \in 1 .. Len(l) \/ \E k \in 1 .. Len(s) : i = Len(l) + k
    BY <1>1, <1>2, Joined
  <2> HIDE DEF x
  <2> QED BY <1>2, <2>1
<1>4. /\ \A i \in 1 .. N : l[i].id = i
      /\ \A i \in 1 .. N : IsAction(l[i]) => /\ l[i].call = i /\ l[i].batch \in 1 .. i
                                             /\ \A k \in l[i].batch .. i : IsAction(l[k])
      /\ \A j \in 1 .. N : IsResult(l[j]) => l[j].call \in 1 .. j - 1 /\ IsAction(l[l[j].call])
      /\ \A i, j \in 1 .. N : IsResult(l[i]) /\ IsResult(l[j]) /\ l[i].call = l[j].call => i = j
      /\ \A i, j \in 1 .. N : IsAction(l[i]) /\ IsResult(l[j]) /\ i < j => l[i].batch <= l[j].call
  BY DEF Sound, ByPlace, Contiguous, ResultsAfter, OneResult, OfTheLast
<1>5. \A i \in 1 .. N : IsAction(l[i]) => IsAnswered(l, i)
  BY OpenIs
<1>6. \A k : IsAnswered(l, k) <=> \E j \in 1 .. N : IsResult(l[j]) /\ l[j].call = k
  BY DEF IsAnswered
<1> HIDE DEF x, N, l
<1>7. \A i \in 1 .. N + n : IsResult(x[i]) => i \in 1 .. N /\ x[i] = l[i]
  BY <1>2, <1>3
<1>8. ASSUME NEW j \in 1 .. N + n, IsAction(x[j])
      PROVE  \/ j \in 1 .. N /\ x[j] = l[j]
             \/ \E k \in 1 .. n : j = N + k /\ x[j].call = N + k /\ x[j].batch = N + 1
  BY <1>2, <1>3
<1>9. ByPlace(x)
  BY <1>2, <1>3, <1>4 DEF ByPlace
<1>10. Contiguous(x)
  <2> SUFFICES ASSUME NEW i \in 1 .. N + n, IsAction(x[i])
               PROVE  /\ x[i].call = i /\ x[i].batch \in 1 .. i
                      /\ \A k \in x[i].batch .. i : IsAction(x[k])
    BY <1>3 DEF Contiguous
  <2>1. CASE i \in 1 .. N /\ x[i] = l[i]
    <3>1. \A k \in l[i].batch .. i : k \in 1 .. N
      BY <1>1, <1>4, <2>1
    <3> QED BY <1>3, <1>4, <2>1, <3>1
  <2>2. ASSUME NEW k \in 1 .. n, i = N + k, x[i].call = N + k, x[i].batch = N + 1
        PROVE  /\ x[i].call = i /\ x[i].batch \in 1 .. i
               /\ \A h \in x[i].batch .. i : IsAction(x[h])
    <3>1. ASSUME NEW h \in N + 1 .. i PROVE IsAction(x[h])
      <4>1. h - N \in 1 .. n /\ h = N + (h - N)
        BY <1>1, <2>2
      <4>2. x[N + (h - N)] = s[h - N] /\ IsAction(s[h - N])
        BY <1>2, <1>3, <4>1
      <4> QED BY <4>1, <4>2
    <3>2. N + 1 \in 1 .. i
      BY <1>1, <2>2
    <3> QED BY <2>2, <3>1, <3>2
  <2> QED BY <1>8, <2>1, <2>2
<1>11. ResultsAfter(x)
  <2> SUFFICES ASSUME NEW j \in 1 .. N, IsResult(l[j])
               PROVE  l[j].call \in 1 .. j - 1 /\ IsAction(x[l[j].call])
    BY <1>3, <1>7 DEF ResultsAfter
  <2>1. l[j].call \in 1 .. j - 1 /\ l[j].call \in 1 .. N /\ IsAction(l[l[j].call])
    BY <1>1, <1>4
  <2> QED BY <1>3, <2>1
<1>12. OneResult(x)
  BY <1>3, <1>4, <1>7 DEF OneResult
<1>13. OfTheLast(x)
  <2> SUFFICES ASSUME NEW i \in 1 .. N + n, NEW j \in 1 .. N + n, IsAction(x[i]), IsResult(x[j]), i < j
               PROVE  x[i].batch <= x[j].call
    BY <1>3 DEF OfTheLast
  <2>1. j \in 1 .. N /\ x[j] = l[j]
    BY <1>7
  <2>2. i \in 1 .. N /\ x[i] = l[i]
    <3>1. i \in 1 .. N
      BY <1>1, <2>1
    <3> QED BY <1>3, <3>1
  <2> QED BY <1>4, <2>1, <2>2
<1>14. ASSUME NEW k, IsAnswered(l, k) PROVE IsAnswered(x, k)
  <2>1. PICK i \in 1 .. N : IsResult(l[i]) /\ l[i].call = k
    BY <1>6, <1>14
  <2>2. i \in 1 .. Len(x) /\ x[i] = l[i]
    BY <1>1, <1>3
  <2> QED BY <2>1, <2>2 DEF IsAnswered
<1>15. LastOpen(x)
  <2> SUFFICES ASSUME NEW i \in 1 .. N + n, NEW k \in 1 .. N + n, IsAction(x[i]), IsAction(x[k])
               PROVE  x[i].batch <= k \/ IsAnswered(x, k)
    BY <1>3 DEF LastOpen
  <2>1. CASE k \in 1 .. N /\ x[k] = l[k]
    BY <1>5, <1>14, <2>1
  <2>2. ASSUME NEW h \in 1 .. n, k = N + h PROVE x[i].batch <= k
    <3>1. CASE i \in 1 .. N /\ x[i] = l[i]
      <4>1. l[i].batch \in 1 .. i
        BY <1>4, <3>1
      <4> QED BY <1>1, <2>2, <3>1, <4>1
    <3>2. CASE x[i].batch = N + 1
      BY <1>1, <2>2, <3>2
    <3> QED BY <1>8, <3>1, <3>2
  <2> QED BY <1>8, <2>1, <2>2
<1>16. Sound(x)
  BY <1>3, <1>9, <1>10, <1>11, <1>12, <1>13, <1>15 DEF Sound
<1>17. s \in Seq(Unanswered(x))
  <2>1. ASSUME NEW i \in 1 .. n PROVE s[i] \in Unanswered(x)
    <3>1. N + i \in 1 .. Len(x) /\ x[N + i] = s[i] /\ IsAction(x[N + i])
      BY <1>2, <1>3
    <3>2. ~ IsAnswered(x, N + i)
      <4> SUFFICES ASSUME NEW j \in 1 .. Len(x), IsResult(x[j]), x[j].call = N + i PROVE FALSE
        BY DEF IsAnswered
      <4>1. j \in 1 .. N /\ x[j] = l[j]
        BY <1>3, <1>7
      <4>2. l[j].call \in 1 .. j - 1
        BY <1>4, <4>1
      <4> QED BY <1>1, <4>1, <4>2
    <3> QED BY <1>16, <3>1, <3>2, OpenIs
  <2>2. s \in [1 .. n -> Unanswered(x)]
    <3>1. DOMAIN s = 1 .. n /\ s = [i \in 1 .. n |-> s[i]]
      BY <1>2
    <3> QED BY <2>1, <3>1
  <2> QED BY <2>2, FunctionIsList
<1>18. \A i, j \in 1 .. Len(s) : i < j => s[i].id < s[j].id
  BY <1>1, <1>2
<1> QED BY <1>16, <1>17, <1>18 DEF x, s, l

\* The invariant holds at the start.
LEMMA StuckInit == ASSUME Stuck!Init PROVE Sound(events)
<1> DEFINE none == <<>>
<1>1. none \in Seq(Marks) /\ Len(none) = 0 /\ events = none
  BY DEF Stuck!Init
<1> HIDE DEF none
<1>2. Sound(none)
  BY <1>1 DEF Sound, ByPlace, Contiguous, ResultsAfter, OneResult, OfTheLast, LastOpen
<1> QED BY <1>1, <1>2

\* Every step keeps it.
LEMMA StuckStep ==
  ASSUME Thresholds, Sound(events), [Stuck!Next]_(Stuck!vars)
  PROVE  Sound(events)'
<1>1. events \in Seq(Marks) /\ Len(events) \in Nat
  BY DEF Sound
<1>2. ASSUME NEW kind \in {"user", "agent", "condensation"},
             events' = Append(events, Stuck!Event(events, kind, 0, 0))
      PROVE  Sound(events')
  <2> DEFINE e == Stuck!Event(events, kind, 0, 0)
  <2>1. kind \in Kinds /\ kind # "action" /\ kind \notin ResultKinds /\ 0 \in Nat /\ 0 \in {0} \cup Contents
    BY DEF Kinds, ResultKinds
  <2>2. e \in Marks /\ e.id = Len(events) + 1 /\ e.kind = kind
    <3>1. events \in Seq(Marks)
      BY <1>1
    <3> QED BY <2>1, <3>1, MarkIs
  <2> HIDE DEF e
  <2>3. ~ IsAction(e) /\ ~ IsResult(e)
    BY <2>1, <2>2 DEF IsAction, IsResult
  <2>4. Sound(Append(events, e))
    BY <2>2, <2>3, PlainKeeps
  <2> QED BY <1>2, <2>4 DEF e
<1>3. ASSUME NEW kind \in ResultKinds, NEW content \in {0} \cup Contents,
             events' = events \o Stuck!Answers(Stuck!Pending, events, kind, content)
      PROVE  Sound(events')
  <2> DEFINE acts == Stuck!Pending
  <2>1. acts \in Seq(Unanswered(events)) /\ \A i, j \in 1 .. Len(acts) : i < j => acts[i].id < acts[j].id
    BY StuckPending
  <2> HIDE DEF acts
  <2>2. Sound(events \o Stuck!Answers(acts, events, kind, content))
    BY <2>1, AnswersKeep
  <2> QED BY <1>3, <2>2 DEF acts
<1>4. ASSUME UNCHANGED events PROVE Sound(events')
  BY <1>4
<1>5. CASE Stuck!SendMessage
  <2>1. events' = Append(events, Stuck!Event(events, "user", 0, 0))
    BY <1>5 DEF Stuck!SendMessage, Stuck!Write
  <2> QED BY <1>2, <2>1
<1>6. CASE Stuck!Run
  BY <1>4, <1>6 DEF Stuck!Run
<1>7. CASE Stuck!Reject
  <2>1. events' = events \o Stuck!Answers(Stuck!Pending, events, "rejection", 0)
    BY <1>7 DEF Stuck!Reject, Stuck!Write
  <2>2. "rejection" \in ResultKinds
    BY DEF ResultKinds
  <2> QED BY <1>3, <2>1, <2>2
<1>8. CASE Stuck!Stop
  BY <1>4, <1>8 DEF Stuck!Stop
<1>9. CASE Stuck!Execute
  <2>1. PICK kind \in {"observation", "error"}, content \in Contents :
          events' = events \o Stuck!Answers(Stuck!Pending, events, kind, content)
    BY <1>9 DEF Stuck!Execute, Stuck!Write
  <2>2. kind \in ResultKinds
    BY DEF ResultKinds
  <2> QED BY <1>3, <2>1, <2>2
<1>10. CASE Stuck!CallTools
  <2>1. Unanswered(events) = {}
    BY <1>10, StuckPending DEF Stuck!CallTools
  <2>2. PICK n \in 1 .. Parallel, act \in Contents :
          \/ \E kind \in {"observation", "error"}, content \in Contents :
               events' = events \o Stuck!Calls(n, act)
                           \o Stuck!Answers(Stuck!Calls(n, act), events \o Stuck!Calls(n, act), kind, content)
          \/ events' = events \o Stuck!Calls(n, act)
    BY <1>10 DEF Stuck!CallTools, Stuck!Write
  <2> DEFINE s == Stuck!Calls(n, act)
             x == events \o s
  <2>3. n \in Nat
    BY DEF Thresholds, Stuck!ThresholdAssumption
  <2>4. /\ Sound(x) /\ s \in Seq(Unanswered(x))
        /\ \A i, j \in 1 .. Len(s) : i < j => s[i].id < s[j].id
    BY <2>1, <2>3, CallsKeep
  <2>5. \/ \E kind \in {"observation", "error"}, content \in Contents :
               events' = x \o Stuck!Answers(s, x, kind, content)
        \/ events' = x
    BY <2>2
  <2> HIDE DEF s, x
  <2>6. ASSUME NEW kind \in {"observation", "error"}, NEW content \in Contents,
               events' = x \o Stuck!Answers(s, x, kind, content)
        PROVE  Sound(events')
    <3>1. kind \in ResultKinds /\ content \in {0} \cup Contents
      BY DEF ResultKinds
    <3>2. Sound(x \o Stuck!Answers(s, x, kind, content))
      BY <2>4, <3>1, AnswersKeep
    <3> QED BY <2>6, <3>2
  <2> QED BY <2>4, <2>5, <2>6
<1>11. CASE Stuck!Speak
  <2>1. events' = Append(events, Stuck!Event(events, "agent", 0, 0))
    BY <1>11 DEF Stuck!Speak, Stuck!Write
  <2> QED BY <1>2, <2>1
<1>12. CASE Stuck!Condense
  <2>1. events' = Append(events, Stuck!Event(events, "condensation", 0, 0))
    BY <1>12 DEF Stuck!Condense, Stuck!Write
  <2> QED BY <1>2, <2>1
<1>13. CASE UNCHANGED Stuck!vars
  BY <1>4, <1>13 DEF Stuck!vars
<1>14. Sound(events')
  BY <1>5, <1>6, <1>7, <1>8, <1>9, <1>10, <1>11, <1>12, <1>13 DEF Stuck!Next, Stuck!Step
<1> QED BY <1>14 DEF Sound

\* For any thresholds that are above zero, as long as the shortest history the detector looks
\* at is not longer than two of each event that alternates: if the calls since the message of
\* the user were made one at a time and none was rejected, the detector says exactly what the
\* pairs of calls and results say.
THEOREM DetectorIsExact ==
  ASSUME Thresholds, Reachable
  PROVE  Stuck!Spec => []Stuck!Exact
<1>1. Stuck!Init => Sound(events)
  BY StuckInit
<1>2. Sound(events) /\ [Stuck!Next]_(Stuck!vars) => Sound(events)'
  BY StuckStep
<1>3. Sound(events) => Stuck!Exact
  BY SoundIsExact
<1> QED BY <1>1, <1>2, <1>3, PTL DEF Stuck!Spec
=============================================================================
