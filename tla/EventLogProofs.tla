---------------------------- MODULE EventLogProofs ----------------------------
(***************************************************************************)
(* Theorems about EventLog, for any number of processes, threads and       *)
(* events, any number of crashes and failed writes, and any number of      *)
(* digits in a file name.                                                  *)
(***************************************************************************)
EXTENDS EventLog, FiniteSetTheorems, SequenceTheorems, TLAPS

Size == Cardinality(files)

\* The places of append() under the file lock.
Locked == {"scan", "ready", "write"}

(***************************************************************************)
(* The inductive invariant.  That no index is used twice rests on the file *)
(* lock (Exclusive) and on the count taken under it: a log that is in sync *)
(* has the length of the directory (InSync), and no log ever believes in   *)
(* more files than there are (NotAhead), so a log that is not behind is    *)
(* exact.  A thread inside append() belongs to an open log, so opening a   *)
(* log, which takes no lock, moves nobody's length within append().        *)
(***************************************************************************)
Types == /\ files \subseteq [idx : Nat, id : Events]
         /\ IsFiniteSet(files)
         /\ length \in [Logs -> Nat]
         /\ pc \in [Threads -> Places]
         /\ event \in [Threads -> Events \cup {None}]
Attached == \A t \in Threads : pc[t] # "idle" => event[t] \in Events /\ Home[t] \in opened
Exclusive == \A t \in Threads : pc[t] \in Locked => holder = t
NotAhead == \A l \in Logs : length[l] <= Size
InSync == \A t \in Threads :
            /\ pc[t] = "ready" => length[Home[t]] = Size
            /\ pc[t] = "write" => length[Home[t]] + 1 = Size

LogInv == Types /\ Attached /\ Exclusive /\ NotAhead /\ InSync /\ Contiguous

\* The number of events is a number.
LEMMA SizeIsNat == ASSUME Types PROVE Size \in Nat
BY FS_CardinalityType DEF Types, Size

\* A scan ends within the directory: at the first index that is missing or whose
\* name is not recognised.
LEMMA ScanIsBounded == ASSUME Types, Contiguous PROVE Scanned \in 0 .. Size
<1> DEFINE n == IF Size <= IndexLimit THEN Size ELSE IndexLimit
<1>1. Size \in Nat /\ IndexLimit \in Nat
  BY SizeIsNat, EventLogAssumption
<1>2. {f.idx : f \in files} = 0 .. Size - 1
  BY DEF Contiguous, Size
<1>3. ByIdx = {i \in 0 .. Size - 1 : i < IndexLimit}
  BY <1>2 DEF ByIdx
<1>4. n \in 0 .. Size /\ n \notin ByIdx /\ 0 .. n - 1 \subseteq ByIdx
  BY <1>1, <1>3
<1> HIDE DEF n
<1> QED BY <1>4 DEF Scanned, Size

\* Without errors a listing is what there is.
LEMMA ListedIs ==
  ASSUME ~ ListFails
  PROVE  /\ \A n : Listed(Cardinality(files), n) = {Cardinality(files)}
         /\ \A ids : Listed(ScanIds, ids) = {ScanIds}
         /\ \A scan : Listed([n |-> Scanned, ids |-> ScanIds], scan) = {[n |-> Scanned, ids |-> ScanIds]}
<1>1. \A x, y : Listed(x, y) = {x}
  BY DEF Listed
<1> QED BY <1>1

\* The first invariant holds at the start.
LEMMA LogInvInit == Init => LogInv
<1> SUFFICES ASSUME Init PROVE LogInv
  OBVIOUS
<1>1. files = {} /\ Size = 0 /\ IsFiniteSet(files)
  BY FS_EmptySet DEF Init, Size
<1>2. 0 .. Size - 1 = {}
  BY <1>1
<1> QED
  BY <1>1, <1>2 DEF Init, LogInv, Types, Attached, Exclusive, NotAhead, InSync, Contiguous,
     Places, Locked, Size

-----------------------------------------------------------------------------
\* A step that leaves the files alone keeps what is said of them alone.
LEMMA FilesUnchanged ==
  ASSUME LogInv, files' = files
  PROVE  Contiguous' /\ Size' = Size /\ IsFiniteSet(files')
BY DEF LogInv, Types, Contiguous, Size

\* Create uses the one index that is next.
LEMMA CreateStep == ASSUME LogInv, NEW t \in Threads, Create(t) PROVE LogInv'
<1> DEFINE f == Target(t)
<1>0. Home[t] \in Logs /\ Size \in Nat
  BY EventLogAssumption, SizeIsNat DEF LogInv
<1>1. pc[t] = "ready" /\ event[t] \in Events /\ length[Home[t]] = Size
  BY DEF Create, LogInv, Attached, InSync
<1>2. f = [idx |-> Size, id |-> event[t]] /\ f \in [idx : Nat, id : Events] /\ f.idx = Size
  BY <1>0, <1>1 DEF Target, File
<1>3. files' = files \cup {f} /\ length' = length /\ pc' = [pc EXCEPT ![t] = "write"]
      /\ UNCHANGED <<opened, event, holder>>
  BY DEF Create, memory
<1>4. {g.idx : g \in files} = 0 .. Size - 1
  BY DEF LogInv, Contiguous, Size
<1> HIDE DEF f
<1>5. \A g \in files : g.idx \in 0 .. Size - 1
  BY <1>4
<1>6. f \notin files
  BY <1>0, <1>2, <1>5
<1>7. IsFiniteSet(files') /\ Size' = Size + 1
  BY <1>3, <1>6, FS_AddElement DEF LogInv, Types, Size
<1>8. Contiguous'
  <2>1. \A g, h \in files' : g.idx = h.idx => g = h
    BY <1>0, <1>2, <1>3, <1>5 DEF LogInv, Contiguous
  <2>2. {g.idx : g \in files'} = {g.idx : g \in files} \cup {Size}
    BY <1>2, <1>3
  <2>3. {g.idx : g \in files'} = 0 .. Size' - 1
    BY <1>0, <1>4, <1>7, <2>2
  <2> QED BY <2>1, <2>3 DEF Contiguous, Size
<1>9. Types'
  BY <1>2, <1>3, <1>7 DEF LogInv, Types, Places
<1>10. Attached' /\ Exclusive'
  BY <1>1, <1>3 DEF LogInv, Types, Attached, Exclusive, Locked
<1>11. NotAhead'
  BY <1>0, <1>3, <1>7 DEF LogInv, Types, NotAhead
<1>12. InSync'
  <2>1. ASSUME NEW u \in Threads, pc'[u] \in Locked PROVE u = t
    BY <1>1, <1>3, <2>1 DEF LogInv, Types, Exclusive, Locked
  <2> QED BY <1>0, <1>1, <1>3, <1>7, <2>1 DEF LogInv, Types, InSync, Locked
<1> QED BY <1>8, <1>9, <1>10, <1>11, <1>12 DEF LogInv

\* Every other step of append() leaves the files alone.
LEMMA InsideStep ==
  ASSUME ~ ListFails, LogInv, NEW t \in Threads,
         \/ Acquire(t) \/ Sync(t) \/ Refuse(t) \/ Flush(t) \/ Complete(t)
         \/ TimeOut(t) \/ WriteFails(t) \/ \E e \in Events : Call(t, e)
  PROVE  LogInv'
<1> USE EventLogAssumption DEF Places, Locked, disk, memory, callers
<1>0. Size \in Nat /\ Home \in [Threads -> Logs] /\ None \notin Threads
  BY SizeIsNat DEF LogInv
<1>1. files' = files
  BY DEF Acquire, Sync, Refuse, Flush, Complete, TimeOut, WriteFails, Call
<1>2. Contiguous' /\ Size' = Size /\ IsFiniteSet(files')
  BY <1>1, FilesUnchanged
<1>3. ASSUME Acquire(t) PROVE LogInv'
  <2>1. length' = length /\ opened' = opened /\ event' = event
    BY <1>3 DEF Acquire
  <2>a. pc' = [pc EXCEPT ![t] = IF Behind(Home[t], Size) THEN "scan" ELSE "ready"]
    <3>1. PICK n \in Listed(Cardinality(files), 0) :
                 pc' = [pc EXCEPT ![t] = IF Behind(Home[t], n) THEN "scan" ELSE "ready"]
      <4> HIDE DEF Listed, Behind
      <4> QED BY <1>3 DEF Acquire
    <3>2. n = Size
      <4>1. n \in {Cardinality(files)}
        BY <3>1, ListedIs
      <4> QED BY <4>1 DEF Size
    <3> QED BY <3>1, <3>2
  <2>2. ~ Behind(Home[t], Size) => length[Home[t]] = Size
    BY <1>0 DEF LogInv, Types, NotAhead, Behind
  <2>3. Types' /\ Attached' /\ Exclusive' /\ NotAhead'
    BY <1>0, <1>1, <1>2, <1>3, <2>1
       DEF Acquire, LogInv, Types, Attached, Exclusive, NotAhead
  <2>4. InSync'
    BY <1>0, <1>2, <1>3, <2>1, <2>2, <2>a DEF Acquire, LogInv, Types, Exclusive, InSync
  <2> QED BY <1>2, <2>3, <2>4 DEF LogInv
<1>4. ASSUME Sync(t) PROVE LogInv'
  <2>1. length' = [length EXCEPT ![Home[t]] = Size] /\ pc' = [pc EXCEPT ![t] = "ready"]
        /\ UNCHANGED <<opened, event, holder>> /\ pc[t] = "scan"
    BY <1>4 DEF Sync, Size
  <2>2. Types' /\ Attached' /\ Exclusive' /\ NotAhead'
    BY <1>0, <1>1, <1>2, <2>1 DEF LogInv, Types, Attached, Exclusive, NotAhead
  <2>3. \A u \in Threads : pc'[u] \in Locked => u = t
    BY <2>1 DEF LogInv, Types, Exclusive
  <2>4. InSync'
    BY <1>0, <1>2, <2>1, <2>3 DEF LogInv, Types, InSync
  <2> QED BY <1>2, <2>2, <2>4 DEF LogInv
<1>5. ASSUME Complete(t) PROVE LogInv'
  <2>1. length' = [length EXCEPT ![Home[t]] = length[Home[t]] + 1] /\ pc[t] = "write"
        /\ pc' = [pc EXCEPT ![t] = "idle"] /\ event' = [event EXCEPT ![t] = None]
        /\ holder' = None /\ opened' = opened
    BY <1>5 DEF Complete, Leave, Return
  <2>2. length[Home[t]] + 1 = Size
    BY <2>1 DEF LogInv, InSync
  <2>3. \A u \in Threads : pc'[u] \notin Locked
    BY <2>1 DEF LogInv, Types, Exclusive
  <2>4. Types' /\ NotAhead'
    BY <1>0, <1>1, <1>2, <2>1, <2>2 DEF LogInv, Types, NotAhead
  <2>5. Attached' /\ Exclusive' /\ InSync'
    BY <1>0, <1>1, <2>1, <2>3 DEF LogInv, Types, Attached, Exclusive, InSync
  <2> QED BY <1>2, <2>4, <2>5 DEF LogInv
<1>6. ASSUME Refuse(t) \/ WriteFails(t) \/ TimeOut(t) PROVE LogInv'
  <2>1. length' = length /\ opened' = opened /\ holder' \in {holder, None}
        /\ pc' = [pc EXCEPT ![t] = "idle"] /\ event' = [event EXCEPT ![t] = None]
    BY <1>6 DEF Refuse, WriteFails, TimeOut, Leave, Return
  <2>2. holder' = holder \/ \A u \in Threads : pc'[u] \notin Locked
    BY <1>6, <2>1 DEF Refuse, WriteFails, TimeOut, Leave, LogInv, Types, Exclusive
  <2>3. Types' /\ NotAhead'
    BY <1>0, <1>1, <1>2, <2>1 DEF LogInv, Types, NotAhead
  <2>4. Attached' /\ Exclusive' /\ InSync'
    BY <1>0, <1>2, <2>1, <2>2 DEF LogInv, Types, Attached, Exclusive, InSync
  <2> QED BY <1>2, <2>3, <2>4 DEF LogInv
<1>7. ASSUME Flush(t) PROVE LogInv'
  <2>1. UNCHANGED <<length, opened, holder, pc, event>>
    BY <1>7 DEF Flush
  <2> QED
    BY <1>1, <1>2, <2>1 DEF LogInv, Types, Attached, Exclusive, NotAhead, InSync
<1>8. ASSUME NEW e \in Events, Call(t, e) PROVE LogInv'
  <2>1. UNCHANGED <<length, opened, holder>> /\ Home[t] \in opened
        /\ pc' = [pc EXCEPT ![t] = "waiting"] /\ event' = [event EXCEPT ![t] = e]
        /\ pc[t] = "idle"
    BY <1>8 DEF Call
  <2>2. \A u \in Threads : pc'[u] \in Locked => pc'[u] = pc[u]
    BY <2>1 DEF LogInv, Types
  <2>4. Types' /\ Exclusive' /\ NotAhead'
    BY <1>1, <1>2, <2>1, <2>2 DEF LogInv, Types, Exclusive, NotAhead
  <2>5. InSync'
    BY <1>2, <2>1, <2>2 DEF LogInv, InSync
  <2>3. ASSUME NEW u \in Threads, pc'[u] # "idle"
        PROVE  event'[u] \in Events /\ Home[u] \in opened'
    <3>1. CASE u = t
      BY <2>1, <3>1 DEF LogInv, Types
    <3>2. CASE u # t
      BY <2>1, <2>3, <3>2 DEF LogInv, Types, Attached
    <3> QED BY <3>1, <3>2
  <2> QED BY <1>2, <2>3, <2>4, <2>5 DEF LogInv, Attached
<1> QED BY <1>3, <1>4, <1>5, <1>6, <1>7, <1>8

\* Opening a log, a death and a read: nobody's length within append() moves.
LEMMA ProcessStep ==
  ASSUME ~ ListFails, LogInv, NEW l \in Logs, Open(l) \/ Crash(l) \/ (\E i \in Nat : Read(l, i))
  PROVE  LogInv'
<1> USE EventLogAssumption DEF Places, Locked, disk, memory, callers
<1>0. Size \in Nat /\ Home \in [Threads -> Logs] /\ None \notin Threads
  BY SizeIsNat DEF LogInv
<1>1. files' = files
  BY DEF Open, Crash, Read
<1>2. Contiguous' /\ Size' = Size /\ IsFiniteSet(files')
  BY <1>1, FilesUnchanged
<1>3. ASSUME Open(l) PROVE LogInv'
  <2>1. /\ l \notin opened /\ opened' = opened \cup {l}
        /\ length' = [length EXCEPT ![l] = Scanned]
        /\ UNCHANGED <<pc, event, holder>>
    <3> DEFINE found == [n |-> Scanned, ids |-> ScanIds]
    <3>1. PICK scan \in Listed(found, [n |-> 0, ids |-> <<>>]) :
                 length' = [length EXCEPT ![l] = scan.n]
      BY <1>3 DEF Open
    <3>2. scan = found
      <4>1. scan \in {found}
        BY <3>1, ListedIs
      <4> QED BY <4>1
    <3>3. scan.n = Scanned
      BY <3>2
    <3>4. l \notin opened /\ opened' = opened \cup {l} /\ UNCHANGED <<pc, event, holder>>
      BY <1>3 DEF Open
    <3> QED BY <3>1, <3>3, <3>4
  <2>2. Scanned \in 0 .. Size
    BY ScanIsBounded DEF LogInv
  <2>3. \A t \in Threads : Home[t] = l => pc[t] = "idle"
    BY <2>1 DEF LogInv, Attached
  <2>4. Types' /\ NotAhead'
    BY <1>0, <1>1, <1>2, <2>1, <2>2 DEF LogInv, Types, NotAhead
  <2>5. Attached' /\ Exclusive' /\ InSync'
    BY <1>0, <1>2, <2>1, <2>3 DEF LogInv, Types, Attached, Exclusive, InSync
  <2> QED BY <1>2, <2>4, <2>5 DEF LogInv
<1>4. ASSUME Crash(l) PROVE LogInv'
  <2>1. /\ opened' = opened \ {l} /\ length' = [length EXCEPT ![l] = 0]
        /\ pc' = [t \in Threads |-> IF Home[t] = l THEN "idle" ELSE pc[t]]
        /\ event' = [t \in Threads |-> IF Home[t] = l THEN None ELSE event[t]]
        /\ holder' = IF holder \in {t \in Threads : Home[t] = l} THEN None ELSE holder
    BY <1>4 DEF Crash
  <2>2. Types' /\ NotAhead'
    BY <1>0, <1>1, <1>2, <2>1 DEF LogInv, Types, NotAhead
  <2>3. Attached'
    BY <1>0, <2>1 DEF LogInv, Types, Attached
  <2>4. Exclusive' /\ InSync'
    BY <1>0, <1>2, <2>1 DEF LogInv, Types, Exclusive, InSync
  <2> QED BY <1>2, <2>2, <2>3, <2>4 DEF LogInv
<1>5. ASSUME NEW i \in Nat, Read(l, i) PROVE LogInv'
  <2>1. UNCHANGED <<length, opened, holder, pc, event>>
    BY <1>5 DEF Read
  <2> QED
    BY <1>1, <1>2, <2>1 DEF LogInv, Types, Attached, Exclusive, NotAhead, InSync
<1> QED BY <1>3, <1>4, <1>5

\* Every step keeps the first invariant.
LEMMA LogInvStep == ASSUME ~ ListFails, LogInv, [Next]_vars PROVE LogInv'
<1>1. ASSUME NEW t \in Threads, (\E e \in Events : Call(t, e)) \/ TimeOut(t) \/ WriteFails(t)
                                \/ Inside(t)
      PROVE  LogInv'
  BY <1>1, InsideStep, CreateStep DEF Inside
<1>2. ASSUME NEW l \in Logs,
             Open(l) \/ Crash(l) \/ \E i \in 0 .. Cardinality(Events) : Read(l, i)
      PROVE  LogInv'
  BY <1>2, ProcessStep
<1>3. CASE UNCHANGED vars
  <2>1. UNCHANGED <<files, length, opened, holder, pc, event>>
    BY <1>3 DEF vars, disk, memory, callers
  <2>2. Contiguous' /\ Size' = Size /\ IsFiniteSet(files')
    BY <2>1, FilesUnchanged
  <2> QED
    BY <2>1, <2>2 DEF LogInv, Types, Attached, Exclusive, NotAhead, InSync
<1> QED BY <1>1, <1>2, <1>3 DEF Next

\* The first invariant holds always.
LEMMA LogInvariant == ASSUME ~ ListFails PROVE Spec => []LogInv
<1>1. LogInv /\ [Next]_vars => LogInv'
  BY LogInvStep
<1> QED BY <1>1, LogInvInit, PTL DEF Spec

-----------------------------------------------------------------------------
\* Two files never have one index and the indices have no gap, whatever the processes
\* that append at once, the writes that fail and the processes that die.  Listing the
\* directory must not fail: append() takes an error for an empty directory.
THEOREM NoIndexTwice == ASSUME ~ ListFails PROVE Spec => []Contiguous
BY LogInvariant, PTL DEF LogInv

-----------------------------------------------------------------------------
(***************************************************************************)
(* What a log that is not full promises.  EVENT_NAME_RE recognises indices *)
(* below IndexLimit: from there on a scan no longer sees the files that    *)
(* are written, an event can be stored twice, and what was acknowledged is *)
(* not found again, so the theorems below are about a log with room.       *)
(***************************************************************************)
HasRoom == Size <= IndexLimit

\* The strengthening: an instance knows the id of every file below its length, so an
\* event that is written is a new one, and what is whole is never written again.
DistinctIds == \A f, g \in files : f.id = g.id => f = g
Knows == \A l \in Logs : \A f \in files : f.idx < length[l] => f.id \in DOMAIN indexOf[l]
Writing == \A t \in Threads : pc[t] = "write" => Target(t) \in files
Stored == \A e \in acked : \E f \in files : f.id = e /\ text[f] = "all"
Texted == text \in [files -> Texts] /\ indexOf = [l \in Logs |-> indexOf[l]]

KeptInv == LogInv /\ DistinctIds /\ Knows /\ Writing /\ Stored /\ Texted

\* In a log with room a scan sees every file, each at its index.
LEMMA ScanIsWhole ==
  ASSUME LogInv, HasRoom
  PROVE  /\ Size \in Nat
         /\ Scanned = Size
         /\ DOMAIN ScanIds = 0 .. Size - 1
         /\ \A f \in files : f.idx \in DOMAIN ScanIds /\ ScanIds[f.idx] = f.id
<1>1. Size \in Nat /\ IndexLimit \in Nat
  BY SizeIsNat, EventLogAssumption DEF LogInv
<1>2. {f.idx : f \in files} = 0 .. Size - 1
  BY DEF LogInv, Contiguous, Size
<1>3. ByIdx = 0 .. Size - 1
  BY <1>1, <1>2 DEF ByIdx, HasRoom
<1>4. Scanned \in 0 .. Size /\ Scanned \notin ByIdx /\ 0 .. Scanned - 1 \subseteq ByIdx
  <2>1. Size \in 0 .. Size /\ Size \notin ByIdx /\ 0 .. Size - 1 \subseteq ByIdx
    BY <1>1, <1>3
  <2> QED BY <2>1 DEF Scanned, Size
<1>5. Scanned = Size
  BY <1>1, <1>3, <1>4
<1>6. DOMAIN ScanIds = 0 .. Size - 1
  BY <1>5 DEF ScanIds
<1>7. ASSUME NEW f \in files PROVE f.idx \in 0 .. Size - 1 /\ ScanIds[f.idx] = f.id
  <2>1. f.idx \in 0 .. Size - 1
    BY <1>2
  <2>2. (CHOOSE g \in files : g.idx = f.idx) = f
    BY DEF LogInv, Contiguous
  <2> QED BY <1>5, <2>1, <2>2 DEF ScanIds
<1> QED BY <1>1, <1>5, <1>6, <1>7

\* What the index by id has for keys.
LEMMA InvertedDomain ==
  \A ids : DOMAIN Inverted(ids) = {ids[i] : i \in DOMAIN ids}
BY DEF Inverted

\* While there is room, a scan of the directory finds every file.
LEMMA ScanKnows ==
  ASSUME LogInv, HasRoom
  PROVE  \A f \in files : f.id \in DOMAIN Inverted(ScanIds)
BY ScanIsWhole, InvertedDomain

\* The second invariant holds at the start.
LEMMA KeptInit == Init => KeptInv
<1> SUFFICES ASSUME Init PROVE KeptInv
  OBVIOUS
<1>1. LogInv
  BY LogInvInit
<1>2. files = {} /\ text = <<>> /\ indexOf = [l \in Logs |-> <<>>]
      /\ acked = {} /\ \A t \in Threads : pc[t] = "idle"
  BY DEF Init
<1>3. DistinctIds /\ Knows /\ Writing /\ Stored
  BY <1>2 DEF DistinctIds, Knows, Writing, Stored
<1>4. text \in [files -> Texts]
  BY <1>2
<1>5. Texted
  BY <1>2, <1>4 DEF Texted
<1> QED BY <1>1, <1>3, <1>5 DEF KeptInv

\* The holder of the lock that is ready has seen every event on the disk.
LEMMA ReadyKnows ==
  ASSUME KeptInv, NEW t \in Threads, pc[t] = "ready"
  PROVE  \A f \in files : f.id \in DOMAIN indexOf[Home[t]]
<1>1. Home[t] \in Logs /\ length[Home[t]] = Size
  BY EventLogAssumption DEF KeptInv, LogInv, InSync
<1>2. \A f \in files : f.idx < Size
  <2>1. Size \in Nat /\ {f.idx : f \in files} = 0 .. Size - 1
    BY SizeIsNat DEF KeptInv, LogInv, Contiguous, Size
  <2>2. ASSUME NEW f \in files PROVE f.idx < Size
    <3>1. f.idx \in 0 .. Size - 1
      BY <2>1
    <3> QED BY <2>1, <3>1
  <2> QED BY <2>2
<1> QED BY <1>1, <1>2 DEF KeptInv, Knows

\* A file that did not exist, of an event that had none, after all others.
LEMMA CreateIsNew ==
  ASSUME KeptInv, NEW t \in Threads, Create(t)
  PROVE  /\ Target(t) = File(Size, event[t])
         /\ event[t] \in Events
         /\ Target(t) \notin files
         /\ \A f \in files : f.id # event[t]
<1>1. pc[t] = "ready" /\ event[t] \notin DOMAIN indexOf[Home[t]]
  BY DEF Create, Duplicate
<1>2. \A f \in files : f.id # event[t]
  BY <1>1, ReadyKnows
<1>3. event[t] \in Events /\ length[Home[t]] = Size
  BY <1>1 DEF KeptInv, LogInv, Attached, InSync
<1>4. Target(t) = File(Size, event[t])
  BY <1>3 DEF Target
<1>5. Target(t).id = event[t]
  BY DEF Target, File
<1> QED BY <1>2, <1>3, <1>4, <1>5

\* Where the last file is, for the thread that writes it.
LEMMA TargetIsLast ==
  ASSUME KeptInv, NEW t \in Threads, pc[t] = "write"
  PROVE  /\ Size \in Nat \ {0}
         /\ Target(t) = File(Size - 1, event[t])
         /\ Target(t) \in files
         /\ event[t] \in Events
<1>1. Size \in Nat /\ Home[t] \in Logs
  BY SizeIsNat, EventLogAssumption DEF KeptInv, LogInv
<1>2. length[Home[t]] \in Nat /\ length[Home[t]] + 1 = Size /\ event[t] \in Events
  BY <1>1 DEF KeptInv, LogInv, InSync, Types, Attached
<1>3. Target(t) \in files
  BY DEF KeptInv, Writing
<1>4. length[Home[t]] = Size - 1 /\ Size # 0
  BY <1>1, <1>2
<1> QED BY <1>1, <1>2, <1>3, <1>4 DEF Target

\* A file is created.
LEMMA KeptCreate == ASSUME KeptInv, NEW t \in Threads, Create(t) PROVE KeptInv'
<1> DEFINE f == Target(t)
<1>1. LogInv'
  BY CreateStep DEF KeptInv
<1>2. /\ files' = files \cup {f} /\ text' = Put(text, f, "") /\ UNCHANGED <<length, indexOf, event, acked>>
      /\ pc' = [pc EXCEPT ![t] = "write"]
  BY DEF Create, memory
<1>3. f = [idx |-> Size, id |-> event[t]] /\ f \notin files /\ \A g \in files : g.id # event[t]
  BY CreateIsNew DEF File
<1>4. "" \in Texts /\ text \in [files -> Texts]
  BY DEF Texts, KeptInv, Texted
<1>5. text' \in [files' -> Texts] /\ \A g \in files : text'[g] = text[g]
  <2>1. f \notin files
    BY <1>3
  <2> HIDE DEF f
  <2>2. /\ Put(text, f, "") \in [files \cup {f} -> Texts]
        /\ \A g \in files \ {f} : Put(text, f, "")[g] = text[g]
    BY <1>4, <2>1 DEF Put, Updated, Texts
  <2> QED BY <1>2, <2>1, <2>2
<1>6. Texted'
  BY <1>2, <1>5 DEF KeptInv, Texted
<1>7. DistinctIds'
  <2>1. f.id = event[t]
    BY <1>3
  <2> HIDE DEF f
  <2> QED BY <1>2, <1>3, <2>1 DEF KeptInv, DistinctIds
<1>8. Knows'
  <2>1. \A l \in Logs : length[l] \in Nat /\ length[l] <= Size /\ Size \in Nat
    BY SizeIsNat DEF KeptInv, LogInv, Types, NotAhead
  <2>2. \A l \in Logs : ~ (f.idx < length[l])
    BY <1>3, <2>1
  <2> HIDE DEF f
  <2> QED BY <1>2, <2>2 DEF KeptInv, Knows
<1>9. Writing'
  <2>1. \A u \in Threads : Target(u)' = Target(u)
    BY <1>2 DEF Target
  <2>2. \A u \in Threads \ {t} : pc'[u] = pc[u]
    BY <1>2 DEF KeptInv, LogInv, Types
  <2> QED BY <1>2, <2>1, <2>2 DEF KeptInv, Writing
<1>10. Stored'
  <2> HIDE DEF f
  <2>1. ASSUME NEW e \in acked PROVE \E g \in files' : g.id = e /\ text'[g] = "all"
    <3>1. PICK g \in files : g.id = e /\ text[g] = "all"
      BY DEF KeptInv, Stored
    <3> QED BY <1>2, <1>5, <3>1
  <2> QED BY <1>2, <2>1 DEF Stored
<1> QED BY <1>1, <1>6, <1>7, <1>8, <1>9, <1>10 DEF KeptInv

\* A file is written.
LEMMA KeptFlush == ASSUME ~ ListFails, KeptInv, NEW t \in Threads, Flush(t) PROVE KeptInv'
<1>1. LogInv'
  BY InsideStep DEF KeptInv
<1>2. /\ files' = files /\ text' = [text EXCEPT ![Target(t)] = "part"]
      /\ UNCHANGED <<length, indexOf, event, acked, pc>> /\ text[Target(t)] = ""
  BY DEF Flush, memory, callers
<1>3. text \in [files -> Texts] /\ "part" \in Texts
  BY DEF Texts, KeptInv, Texted
<1>4. text' \in [files' -> Texts] /\ \A g \in files : text[g] = "all" => text'[g] = "all"
  BY <1>2, <1>3
<1>5. DistinctIds' /\ Knows' /\ Texted'
  BY <1>2, <1>4 DEF KeptInv, DistinctIds, Knows, Texted
<1>6. Writing'
  BY <1>2 DEF KeptInv, Writing, Target
<1>7. Stored'
  BY <1>2, <1>4 DEF KeptInv, Stored
<1> QED BY <1>1, <1>5, <1>6, <1>7 DEF KeptInv

\* An append returns.
LEMMA KeptComplete == ASSUME ~ ListFails, KeptInv, NEW t \in Threads, Complete(t) PROVE KeptInv'
<1> DEFINE l == Home[t]
           f == Target(t)
<1>1. LogInv'
  BY InsideStep DEF KeptInv
<1>2. /\ files' = files /\ text' = [text EXCEPT ![f] = "all"]
      /\ indexOf' = [indexOf EXCEPT ![l] = Put(@, event[t], length[l])]
      /\ length' = [length EXCEPT ![l] = @ + 1]
      /\ acked' = acked \cup {event[t]}
      /\ pc[t] = "write" /\ pc' = [pc EXCEPT ![t] = "idle"]
  BY DEF Complete, Leave, Return
<1>3. /\ f \in files /\ f = [idx |-> Size - 1, id |-> event[t]] /\ Size \in Nat \ {0}
      /\ l \in Logs /\ length[l] = Size - 1
  BY <1>2, TargetIsLast, EventLogAssumption DEF File, Target
<1>4. text \in [files -> Texts] /\ "all" \in Texts
  BY DEF Texts, KeptInv, Texted
<1>5. text' \in [files' -> Texts] /\ text'[f] = "all" /\ \A g \in files : text[g] = "all" => text'[g] = "all"
  <2> HIDE DEF f
  <2> QED BY <1>2, <1>3, <1>4
<1>6. indexOf = [m \in Logs |-> indexOf[m]] /\ length \in [Logs -> Nat]
  BY DEF KeptInv, Texted, LogInv, Types
<1>7. /\ DOMAIN indexOf'[l] = DOMAIN indexOf[l] \cup {event[t]} /\ length'[l] = Size
      /\ \A m \in Logs \ {l} : indexOf'[m] = indexOf[m] /\ length'[m] = length[m]
      /\ indexOf' = [m \in Logs |-> indexOf'[m]]
  <2> HIDE DEF l
  <2>1. indexOf'[l] = Put(indexOf[l], event[t], length[l])
    BY <1>2, <1>3, <1>6
  <2>2. DOMAIN indexOf'[l] = DOMAIN indexOf[l] \cup {event[t]}
    BY <2>1 DEF Put, Updated
  <2>3. length'[l] = Size
    BY <1>2, <1>3, <1>6
  <2>4. \A m \in Logs \ {l} : indexOf'[m] = indexOf[m] /\ length'[m] = length[m]
    BY <1>2, <1>6
  <2>5. indexOf' = [m \in Logs |-> indexOf'[m]]
    BY <1>2, <1>6
  <2> QED BY <2>2, <2>3, <2>4, <2>5
<1>8. DistinctIds' /\ Texted'
  BY <1>2, <1>5, <1>7 DEF KeptInv, DistinctIds, Texted
<1>9. Knows'
  <2>1. ASSUME NEW g \in files, g.idx < Size PROVE g.id \in DOMAIN indexOf'[l]
    <3>1. g.idx \in Nat
      BY DEF KeptInv, LogInv, Types
    <3>2. CASE g.idx < Size - 1
      BY <1>3, <1>7, <3>2 DEF KeptInv, Knows
    <3>3. CASE g.idx = Size - 1
      BY <1>3, <1>7, <3>3 DEF KeptInv, LogInv, Contiguous
    <3> QED BY <1>3, <2>1, <3>1, <3>2, <3>3
  <2>2. ASSUME NEW m \in Logs \ {l}, NEW g \in files, g.idx < length[m]
        PROVE  g.id \in DOMAIN indexOf'[m]
    BY <1>7, <2>2 DEF KeptInv, Knows
  <2> HIDE DEF l, f
  <2> QED BY <1>2, <1>7, <2>1, <2>2 DEF Knows
<1>10. Writing'
  <2>1. \A u \in Threads : pc'[u] # "write"
    BY <1>2 DEF KeptInv, LogInv, Types, Exclusive, Locked
  <2> QED BY <2>1 DEF Writing
<1>11. Stored'
  <2> HIDE DEF f
  <2>1. f.id = event[t]
    BY <1>3
  <2> QED BY <1>2, <1>3, <1>5, <2>1 DEF KeptInv, Stored
<1> QED BY <1>1, <1>8, <1>9, <1>10, <1>11 DEF KeptInv

\* A step that leaves the disk and what the instances know of it alone.
LEMMA KeptCalm ==
  ASSUME KeptInv, LogInv',
         UNCHANGED <<files, text, acked>>,
         \/ UNCHANGED <<length, indexOf>>
         \/ \E l \in Logs : \E n \in Nat : \E d :
              /\ length' = [length EXCEPT ![l] = n]
              /\ indexOf' = [indexOf EXCEPT ![l] = d]
              /\ \A f \in files : f.idx < n => f.id \in DOMAIN d
              /\ \A u \in Threads : Home[u] = l => pc'[u] # "write",
         \A u \in Threads : pc'[u] = "write" => pc[u] = "write" /\ event'[u] = event[u]
  PROVE  KeptInv'
<1>1. DistinctIds'
  BY DEF KeptInv, DistinctIds
<1>2. Stored'
  BY DEF KeptInv, Stored
<1>3. text' \in [files' -> Texts]
  BY DEF KeptInv, Texted
<1>4. indexOf = [m \in Logs |-> indexOf[m]] /\ length \in [Logs -> Nat]
  BY DEF KeptInv, Texted, LogInv, Types
<1>5. CASE UNCHANGED <<length, indexOf>>
  <2>1. Knows' /\ Texted'
    BY <1>3, <1>5 DEF KeptInv, Knows, Texted
  <2>2. Writing'
    BY <1>5 DEF KeptInv, Writing, Target
  <2> QED BY <1>1, <1>2, <2>1, <2>2 DEF KeptInv
<1>6. ASSUME NEW l \in Logs, NEW n \in Nat, NEW d,
             length' = [length EXCEPT ![l] = n], indexOf' = [indexOf EXCEPT ![l] = d],
             \A f \in files : f.idx < n => f.id \in DOMAIN d,
             \A u \in Threads : Home[u] = l => pc'[u] # "write"
      PROVE  KeptInv'
  <2>1. /\ length'[l] = n /\ indexOf'[l] = d
        /\ \A m \in Logs \ {l} : length'[m] = length[m] /\ indexOf'[m] = indexOf[m]
    BY <1>4, <1>6
  <2>2. indexOf' = [m \in Logs |-> indexOf'[m]]
    BY <1>4, <1>6
  <2>3. Texted'
    BY <1>3, <2>2 DEF Texted
  <2>4. Knows'
    BY <1>6, <2>1 DEF KeptInv, Knows
  <2>5. ASSUME NEW u \in Threads, pc'[u] = "write" PROVE Target(u)' \in files'
    <3>1. Home[u] \in Logs \ {l}
      BY <1>6, <2>5, EventLogAssumption
    <3>2. Target(u)' = Target(u)
      BY <2>1, <2>5, <3>1 DEF Target
    <3> QED BY <2>5, <3>2 DEF KeptInv, Writing
  <2> QED BY <1>1, <1>2, <2>3, <2>4, <2>5 DEF KeptInv, Writing
<1> QED BY <1>5, <1>6

\* The steps of append() but for the two that write and the one that returns.
LEMMA KeptInside ==
  ASSUME ~ ListFails, KeptInv, HasRoom, NEW t \in Threads,
         \/ Acquire(t) \/ Sync(t) \/ Refuse(t)
         \/ TimeOut(t) \/ WriteFails(t) \/ \E e \in Events : Call(t, e)
  PROVE  KeptInv'
<1> USE DEF disk, memory, callers
<1>1. LogInv'
  BY InsideStep DEF KeptInv
<1>2. UNCHANGED <<files, text, acked>>
  BY DEF Acquire, Sync, Refuse, TimeOut, WriteFails, Call
<1>3. pc \in [Threads -> Places] /\ event \in [Threads -> Events \cup {None}]
      /\ Home[t] \in Logs
  BY EventLogAssumption DEF KeptInv, LogInv, Types
<1>4. ASSUME Acquire(t) \/ Refuse(t) \/ TimeOut(t) \/ WriteFails(t) \/ \E e \in Events : Call(t, e)
      PROVE  KeptInv'
  <2>1. UNCHANGED <<length, indexOf>>
    BY <1>4 DEF Acquire, Refuse, TimeOut, WriteFails, Call
  <2>2. \A u \in Threads : pc'[u] = "write" => pc[u] = "write" /\ event'[u] = event[u]
    <3>1. /\ pc'[t] # "write"
          /\ \A u \in Threads \ {t} : pc'[u] = pc[u] /\ event'[u] = event[u]
      BY <1>3, <1>4 DEF Acquire, Refuse, TimeOut, WriteFails, Call, Leave, Return
    <3> QED BY <3>1
  <2> QED BY <1>1, <1>2, <2>1, <2>2, KeptCalm
<1>5. ASSUME Sync(t) PROVE KeptInv'
  <2> DEFINE d == Updated(Inverted(idOf[Home[t]]), Inverted(ScanIds))
  <2>1. /\ length' = [length EXCEPT ![Home[t]] = Size]
        /\ indexOf' = [indexOf EXCEPT ![Home[t]] = d]
        /\ pc[t] = "scan" /\ pc' = [pc EXCEPT ![t] = "ready"] /\ event' = event
    BY <1>5, ListedIs DEF Sync, Size
  <2>2. \A f \in files : f.id \in DOMAIN d
    <3>1. DOMAIN Inverted(ScanIds) \subseteq DOMAIN d
      BY DEF Updated
    <3> QED BY <3>1, ScanKnows DEF KeptInv
  <2>3. \A u \in Threads : pc'[u] # "write"
    BY <1>3, <2>1 DEF KeptInv, LogInv, Exclusive, Locked
  <2>4. Size \in Nat
    BY SizeIsNat DEF KeptInv, LogInv
  <2> HIDE DEF d
  <2> QED BY <1>1, <1>2, <1>3, <2>1, <2>2, <2>3, <2>4, KeptCalm
<1> QED BY <1>4, <1>5

\* A process that starts knows what it finds, one that dies knows nothing.
LEMMA KeptProcess ==
  ASSUME ~ ListFails, KeptInv, HasRoom, NEW l \in Logs, Open(l) \/ Crash(l) \/ (\E i \in Nat : Read(l, i))
  PROVE  KeptInv'
<1> USE DEF disk, memory, callers
<1>1. LogInv'
  BY ProcessStep DEF KeptInv
<1>2. UNCHANGED <<files, text, acked>>
  BY DEF Open, Crash, Read
<1>3. pc \in [Threads -> Places] /\ event \in [Threads -> Events \cup {None}]
      /\ Home \in [Threads -> Logs]
  BY EventLogAssumption DEF KeptInv, LogInv, Types
<1>4. ASSUME Open(l) PROVE KeptInv'
  <2>1. /\ l \notin opened
        /\ length' = [length EXCEPT ![l] = Scanned]
        /\ indexOf' = [indexOf EXCEPT ![l] = Inverted(ScanIds)]
        /\ UNCHANGED <<pc, event>>
    <3> DEFINE found == [n |-> Scanned, ids |-> ScanIds]
    <3>1. PICK scan \in Listed(found, [n |-> 0, ids |-> <<>>]) :
                 /\ length' = [length EXCEPT ![l] = scan.n]
                 /\ indexOf' = [indexOf EXCEPT ![l] = Inverted(scan.ids)]
      BY <1>4 DEF Open
    <3>2. scan = found
      <4>1. scan \in {found}
        BY <3>1, ListedIs
      <4> QED BY <4>1
    <3>3. scan.n = Scanned /\ scan.ids = ScanIds
      BY <3>2
    <3>4. l \notin opened /\ UNCHANGED <<pc, event>>
      BY <1>4 DEF Open
    <3> QED BY <3>1, <3>3, <3>4
  <2>2. Scanned \in Nat
    BY ScanIsWhole DEF KeptInv
  <2>3. \A f \in files : f.id \in DOMAIN Inverted(ScanIds)
    BY ScanKnows DEF KeptInv
  <2>4. \A u \in Threads : Home[u] = l => pc'[u] # "write"
    BY <2>1 DEF KeptInv, LogInv, Attached
  <2> QED BY <1>1, <1>2, <2>1, <2>2, <2>3, <2>4, KeptCalm
<1>5. ASSUME Crash(l) PROVE KeptInv'
  <2>1. /\ length' = [length EXCEPT ![l] = 0]
        /\ indexOf' = [indexOf EXCEPT ![l] = <<>>]
        /\ pc' = [t \in Threads |-> IF Home[t] = l THEN "idle" ELSE pc[t]]
        /\ event' = [t \in Threads |-> IF Home[t] = l THEN None ELSE event[t]]
    BY <1>5 DEF Crash
  <2>2. \A f \in files : ~ (f.idx < 0)
    BY DEF KeptInv, LogInv, Types
  <2>3. \A u \in Threads : Home[u] = l => pc'[u] # "write"
    BY <2>1
  <2>4. \A u \in Threads : pc'[u] = "write" => pc[u] = "write" /\ event'[u] = event[u]
    BY <2>1
  <2> QED BY <1>1, <1>2, <2>1, <2>2, <2>3, <2>4, KeptCalm
<1>6. ASSUME NEW i \in Nat, Read(l, i) PROVE KeptInv'
  <2>1. UNCHANGED <<length, indexOf, pc, event>>
    BY <1>6 DEF Read
  <2> QED BY <1>1, <1>2, <2>1, KeptCalm
<1> QED BY <1>4, <1>5, <1>6

\* Every step keeps the second invariant while there is room.
LEMMA KeptStep == ASSUME ~ ListFails, KeptInv, HasRoom, [Next]_vars PROVE KeptInv'
<1>1. ASSUME NEW t \in Threads, (\E e \in Events : Call(t, e)) \/ TimeOut(t) \/ WriteFails(t)
                                \/ Inside(t)
      PROVE  KeptInv'
  BY <1>1, KeptInside, KeptCreate, KeptFlush, KeptComplete DEF Inside
<1>2. ASSUME NEW l \in Logs,
             Open(l) \/ Crash(l) \/ \E i \in 0 .. Cardinality(Events) : Read(l, i)
      PROVE  KeptInv'
  BY <1>2, KeptProcess
<1>3. CASE UNCHANGED vars
  <2>1. UNCHANGED <<files, text, acked, length, indexOf, pc, event>>
    BY <1>3 DEF vars, disk, memory, callers
  <2>2. LogInv'
    BY <1>3, LogInvStep DEF KeptInv
  <2> QED BY <2>1, <2>2, KeptCalm
<1> QED BY <1>1, <1>2, <1>3 DEF Next

\* The second invariant holds always, as long as there is room.
LEMMA KeptInvariant == ASSUME ~ ListFails PROVE Spec /\ []HasRoom => []KeptInv
<1>1. KeptInv /\ HasRoom /\ [Next]_vars => KeptInv'
  BY KeptStep
<1> QED BY <1>1, KeptInit, PTL DEF Spec

\* What append() acknowledged is on the disk, and in a log with room a scan finds it.
LEMMA ScanFindsAcked == KeptInv /\ HasRoom => AckedKept
<1> SUFFICES ASSUME KeptInv, HasRoom, NEW e \in acked
             PROVE  \E i \in DOMAIN ScanIds : ScanIds[i] = e /\ text[File(i, e)] = "all"
  BY DEF AckedKept
<1>1. PICK f \in files : f.id = e /\ text[f] = "all"
  BY DEF KeptInv, Stored
<1>2. f.idx \in DOMAIN ScanIds /\ ScanIds[f.idx] = e
  BY <1>1, ScanIsWhole DEF KeptInv
<1>3. File(f.idx, e) = f
  BY <1>1 DEF File, KeptInv, LogInv, Types
<1> QED BY <1>1, <1>2, <1>3

\* As long as the log has room, every event whose append() returned is found, whole, by
\* a process that opens the log, whatever other processes wrote, failed to write or died
\* writing, if listing the directory does not fail.
THEOREM AcknowledgedIsFound == ASSUME ~ ListFails PROVE Spec /\ []HasRoom => []AckedKept
BY KeptInvariant, ScanFindsAcked, PTL

\* Distinct ids: a log holds no more files than there are events, so it has room for
\* every event when the file names have.
THEOREM FewEventsHaveRoom ==
  ASSUME ~ ListFails, IsFiniteSet(Events), Cardinality(Events) <= IndexLimit
  PROVE  Spec => [](HasRoom /\ AckedKept)
<1>1. KeptInv => HasRoom
  <2> SUFFICES ASSUME KeptInv PROVE HasRoom
    OBVIOUS
  <2> DEFINE id == [f \in files |-> f.id]
  <2>1. id \in Injection(files, Events)
    BY DEF Injection, IsInjective, KeptInv, LogInv, Types, DistinctIds
  <2>2. Cardinality(files) <= Cardinality(Events)
    BY <2>1, FS_Injection
  <2>3. Size \in Nat /\ Cardinality(Events) \in Nat /\ IndexLimit \in Nat
    BY SizeIsNat, FS_CardinalityType, EventLogAssumption DEF KeptInv, LogInv
  <2> QED BY <2>2, <2>3 DEF HasRoom, Size
<1>2. KeptInv /\ HasRoom /\ [Next]_vars => KeptInv'
  BY KeptStep
<1> QED BY <1>1, <1>2, KeptInit, ScanFindsAcked, PTL DEF Spec

-----------------------------------------------------------------------------
(***************************************************************************)
(* The files implement the append-only log: creating a file reserves the   *)
(* next place, closing it finishes the last entry, and no other step, a    *)
(* failed write and a death among them, changes the history.               *)
(***************************************************************************)
Entries == [id : Events, whole : BOOLEAN]

HistoryShape ==
  /\ History \in Seq(Entries) /\ Len(History) = Size /\ Size \in Nat
  /\ \A f \in files : /\ f.idx + 1 \in 1 .. Size
                      /\ History[f.idx + 1] = [id |-> f.id, whole |-> text[f] = "all"]
  /\ \A n \in 1 .. Size : \E f \in files : n = f.idx + 1

\* The log as the files tell it, entry by entry.
LEMMA HistoryIs == KeptInv => HistoryShape
<1> SUFFICES ASSUME KeptInv PROVE HistoryShape
  OBVIOUS
<1>1. Size \in Nat /\ {f.idx : f \in files} = 0 .. Size - 1 /\ files \subseteq [idx : Nat, id : Events]
  BY SizeIsNat DEF KeptInv, LogInv, Contiguous, Types, Size
<1>2. \A f \in files : f.idx + 1 \in 1 .. Size
  BY <1>1
<1>3. \A n \in 1 .. Size : \E f \in files : n = f.idx + 1
  <2>1. ASSUME NEW n \in 1 .. Size PROVE \E f \in files : n = f.idx + 1
    <3>1. n - 1 \in {f.idx : f \in files}
      BY <1>1
    <3>2. PICK f \in files : f.idx = n - 1
      BY <3>1
    <3> QED BY <3>2
  <2> QED BY <2>1
<1>4. ASSUME NEW f \in files
      PROVE  History[f.idx + 1] = [id |-> f.id, whole |-> text[f] = "all"]
  <2>1. {g \in files : g.idx = (f.idx + 1) - 1} = {f}
    BY <1>1 DEF KeptInv, LogInv, Contiguous
  <2>2. (CHOOSE g \in {f} : TRUE) = f
    OBVIOUS
  <2> QED BY <1>2, <2>1, <2>2 DEF History, Size
<1>5. \A n \in 1 .. Size : History[n] \in Entries
  <2>1. ASSUME NEW n \in 1 .. Size PROVE History[n] \in Entries
    <3>1. PICK f \in files : n = f.idx + 1
      BY <1>3
    <3>2. History[n] = [id |-> f.id, whole |-> text[f] = "all"] /\ f.id \in Events
      BY <1>1, <1>4, <3>1
    <3> QED BY <3>2 DEF Entries
  <2> QED BY <2>1
<1>6. History \in [1 .. Size -> Entries]
  BY <1>5 DEF History, Size
<1>7. History \in Seq(Entries) /\ Len(History) = Size
  BY <1>1, <1>6
<1> QED BY <1>1, <1>2, <1>3, <1>4, <1>7 DEF HistoryShape

\* The same in the next state.
LEMMA HistoryNext == KeptInv' => HistoryShape'
BY HistoryIs, PTL

\* An entry has the id it was made with.
LEMMA EntryId == \A e, b : [id |-> e, whole |-> b].id = e
OBVIOUS

\* Entries that agree in both fields are the same.
LEMMA EntryEqual ==
  ASSUME NEW r \in Entries, NEW s \in Entries, r.id = s.id, r.whole = s.whole PROVE r = s
BY DEF Entries

\* The ids of the log are those of the files.
LEMMA AbstractIds == KeptInv => Abstract!Ids = {f.id : f \in files}
<1> SUFFICES ASSUME KeptInv PROVE Abstract!Ids = {f.id : f \in files}
  OBVIOUS
<1>1. HistoryShape
  BY HistoryIs
<1>2. DOMAIN History = 1 .. Size
  BY <1>1 DEF HistoryShape
<1>3. ASSUME NEW f \in files
      PROVE  f.idx + 1 \in DOMAIN History /\ History[f.idx + 1].id = f.id
  <2>1. f.idx + 1 \in DOMAIN History
    BY <1>1, <1>2, <1>3 DEF HistoryShape
  <2>2. History[f.idx + 1] = [id |-> f.id, whole |-> text[f] = "all"]
    BY <1>1, <1>3 DEF HistoryShape
  <2> QED BY <2>1, <2>2, EntryId
<1>4. \A n \in DOMAIN History : \E f \in files : History[n].id = f.id
  BY <1>1, <1>2, <1>3 DEF HistoryShape
<1> QED BY <1>3, <1>4 DEF Abstract!Ids

\* The initial states are those of the abstract log.
LEMMA RefinesInit == Init => Abstract!Init
<1> SUFFICES ASSUME Init PROVE History = <<>>
  BY DEF Abstract!Init
<1>1. files = {} /\ Cardinality(files) = 0
  BY FS_EmptySet DEF Init
<1>2. 1 .. Cardinality(files) = {}
  BY <1>1
<1> QED BY <1>2 DEF History

\* A file that is created is an entry that is appended.
LEMMA RefinesCreate ==
  ASSUME KeptInv, KeptInv', NEW t \in Threads, Create(t) PROVE Abstract!Reserve(event[t])
<1> DEFINE r == [id |-> event[t], whole |-> FALSE]
           f == Target(t)
<1>1. /\ files' = files \cup {f} /\ text' = Put(text, f, "")
  BY DEF Create
<1>2. f = [idx |-> Size, id |-> event[t]] /\ f \notin files /\ event[t] \in Events
      /\ event[t] \notin Abstract!Ids
  BY CreateIsNew, AbstractIds DEF File
<1>3. text'[f] = "" /\ \A g \in files : text'[g] = text[g]
  <2>1. text \in [files -> Texts] /\ f \notin files
    BY <1>2 DEF KeptInv, Texted
  <2> HIDE DEF f
  <2> QED BY <1>1, <2>1 DEF Put, Updated
<1>4. HistoryShape /\ HistoryShape'
  BY HistoryIs, HistoryNext
<1>5. Size' = Size + 1
  BY <1>1, <1>2, FS_AddElement DEF KeptInv, LogInv, Types, Size
<1>6. r \in Entries
  BY <1>2 DEF Entries
<1>7. \A n \in 1 .. Size' : History'[n] = Append(History, r)[n]
  <2>1. ASSUME NEW g \in files' PROVE History'[g.idx + 1] = Append(History, r)[g.idx + 1]
    <3>1. History'[g.idx + 1] = [id |-> g.id, whole |-> text'[g] = "all"]
      BY <1>4 DEF HistoryShape
    <3>2. CASE g = f
      <4>1. g.idx + 1 = Size + 1 /\ Append(History, r)[Size + 1] = r
        <5>1. g.idx = Size
          BY <1>2, <3>2
        <5> HIDE DEF r, f
        <5> QED BY <1>4, <1>6, <5>1, AppendProperties DEF HistoryShape
      <4>2. g.id = event[t] /\ text'[g] = ""
        <5>1. f.id = event[t]
          BY <1>2
        <5> HIDE DEF f
        <5> QED BY <1>3, <3>2, <5>1
      <4>3. (text'[g] = "all") = FALSE
        BY <4>2
      <4>4. History'[g.idx + 1] = r
        BY <3>1, <4>2, <4>3
      <4> QED BY <4>1, <4>4
    <3>3. CASE g \in files
      <4>1. g.idx + 1 \in 1 .. Size /\ History[g.idx + 1] = [id |-> g.id, whole |-> text[g] = "all"]
        BY <1>4, <3>3 DEF HistoryShape
      <4>2. Append(History, r)[g.idx + 1] = History[g.idx + 1]
        BY <1>4, <1>6, <4>1, AppendProperties DEF HistoryShape
      <4>3. text'[g] = text[g]
        BY <1>3, <3>3
      <4> QED BY <3>1, <4>1, <4>2, <4>3
    <3> QED BY <1>1, <3>2, <3>3
  <2> QED BY <1>4, <2>1 DEF HistoryShape
<1>8. History' = Append(History, r)
  <2>1. Append(History, r) \in Seq(Entries) /\ Len(Append(History, r)) = Size + 1
    BY <1>4, <1>6, AppendProperties DEF HistoryShape
  <2>2. History' \in Seq(Entries) /\ Len(History') = Size + 1
    BY <1>4, <1>5 DEF HistoryShape, Entries
  <2>3. \A n \in 1 .. Len(History') : History'[n] = Append(History, r)[n]
    BY <1>5, <1>7, <2>2
  <2> HIDE DEF r
  <2> QED BY <2>1, <2>2, <2>3, SeqEqual
<1> QED BY <1>2, <1>8 DEF Abstract!Reserve

\* A step that writes no text and no name changes nothing, nor does one that flushes.
LEMMA RefinesSame ==
  ASSUME KeptInv, KeptInv', files' = files,
         \A f \in files : (text'[f] = "all") = (text[f] = "all")
  PROVE  History' = History
<1>1. HistoryShape /\ HistoryShape' /\ Size' = Size
  BY HistoryIs, HistoryNext DEF Size
<1>2. ASSUME NEW n \in 1 .. Size PROVE History'[n] = History[n]
  <2>1. PICK f \in files : n = f.idx + 1
    BY <1>1 DEF HistoryShape
  <2>2. History[n] = [id |-> f.id, whole |-> text[f] = "all"]
    BY <1>1, <2>1 DEF HistoryShape
  <2>3. History'[n] = [id |-> f.id, whole |-> text'[f] = "all"]
    BY <1>1, <2>1 DEF HistoryShape
  <2>4. (text'[f] = "all") = (text[f] = "all")
    OBVIOUS
  <2> QED BY <2>2, <2>3, <2>4
<1>3. /\ History \in Seq(Entries) /\ Len(History) = Size
      /\ History' \in Seq(Entries) /\ Len(History') = Size
  BY <1>1 DEF HistoryShape, Entries
<1> QED BY <1>2, <1>3, SeqEqual

\* A file that is complete makes its entry whole.
LEMMA RefinesComplete ==
  ASSUME KeptInv, KeptInv', NEW t \in Threads, Complete(t) PROVE Abstract!Finish
<1> DEFINE f == Target(t)
           whole == [id |-> event[t], whole |-> TRUE]
<1>1. files' = files /\ text' = [text EXCEPT ![f] = "all"] /\ pc[t] = "write"
  BY DEF Complete
<1>2. f = [idx |-> Size - 1, id |-> event[t]] /\ f \in files /\ Size \in Nat \ {0}
      /\ event[t] \in Events
  BY <1>1, TargetIsLast DEF File
<1>3. text'[f] = "all" /\ \A g \in files \ {f} : text'[g] = text[g]
  <2>1. text \in [files -> Texts] /\ f \in files
    BY <1>2 DEF KeptInv, Texted
  <2> HIDE DEF f
  <2> QED BY <1>1, <2>1
<1>4. HistoryShape /\ HistoryShape' /\ Size' = Size
  BY <1>1, HistoryIs, HistoryNext DEF Size
<1>5. History # <<>> /\ Len(History) = Size /\ History \in Seq(Entries)
  BY <1>2, <1>4 DEF HistoryShape
<1>6. whole \in Entries
  BY <1>2 DEF Entries
<1>7. History[Size].id = event[t] /\ History[Size] \in Entries
  <2>1. f.idx + 1 = Size /\ f.id = event[t] /\ f \in files
    BY <1>2
  <2> HIDE DEF f
  <2>2. History[Size] = [id |-> event[t], whole |-> text[f] = "all"]
    BY <1>4, <2>1 DEF HistoryShape
  <2> QED BY <1>2, <1>5, <2>2, EntryId, ElementOfSeq
<1>8. [History[Size] EXCEPT !.whole = TRUE] = whole
  <2> DEFINE last == History[Size]
  <2> HIDE DEF last
  <2>1. last \in Entries /\ last.id = event[t]
    BY <1>7 DEF last
  <2>2. /\ [last EXCEPT !.whole = TRUE] \in Entries
        /\ [last EXCEPT !.whole = TRUE].id = event[t]
        /\ [last EXCEPT !.whole = TRUE].whole = TRUE
    BY <2>1 DEF Entries
  <2>3. whole.id = event[t] /\ whole.whole = TRUE
    OBVIOUS
  <2> HIDE DEF whole
  <2>4. [last EXCEPT !.whole = TRUE] = whole
    BY <1>6, <2>2, <2>3, EntryEqual
  <2> QED BY <2>4 DEF last
<1>9. [History EXCEPT ![Len(History)].whole = TRUE] = [History EXCEPT ![Size] = whole]
  BY <1>5, <1>8
<1>10. ASSUME NEW n \in 1 .. Size PROVE History'[n] = [History EXCEPT ![Size] = whole][n]
  <2>1. PICK g \in files : n = g.idx + 1
    BY <1>4 DEF HistoryShape
  <2>2. History[n] = [id |-> g.id, whole |-> text[g] = "all"]
    BY <1>4, <2>1 DEF HistoryShape
  <2>3. History'[n] = [id |-> g.id, whole |-> text'[g] = "all"]
    BY <1>1, <1>4, <2>1 DEF HistoryShape
  <2>4. CASE g = f
    <3>1. n = Size /\ g.id = event[t] /\ (text'[g] = "all") = TRUE
      BY <1>2, <1>3, <2>1, <2>4
    <3>2. History'[n] = whole
      BY <2>3, <3>1
    <3> QED BY <1>5, <3>1, <3>2
  <2>5. CASE g # f
    <3>1. text'[g] = text[g] /\ g.idx # Size - 1
      BY <1>2, <1>3, <2>5 DEF KeptInv, LogInv, Contiguous
    <3>2. n # Size
      BY <1>2, <2>1, <3>1 DEF KeptInv, LogInv, Types
    <3> QED BY <1>5, <2>2, <2>3, <3>1, <3>2
  <2> QED BY <2>4, <2>5
<1>11. History' = [History EXCEPT ![Size] = whole]
  <2>1. [History EXCEPT ![Size] = whole] \in Seq(Entries)
        /\ Len([History EXCEPT ![Size] = whole]) = Size
    BY <1>2, <1>5, <1>6, ExceptSeq
  <2>2. History' \in Seq(Entries) /\ Len(History') = Size
    BY <1>4 DEF HistoryShape, Entries
  <2> HIDE DEF whole
  <2> QED BY <1>10, <2>1, <2>2, SeqEqual
<1> QED BY <1>5, <1>9, <1>11 DEF Abstract!Finish

\* Every step is a step of the abstract log, or none.
LEMMA RefinesStep ==
  ASSUME KeptInv, KeptInv', [Next]_vars PROVE [Abstract!Next]_History
<1>1. ASSUME UNCHANGED <<files, text>> PROVE UNCHANGED History
  BY <1>1, RefinesSame
<1>2. ASSUME NEW t \in Threads, Create(t) PROVE Abstract!Next
  BY <1>2, RefinesCreate, CreateIsNew DEF Abstract!Next
<1>3. ASSUME NEW t \in Threads, Complete(t) PROVE Abstract!Next
  BY <1>3, RefinesComplete DEF Abstract!Next
<1>4. ASSUME NEW t \in Threads, Flush(t) PROVE UNCHANGED History
  <2>1. files' = files /\ text' = [text EXCEPT ![Target(t)] = "part"] /\ text[Target(t)] = ""
    BY <1>4 DEF Flush
  <2>2. text \in [files -> Texts]
    BY DEF KeptInv, Texted
  <2>3. \A f \in files : (text'[f] = "all") = (text[f] = "all")
    BY <2>1, <2>2
  <2> QED BY <2>1, <2>3, RefinesSame
<1>5. ASSUME NEW t \in Threads,
             \/ Acquire(t) \/ Sync(t) \/ Refuse(t) \/ TimeOut(t) \/ WriteFails(t)
             \/ \E e \in Events : Call(t, e)
      PROVE  UNCHANGED History
  BY <1>1, <1>5 DEF Acquire, Sync, Refuse, TimeOut, WriteFails, Call, disk
<1>6. ASSUME NEW l \in Logs,
             Open(l) \/ Crash(l) \/ \E i \in 0 .. Cardinality(Events) : Read(l, i)
      PROVE  UNCHANGED History
  BY <1>1, <1>6 DEF Open, Crash, Read, disk
<1>7. CASE UNCHANGED vars
  BY <1>1, <1>7 DEF vars, disk
<1> QED BY <1>2, <1>3, <1>4, <1>5, <1>6, <1>7 DEF Next, Inside

\* As long as the log has room and no listing fails, the files of any number of processes are
\* one append-only log: an event gets the next place once, and an entry that is followed by
\* another never changes.
THEOREM FilesAreAppendOnly == ASSUME ~ ListFails PROVE Spec /\ []HasRoom => IsAppendOnly
<1>1. Spec /\ []HasRoom => Abstract!Init /\ [][Abstract!Next]_History
  BY RefinesInit, RefinesStep, KeptInvariant, PTL DEF Spec
<1> QED BY <1>1 DEF IsAppendOnly, Abstract!Spec
=============================================================================
