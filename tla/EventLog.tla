------------------------------- MODULE EventLog -------------------------------
(***************************************************************************)
(* The persistent event log of a conversation (conversation/event_store.py *)
(* over io/local.py): one file per event, named by index and event id, and *)
(* any number of EventLog instances on the same directory, each with its   *)
(* own idea of the length, its own index and its own cache of file texts.  *)
(* append() runs under a file lock the instances share; opening a log and  *)
(* reading from it do not.  LocalFileStore.write is not atomic: it creates *)
(* the file, then fills it.                                                *)
(*                                                                         *)
(* A text is "" (created), "part" (some of it flushed) or "all".           *)
(***************************************************************************)
EXTENDS Naturals, FiniteSets, Sequences

CONSTANTS Logs,        \* EventLog instances, each in a process of its own
          Threads,     \* the threads that append
          Home,        \* the instance a thread appends through
          Events,      \* event ids
          IndexLimit,  \* first index EVENT_NAME_RE does not match (10^5: five digits)
          CacheLimit,  \* entries of a file cache (cache_limit_size)
          None,        \* no holder of the file lock, no event to append
          MaxFailures, \* bound: processes that die and writes that fail
          ListFails    \* listing the directory may fail

ASSUME EventLogAssumption ==
  /\ Home \in [Threads -> Logs]
  /\ None \notin Threads \cup Events
  /\ IndexLimit \in Nat /\ CacheLimit \in Nat \ {0} /\ MaxFailures \in Nat
  /\ ListFails \in BOOLEAN

VARIABLES files,     \* the event files on disk: [idx, id]
          text,      \* what each of them holds
          opened,    \* the instances that exist
          length,    \* `_length` of each
          idOf,      \* `_idx_to_id`
          indexOf,   \* `_id_to_idx`
          cache,     \* LocalFileStore.cache
          holder,    \* who holds .eventlog.lock
          pc,        \* where a thread is in append()
          event,     \* what it appends there
          failures,  \* deaths and failed writes so far (MaxFailures)
          acked      \* the events whose append() has returned

disk == <<files, text>>
memory == <<opened, length, idOf, indexOf, cache>>
callers == <<pc, event>>
vars == <<disk, memory, callers, holder, failures, acked>>

Files == [idx : Nat, id : Events]
Texts == {"", "part", "all"}
File(i, e) == [idx |-> i, id |-> e]

\* waiting: for the lock; scan: rebuilding the index of a log that is behind;
\* ready: in sync with the disk; write: its file exists
Places == {"idle", "waiting", "scan", "ready", "write"}

\* A partial function, as a dict is.
Dicts(K, V) == UNION {[D -> V] : D \in SUBSET K}

\* The dict d updated with the entries of u, and with one entry.
Updated(d, u) == [k \in DOMAIN d \cup DOMAIN u |-> IF k \in DOMAIN u THEN u[k] ELSE d[k]]
Put(d, k, v) == Updated(d, [x \in {k} |-> v])

TypeOK ==
  LET Indices == 0 .. Cardinality(Events)
  IN  /\ files \subseteq [idx : Indices, id : Events]
      /\ text \in [files -> Texts]
      /\ opened \subseteq Logs
      /\ length \in [Logs -> Indices]
      /\ idOf \in [Logs -> Dicts(Indices, Events)]
      /\ indexOf \in [Logs -> Dicts(Events, Indices)]
      /\ \A l \in Logs : /\ DOMAIN cache[l] \subseteq files
                         /\ \A f \in DOMAIN cache[l] : cache[l][f] \in Texts
                         /\ Cardinality(DOMAIN cache[l]) <= CacheLimit
      /\ holder \in Threads \cup {None}
      /\ pc \in [Threads -> Places]
      /\ event \in [Threads -> Events \cup {None}]
      /\ failures \in 0 .. MaxFailures
      /\ acked \subseteq Events

Init == /\ files = {} /\ text = <<>>
        /\ opened = {}
        /\ length = [l \in Logs |-> 0]
        /\ idOf = [l \in Logs |-> <<>>]
        /\ indexOf = [l \in Logs |-> <<>>]
        /\ cache = [l \in Logs |-> <<>>]
        /\ holder = None
        /\ pc = [t \in Threads |-> "idle"]
        /\ event = [t \in Threads |-> None]
        /\ failures = 0
        /\ acked = {}

-----------------------------------------------------------------------------
\* _scan_and_build_index: the file names that match, up to the first gap.  Of two
\* files with one index the directory order decides; any choice will do.
ByIdx == {f.idx : f \in {g \in files : g.idx < IndexLimit}}
Scanned == CHOOSE n \in 0 .. Cardinality(files) :
             n \notin ByIdx /\ 0 .. n - 1 \subseteq ByIdx
ScanIds == [i \in 0 .. Scanned - 1 |-> (CHOOSE f \in files : f.idx = i).id]

\* `_id_to_idx` as it follows from an `_idx_to_id`: the first occurrence counts.
Inverted(ids) ==
  [e \in {ids[i] : i \in DOMAIN ids} |->
     CHOOSE i \in DOMAIN ids : ids[i] = e /\ \A j \in DOMAIN ids : ids[j] = e => i <= j]

\* The cache c with the text x of file f, one old entry evicted when it is full.
Caches(c, f, x) ==
  {Put([g \in DOMAIN c \ gone |-> c[g]], f, x) :
     gone \in IF f \in DOMAIN c \/ Cardinality(DOMAIN c) < CacheLimit
              THEN {{}} ELSE {{g} : g \in DOMAIN c}}

\* What a listing of the directory comes to, or what an error comes to, which the code
\* takes for an empty directory.
Listed(found, nothing) == {found} \cup IF ListFails THEN {nothing} ELSE {}

\* EventLog.__init__ in a process that starts; no lock is taken.
Open(l) ==
  /\ l \notin opened
  /\ opened' = opened \cup {l}
  /\ \E scan \in Listed([n |-> Scanned, ids |-> ScanIds], [n |-> 0, ids |-> <<>>]) :
       /\ length' = [length EXCEPT ![l] = scan.n]
       /\ idOf' = [idOf EXCEPT ![l] = scan.ids]
       /\ indexOf' = [indexOf EXCEPT ![l] = Inverted(scan.ids)]
  /\ UNCHANGED <<disk, cache, callers, holder, failures, acked>>

-----------------------------------------------------------------------------
(* append() *)
Call(t, e) ==
  /\ pc[t] = "idle" /\ Home[t] \in opened
  /\ pc' = [pc EXCEPT ![t] = "waiting"]
  /\ event' = [event EXCEPT ![t] = e]
  /\ UNCHANGED <<disk, memory, holder, failures, acked>>

Return(t) == /\ pc' = [pc EXCEPT ![t] = "idle"]
             /\ event' = [event EXCEPT ![t] = None]

\* The lock was not free for LOCK_TIMEOUT_SECONDS: TimeoutError.
TimeOut(t) ==
  /\ pc[t] = "waiting" /\ holder # None
  /\ Return(t)
  /\ UNCHANGED <<disk, memory, holder, failures, acked>>

\* disk_length > self._length: another process has written.
MutBehind(l, n) == FALSE  \* mutant: the disk is not looked at
Behind(l, n) == n > length[l]

\* The lock is taken and the files are counted; a log that is behind rebuilds its index.
Acquire(t) ==
  /\ pc[t] = "waiting" /\ holder = None
  /\ holder' = t
  /\ \E n \in Listed(Cardinality(files), 0) :
       pc' = [pc EXCEPT ![t] = IF Behind(Home[t], n) THEN "scan" ELSE "ready"]
  /\ UNCHANGED <<disk, memory, event, failures, acked>>

\* What a reader finds in `_idx_to_id`: the scan clears it and refills it in place,
\* idOf is then the copy _sync_from_disk made.
Index(l) == IF \E t \in Threads : Home[t] = l /\ pc[t] = "scan" THEN <<>> ELSE idOf[l]

\* _sync_from_disk: what the scan found, and the old entries it did not find.  The
\* count is never below what a scan can find, so it is the new length.
Synced(l, ids) == Updated(idOf[l], ids)

Sync(t) ==
  LET l == Home[t]
  IN  /\ pc[t] = "scan"
      /\ pc' = [pc EXCEPT ![t] = "ready"]
      /\ length' = [length EXCEPT ![l] = Cardinality(files)]
      /\ \E ids \in Listed(ScanIds, <<>>) :
           /\ idOf' = [idOf EXCEPT ![l] = Synced(l, ids)]
           /\ indexOf' = [indexOf EXCEPT ![l] = Updated(Inverted(idOf[l]), Inverted(ids))]
      /\ UNCHANGED <<disk, opened, cache, event, holder, failures, acked>>

\* if evt_id in self._id_to_idx
MutDuplicate(l, e) == FALSE  \* mutant: ids are not checked
Duplicate(l, e) == e \in DOMAIN indexOf[l]

Leave(t) == Return(t) /\ holder' = None

\* ValueError: an event with this id exists.
Refuse(t) ==
  /\ pc[t] = "ready" /\ Duplicate(Home[t], event[t])
  /\ Leave(t)
  /\ UNCHANGED <<disk, memory, failures, acked>>

Target(t) == File(length[Home[t]], event[t])

\* LocalFileStore.write: open(full_path, "w") creates an empty file.
Create(t) ==
  /\ pc[t] = "ready" /\ ~ Duplicate(Home[t], event[t])
  /\ pc' = [pc EXCEPT ![t] = "write"]
  /\ files' = files \cup {Target(t)}
  /\ text' = Put(text, Target(t), "")
  /\ UNCHANGED <<memory, event, holder, failures, acked>>

\* A buffer of it reaches the disk.
Flush(t) ==
  /\ pc[t] = "write" /\ text[Target(t)] = ""
  /\ text' = [text EXCEPT ![Target(t)] = "part"]
  /\ UNCHANGED <<files, memory, callers, holder, failures, acked>>

\* The file is closed and cached, the index and the length follow.
Complete(t) ==
  LET l == Home[t]
  IN  /\ pc[t] = "write"
      /\ text' = [text EXCEPT ![Target(t)] = "all"]
      /\ \E c \in Caches(cache[l], Target(t), "all") : cache' = [cache EXCEPT ![l] = c]
      /\ idOf' = [idOf EXCEPT ![l] = Put(@, length[l], event[t])]
      /\ indexOf' = [indexOf EXCEPT ![l] = Put(@, event[t], length[l])]
      /\ length' = [length EXCEPT ![l] = @ + 1]
      /\ acked' = acked \cup {event[t]}
      /\ Leave(t)
      /\ UNCHANGED <<files, opened, failures>>

\* The write raises (the disk is full): what was written stays, the index and the
\* length do not follow.
WriteFails(t) ==
  /\ failures < MaxFailures
  /\ pc[t] = "write"
  /\ Leave(t)
  /\ failures' = failures + 1
  /\ UNCHANGED <<disk, memory, acked>>

-----------------------------------------------------------------------------
\* _get_single_item and __iter__ (any thread, no lock): the file `_path` names is
\* read through the cache, which also keeps an empty or incomplete text.
Lookup(l, f) == IF f \in DOMAIN cache[l] THEN cache[l][f] ELSE text[f]

Read(l, i) ==
  LET f == File(i, idOf[l][i])
  IN  /\ l \in opened /\ i < length[l] /\ i \in DOMAIN Index(l)
      /\ f \in files
      /\ \E c \in Caches(cache[l], f, Lookup(l, f)) : cache' = [cache EXCEPT ![l] = c]
      /\ UNCHANGED <<disk, opened, length, idOf, indexOf, callers, holder, failures, acked>>

\* The process of l dies; the system releases its file lock.
Crash(l) ==
  LET Mine == {t \in Threads : Home[t] = l}
  IN  /\ failures < MaxFailures
      /\ l \in opened
      /\ failures' = failures + 1
      /\ opened' = opened \ {l}
      /\ length' = [length EXCEPT ![l] = 0]
      /\ idOf' = [idOf EXCEPT ![l] = <<>>]
      /\ indexOf' = [indexOf EXCEPT ![l] = <<>>]
      /\ cache' = [cache EXCEPT ![l] = <<>>]
      /\ pc' = [t \in Threads |-> IF t \in Mine THEN "idle" ELSE pc[t]]
      /\ event' = [t \in Threads |-> IF t \in Mine THEN None ELSE event[t]]
      /\ holder' = IF holder \in Mine THEN None ELSE holder
      /\ UNCHANGED <<disk, acked>>

Inside(t) == Acquire(t) \/ Sync(t) \/ Refuse(t) \/ Create(t) \/ Flush(t) \/ Complete(t)

Next ==
  \/ \E l \in Logs : Open(l) \/ Crash(l) \/ \E i \in 0 .. Cardinality(Events) : Read(l, i)
  \/ \E t \in Threads : \/ \E e \in Events : Call(t, e)
                        \/ TimeOut(t) \/ WriteFails(t) \/ Inside(t)

Spec == Init /\ [][Next]_vars

\* The thread inside append() is scheduled and its system calls return.
FairSpec == Spec /\ \A t \in Threads : WF_vars(Inside(t))

-----------------------------------------------------------------------------
\* Appends through different instances never write two files with one index, and
\* the indices have no gap (the lock, the count and the sync of append()).
Contiguous == /\ \A f, g \in files : f.idx = g.idx => f = g
              /\ {f.idx : f \in files} = 0 .. Cardinality(files) - 1

\* Below its length, an instance that is not rebuilding its index finds in it the
\* event the disk has there, and the two dictionaries agree.
IndexMatchesDisk ==
  \A l \in opened : Index(l) = idOf[l] =>
    \A i \in 0 .. length[l] - 1 : /\ i \in DOMAIN idOf[l]
                                  /\ File(i, idOf[l][i]) \in files
                                  /\ indexOf[l][idOf[l][i]] = i

\* Every event whose append() returned is found, whole, by a process that opens the
\* log now, whatever other processes wrote, failed to write or died writing.
AckedKept == \A e \in acked : \E i \in DOMAIN ScanIds :
               ScanIds[i] = e /\ text[File(i, e)] = "all"

\* The files are an append-only log: an event gets the next place once, and after it
\* is followed by another its entry never changes.
History == [n \in 1 .. Cardinality(files) |->
              LET here == {f \in files : f.idx = n - 1}
                  f == CHOOSE g \in here : TRUE
              IN  IF here = {} THEN [id |-> None, whole |-> FALSE]
                  ELSE [id |-> f.id, whole |-> text[f] = "all"]]
Abstract == INSTANCE AppendOnlyLog WITH log <- History
IsAppendOnly == Abstract!Spec

\* The file lock is always given back: by a return, by a refusal, by a write that
\* fails or with the process.
LockIsFreed == \A t \in Threads : holder = t ~> holder # t

-----------------------------------------------------------------------------
(* What the repository says and the code does not do. *)

\* "This class provides thread-safe and process-safe event storage"
\* (event_store.py:26): what append() acknowledged, readers get.
AckedReadable ==
  \A l \in opened : \A i \in 0 .. length[l] - 1 :
    (i \in DOMAIN Index(l) /\ Index(l)[i] \in acked /\ File(i, Index(l)[i]) \in files)
      => Lookup(l, File(i, Index(l)[i])) = "all"

\* "can be accessed by index" (event_store.py:28): an index below the length has an
\* entry in `_idx_to_id` at any time.
Addressable == \A l \in opened : \A i \in 0 .. length[l] - 1 : i \in DOMAIN Index(l)

\* "The corrupted file should not be indexed" (test_event_store.py:175).
CorruptNotIndexed ==
  holder = None =>
    \A l \in opened : \A i \in DOMAIN Index(l) :
      File(i, Index(l)[i]) \in files => text[File(i, Index(l)[i])] # "part"
=============================================================================
