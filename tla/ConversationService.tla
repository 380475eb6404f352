-------------------------- MODULE ConversationService --------------------------
(***************************************************************************)
(* agent_server/conversation_service.py: the table of conversations and    *)
(* their directories, with the threads that run them, deletion, crashes    *)
(* and restarts, and a client that pages through the list.                 *)
(***************************************************************************)
EXTENDS Integers, FiniteSets, SequencesExt

CONSTANTS Ids, Titles, NoTitle,
          Reuse,        \* a client may start a conversation with an id used before
          TornWrites,   \* a crash may come in the middle of write_text
          RemoveFails,  \* rmtree may leave meta.json
          LoadFails,    \* a conversation may fail to load
          MaxCrashes    \* bound

ASSUME TitleAssumption == /\ NoTitle \notin Titles
                          /\ (Titles \cup {NoTitle}) \cap {"none", "torn", "gone"} = {}
ASSUME PageAssumption == {"first", "end"} \cap Ids = {}
ASSUME FaultAssumption == /\ {Reuse, TornWrites, RemoveFails, LoadFails} \subseteq BOOLEAN
                          /\ MaxCrashes \in Nat

VARIABLES active,    \* _event_services is not None
          table,     \* _event_services: id -> status and title in memory; "absent"
          running,   \* ids whose conversation in the table has a thread in run()
          orphans,   \* ids with a running thread of a conversation no longer in the table
          meta,      \* meta.json: "none", "torn" or the title
          dir,       \* the directory: "none", or the status in base_state.json
          deleting,  \* ids popped from the table, close() awaited
          acked,     \* what clients were told: "none", the title, "gone"
          created,   \* ids by created_at, newest first
          crashes,
          pager      \* the client: where it is, what it has seen

service == <<active, table, running, orphans, meta, dir, deleting, acked, created, crashes>>
vars == <<service, pager>>

Statuses == {"idle", "running", "error"}
Absent == [status |-> "absent", title |-> NoTitle]
Listed == {id \in Ids : table[id] # Absent}

-----------------------------------------------------------------------------
(* One conversation.                                                       *)

\* EventService.start: a conversation that was running when it was last written cannot be.
MutOpened(status) == IF status = "none" THEN "idle" ELSE status  \* mutant: it is not looked at
Opened(status) == CASE status = "none" -> "idle"
                    [] status = "running" -> "error"
                    [] OTHER -> status

Place(seq, id) == CHOOSE i \in DOMAIN seq : seq[i] = id
Without(seq, id) == IF id \in ToSet(seq) THEN RemoveAt(seq, Place(seq, id)) ELSE seq

\* start_conversation and _start_event_service: no await in them suspends.
Start(id) ==
  /\ active
  /\ table[id] = Absent
  /\ Reuse \/ acked[id] = "none"
  /\ table' = [table EXCEPT ![id] = [status |-> Opened(dir[id]), title |-> NoTitle]]
  /\ dir' = [dir EXCEPT ![id] = Opened(dir[id])]
  /\ meta' = [meta EXCEPT ![id] = NoTitle]
  /\ acked' = [acked EXCEPT ![id] = NoTitle]
  /\ created' = <<id>> \o Without(created, id)
  /\ UNCHANGED <<active, running, orphans, deleting, crashes, pager>>

\* The conversation raises, or the process dies before save_meta.
StartFails(id) ==
  /\ active
  /\ table[id] = Absent
  /\ Reuse \/ acked[id] = "none"
  /\ dir' = [dir EXCEPT ![id] = Opened(dir[id])]
  /\ UNCHANGED <<active, table, running, orphans, meta, deleting, acked, created, crashes, pager>>

\* run(), in a thread of the executor.
Run(id) ==
  /\ active
  /\ id \in Listed \ running
  /\ table' = [table EXCEPT ![id].status = "running"]
  /\ dir' = [dir EXCEPT ![id] = "running"]
  /\ running' = running \cup {id}
  /\ UNCHANGED <<active, orphans, meta, deleting, acked, created, crashes, pager>>
RunEnds(id) ==
  /\ id \in running
  /\ \E status \in {"idle", "error"} :
       /\ table' = [table EXCEPT ![id].status = status]
       /\ dir' = [dir EXCEPT ![id] = status]
  /\ running' = running \ {id}
  /\ UNCHANGED <<active, orphans, meta, deleting, acked, created, crashes, pager>>

\* The thread of a deleted conversation goes on writing: the file store makes directories.
OrphanWrites(id) ==
  /\ id \in orphans
  /\ \E status \in Statuses :
       /\ dir' = [dir EXCEPT ![id] = status]
       /\ orphans' = IF status = "running" THEN orphans ELSE orphans \ {id}
  /\ UNCHANGED <<active, table, running, meta, deleting, acked, created, crashes, pager>>

\* update_conversation; save_meta finds no directory when a deletion has removed it.
Update(id, title) ==
  /\ active
  /\ id \in Listed
  /\ table' = [table EXCEPT ![id].title = title]
  /\ IF dir[id] = "none"
     THEN UNCHANGED <<meta, acked>>
     ELSE /\ meta' = [meta EXCEPT ![id] = title]
          /\ acked' = [acked EXCEPT ![id] = title]
  /\ UNCHANGED <<active, running, orphans, dir, deleting, created, crashes, pager>>

\* delete_conversation, up to the await of close() ...
Delete(id) ==
  /\ active
  /\ id \in Listed
  /\ id \notin deleting \cup orphans  \* one deletion of an id at a time (bound)
  /\ table' = [table EXCEPT ![id] = Absent]
  /\ running' = running \ {id}
  /\ orphans' = orphans \cup (running \cap {id})
  /\ deleting' = deleting \cup {id}
  /\ UNCHANGED <<active, meta, dir, acked, created, crashes, pager>>
\* ... and after it.  rmtree does not report what it could not remove.
Deleted(id) ==
  /\ active
  /\ id \in deleting
  /\ deleting' = deleting \ {id}
  /\ \/ /\ dir' = [dir EXCEPT ![id] = "none"]
        /\ meta' = [meta EXCEPT ![id] = "none"]
     \/ /\ RemoveFails
        /\ UNCHANGED <<dir, meta>>
  /\ acked' = IF table[id] = Absent THEN [acked EXCEPT ![id] = "gone"] ELSE acked
  /\ UNCHANGED <<active, table, running, orphans, created, crashes, pager>>

-----------------------------------------------------------------------------
Idle == [page |-> "end", seen |-> <<>>, stable |-> {}]

(* The process.                                                            *)

Stopped == /\ active' = FALSE
           /\ table' = [id \in Ids |-> Absent]
           /\ running' = {}
           /\ orphans' = {}
           /\ deleting' = {}
           /\ pager' = Idle  \* the client's request fails

\* __aexit__: every service saves its metadata; the process ends when its threads have.
MutShutdown ==  \* mutant: the metadata is saved as it was given to start_conversation
  /\ active
  /\ running = {} /\ orphans = {}
  /\ crashes < MaxCrashes
  /\ crashes' = crashes + 1
  /\ meta' = [id \in Ids |-> IF id \in Listed /\ dir[id] # "none" THEN NoTitle ELSE meta[id]]
  /\ Stopped
  /\ UNCHANGED <<dir, acked, created>>
Shutdown ==
  /\ active
  /\ running = {} /\ orphans = {}
  /\ crashes < MaxCrashes
  /\ crashes' = crashes + 1
  /\ meta' = [id \in Ids |-> IF id \in Listed /\ dir[id] # "none" THEN table[id].title ELSE meta[id]]
  /\ Stopped
  /\ UNCHANGED <<dir, acked, created>>
\* In the middle of write_text the file is empty or cut.
Crash ==
  /\ active
  /\ crashes < MaxCrashes
  /\ crashes' = crashes + 1
  /\ \/ UNCHANGED meta
     \/ /\ TornWrites
        /\ \E id \in Listed : dir[id] # "none" /\ meta' = [meta EXCEPT ![id] = "torn"]
  /\ Stopped
  /\ UNCHANGED <<dir, acked, created>>

\* __aenter__: what cannot be read or opened is left out.
Restart ==
  /\ ~ active
  /\ active' = TRUE
  /\ \E failed \in IF LoadFails THEN SUBSET Ids ELSE {{}} :
       LET loaded == {id \in Ids \ failed : dir[id] # "none" /\ meta[id] \notin {"none", "torn"}}
       IN  /\ table' = [id \in Ids |-> IF id \in loaded
                                       THEN [status |-> Opened(dir[id]), title |-> meta[id]]
                                       ELSE Absent]
           /\ dir' = [id \in Ids |-> IF id \in loaded THEN Opened(dir[id]) ELSE dir[id]]
  /\ UNCHANGED <<running, orphans, meta, deleting, acked, created, crashes, pager>>

-----------------------------------------------------------------------------
(* search_conversations, newest first, one conversation a page.            *)

\* The places in `created` of what is listed.
List == {i \in DOMAIN created : created[i] \in Listed}
First(places) == CHOOSE i \in places : \A j \in places : i <= j
After(i) == {j \in List : j > i}

\* An unknown page id starts at the beginning.
MutStartIndex(page) ==  \* mutant: the page starts after the conversation it is named by
  IF page \in Listed /\ After(Place(created, page)) # {}
  THEN First(After(Place(created, page)))
  ELSE First(List)
StartIndex(page) == IF page \in Listed THEN Place(created, page) ELSE First(List)

BeginPaging ==
  /\ active /\ pager = Idle /\ crashes = 0  \* once (bound)
  /\ pager' = [page |-> "first", seen |-> <<>>, stable |-> Listed]
  /\ UNCHANGED service
GetPage ==
  /\ active /\ pager.page # "end"
  /\ Len(pager.seen) <= Cardinality(Ids)
  /\ LET i == StartIndex(pager.page)
         end == List = {} \/ After(i) = {}
     IN  pager' = [page |-> IF end THEN "end" ELSE created[First(After(i))],
                   seen |-> IF List = {} THEN pager.seen ELSE Append(pager.seen, created[i]),
                   stable |-> pager.stable \cap Listed]
  /\ UNCHANGED service

-----------------------------------------------------------------------------
Init == /\ active = TRUE
        /\ table = [id \in Ids |-> Absent]
        /\ running = {} /\ orphans = {} /\ deleting = {}
        /\ meta = [id \in Ids |-> "none"]
        /\ dir = [id \in Ids |-> "none"]
        /\ acked = [id \in Ids |-> "none"]
        /\ created = <<>>
        /\ crashes = 0
        /\ pager = Idle

Next == \/ \E id \in Ids : \/ Start(id) \/ StartFails(id) \/ Run(id) \/ RunEnds(id)
                           \/ OrphanWrites(id) \/ Delete(id) \/ Deleted(id)
                           \/ \E title \in Titles : Update(id, title)
        \/ Shutdown \/ Crash \/ Restart \/ BeginPaging \/ GetPage

Spec == Init /\ [][Next]_vars

-----------------------------------------------------------------------------
(* Properties.                                                             *)

TypeOK ==
  /\ active \in BOOLEAN
  /\ table \in [Ids -> [status : Statuses \cup {"absent"}, title : Titles \cup {NoTitle}]]
  /\ running \subseteq Ids /\ orphans \subseteq Ids /\ deleting \subseteq Ids
  /\ meta \in [Ids -> Titles \cup {NoTitle, "none", "torn"}]
  /\ dir \in [Ids -> Statuses \cup {"none"}]
  /\ acked \in [Ids -> Titles \cup {NoTitle, "none", "gone"}]
  /\ crashes \in 0 .. MaxCrashes

\* After a crash in the middle of a run and a restart no conversation says it is running
\* while no thread runs it: it would refuse every run() as "already running".
NoZombie == \A id \in Ids : table[id].status = "running" => id \in running

\* What was answered to clients is what a restart finds: the conversation with its last
\* title, or, once its deletion was answered, nothing.
AckedKept ==
  \A id \in Ids : id \notin deleting =>
    /\ acked[id] \in Titles \cup {NoTitle} => meta[id] = acked[id] /\ dir[id] # "none"
    /\ acked[id] = "gone" => meta[id] = "none"

\* The metadata on disk implements the promise of ConversationStore.
Promise == INSTANCE ConversationStore WITH
  store <- [id \in Ids |-> IF meta[id] = "none" /\ acked[id] # "none" THEN "gone" ELSE meta[id]]
KeepsPromise == Promise!Spec

\* A client that pages through the list sees each conversation that was there all the time,
\* once, while others are created.
Deletes == \E id \in Ids : acked[id] = "gone" \/ id \in deleting
PagesComplete ==
  pager.page = "end" /\ ~ Deletes =>
    /\ pager.stable \subseteq {pager.seen[i] : i \in DOMAIN pager.seen}
    /\ \A i, j \in DOMAIN pager.seen : pager.seen[i] = pager.seen[j] => i = j

-----------------------------------------------------------------------------
(* What does not hold.                                                     *)

\* "Permanently delete a conversation" (conversation_router.py:163): a thread that was
\* running makes the directory again.
DeletedIsGone == \A id \in Ids : acked[id] = "gone" => dir[id] = "none"

\* With a deletion between two pages the list starts again.
SeenOnce == \A i, j \in DOMAIN pager.seen : pager.seen[i] = pager.seen[j] => i = j
================================================================================
