---------------------- MODULE ConversationServiceProofs ----------------------
(***************************************************************************)
(* Theorems about ConversationService, for any set of conversations, any   *)
(* titles and any number of crashes; and, at the end, about the cache of   *)
(* repositories its conversations load plugins from.                       *)
(***************************************************************************)
EXTENDS ConversationService, SequenceTheorems, TLAPS

Names == Titles \cup {NoTitle}

(***************************************************************************)
(* Typing and the absence of zombies are inductive together, whatever      *)
(* fails.                                                                  *)
(***************************************************************************)
ServiceInv == TypeOK /\ NoZombie

\* A conversation that is opened from its directory is not running.
LEMMA OpenedProperties ==
  \A s \in Statuses \cup {"none"} : Opened(s) \in {"idle", "error"}
BY DEF Opened, Statuses

\* What has an entry in the table is listed, and nothing else.
LEMMA ListedProperties ==
  ASSUME TypeOK
  PROVE  /\ Listed \subseteq Ids
         /\ \A id \in Ids : id \notin Listed => table[id] = Absent
         /\ \A id \in Ids : table[id].status # "absent" => id \in Listed
BY DEF Listed, Absent, TypeOK

\* The first invariant holds when the server starts.
LEMMA ServiceInvInit == Init => ServiceInv
BY FaultAssumption DEF Init, ServiceInv, TypeOK, NoZombie, Absent, Statuses

\* A conversation is created, or its run begins or ends.
LEMMA ConversationStep ==
  ASSUME ServiceInv, NEW id \in Ids,
         Start(id) \/ StartFails(id) \/ Run(id) \/ RunEnds(id)
  PROVE  ServiceInv'
<1> USE OpenedProperties DEF ServiceInv
<1>1. CASE Start(id)
  <2>1. table' = [table EXCEPT ![id] = [status |-> Opened(dir[id]), title |-> NoTitle]]
    BY <1>1 DEF Start
  <2>2. Opened(dir[id]) \in {"idle", "error"}
    BY DEF TypeOK
  <2>3. table' \in [Ids -> [status : Statuses \cup {"absent"}, title : Names]]
    BY <2>1, <2>2 DEF TypeOK, Statuses, Names
  <2>4. NoZombie'
    BY <1>1, <2>1, <2>2 DEF Start, TypeOK, NoZombie
  <2> QED BY <1>1, <2>2, <2>3, <2>4 DEF Start, TypeOK, Names, Statuses
<1>2. CASE StartFails(id)
  BY <1>2 DEF StartFails, TypeOK, NoZombie, Statuses
<1>3. CASE Run(id)
  BY <1>3 DEF Run, Listed, TypeOK, NoZombie, Statuses
<1>4. CASE RunEnds(id)
  <2>1. PICK status \in {"idle", "error"} :
          /\ table' = [table EXCEPT ![id].status = status]
          /\ dir' = [dir EXCEPT ![id] = status]
    BY <1>4 DEF RunEnds
  <2> QED BY <1>4, <2>1 DEF RunEnds, TypeOK, NoZombie, Statuses
<1> QED BY <1>1, <1>2, <1>3, <1>4

\* A conversation is updated or deleted, or written to behind its deletion.
LEMMA RemovalStep ==
  ASSUME ServiceInv, NEW id \in Ids,
         OrphanWrites(id) \/ Delete(id) \/ Deleted(id) \/ \E title \in Titles : Update(id, title)
  PROVE  ServiceInv'
<1> USE DEF ServiceInv
<1>1. CASE OrphanWrites(id)
  BY <1>1 DEF OrphanWrites, TypeOK, NoZombie
<1>2. CASE Delete(id)
  BY <1>2 DEF Delete, Absent, TypeOK, NoZombie
<1>3. CASE Deleted(id)
  <2>1. /\ dir' \in [Ids -> Statuses \cup {"none"}]
        /\ meta' \in [Ids -> Names \cup {"none", "torn"}]
    BY <1>3 DEF Deleted, TypeOK, Names
  <2>2. acked' \in [Ids -> Names \cup {"none", "gone"}]
    BY <1>3 DEF Deleted, TypeOK, Names
  <2> QED BY <1>3, <2>1, <2>2 DEF Deleted, TypeOK, NoZombie, Names
<1>4. ASSUME NEW title \in Titles, Update(id, title) PROVE ServiceInv'
  BY <1>4 DEF Update, TypeOK, NoZombie
<1> QED BY <1>1, <1>2, <1>3, <1>4

\* What a stop of the server leaves.
LEMMA StoppedKeeps ==
  ASSUME TypeOK, Stopped
  PROVE  /\ active' \in BOOLEAN /\ NoZombie'
         /\ table' \in [Ids -> [status : Statuses \cup {"absent"}, title : Names]]
         /\ running' \subseteq Ids /\ orphans' \subseteq Ids /\ deleting' \subseteq Ids
BY DEF Stopped, Absent, NoZombie, Names

\* The server starts, stops or crashes.
LEMMA ProcessStep ==
  ASSUME ServiceInv, Shutdown \/ Crash \/ Restart
  PROVE  ServiceInv'
<1> USE FaultAssumption DEF ServiceInv
<1>1. CASE Shutdown
  BY <1>1, StoppedKeeps DEF Shutdown, TypeOK, Names
<1>2. CASE Crash
  BY <1>2, StoppedKeeps DEF Crash, TypeOK, Names
<1>3. CASE Restart
  <2>1. PICK failed \in SUBSET Ids :
          LET loaded == {i \in Ids \ failed : dir[i] # "none" /\ meta[i] \notin {"none", "torn"}}
          IN  /\ table' = [i \in Ids |-> IF i \in loaded
                                         THEN [status |-> Opened(dir[i]), title |-> meta[i]]
                                         ELSE Absent]
              /\ dir' = [i \in Ids |-> IF i \in loaded THEN Opened(dir[i]) ELSE dir[i]]
    BY <1>3 DEF Restart
  <2>2. table' \in [Ids -> [status : Statuses \cup {"absent"}, title : Names]]
    BY <2>1, OpenedProperties DEF TypeOK, Absent, Statuses, Names
  <2>3. dir' \in [Ids -> Statuses \cup {"none"}]
    BY <2>1, OpenedProperties DEF TypeOK, Statuses
  <2>4. \A i \in Ids : table'[i].status # "running"
    BY <2>1, OpenedProperties DEF TypeOK, Absent
  <2> QED BY <1>3, <2>2, <2>3, <2>4 DEF Restart, TypeOK, NoZombie, Names
<1> QED BY <1>1, <1>2, <1>3

\* Every step keeps the first invariant.
LEMMA ServiceInvStep == ServiceInv /\ [Next]_vars => ServiceInv'
<1> SUFFICES ASSUME ServiceInv, [Next]_vars PROVE ServiceInv'
  OBVIOUS
<1>1. CASE BeginPaging \/ GetPage \/ UNCHANGED vars
  BY <1>1 DEF BeginPaging, GetPage, vars, service, ServiceInv, TypeOK, NoZombie
<1> QED BY <1>1, ConversationStep, RemovalStep, ProcessStep DEF Next

\* The first invariant holds always.
LEMMA ServiceInvariant == Spec => []ServiceInv
BY ServiceInvInit, ServiceInvStep, PTL DEF Spec

(***************************************************************************)
(* The promise to the clients.  It needs ids that are not used again,      *)
(* whole writes and removals that succeed; loading may fail, and the       *)
(* process may die at any other moment.  The metadata is a function of     *)
(* what was answered (MetaIsAcked); a listed conversation has a directory  *)
(* and the title on disk, so that the shutdown rewrites nothing            *)
(* (ListedIsSaved); what is being deleted was answered for and cannot be   *)
(* listed (DeletingIsUnlisted); nothing is listed while the process is     *)
(* down (DownIsEmpty).                                                     *)
(***************************************************************************)
Sound == ~ Reuse /\ ~ TornWrites /\ ~ RemoveFails

MetaIsAcked == \A id \in Ids : meta[id] = IF acked[id] \in Names THEN acked[id] ELSE "none"
ListedIsSaved == \A id \in Ids : table[id] # Absent =>
  /\ table[id].status # "absent"
  /\ acked[id] \in Names /\ table[id].title = acked[id]
  /\ dir[id] # "none"
AnsweredHasDir == \A id \in Ids : acked[id] \in Names => dir[id] # "none"
DeletingIsUnlisted == \A id \in deleting : table[id] = Absent /\ acked[id] \in Names
RunningIsListed == \A id \in running : table[id] # Absent
DownIsEmpty == ~ active => deleting = {} /\ running = {} /\ Listed = {}

StoreInv == /\ TypeOK /\ MetaIsAcked /\ ListedIsSaved /\ AnsweredHasDir
            /\ DeletingIsUnlisted /\ RunningIsListed /\ DownIsEmpty

\* The names of conversations are told from what marks their absence.
LEMMA NamesProperties ==
  /\ "none" \notin Names /\ "gone" \notin Names /\ "torn" \notin Names
  /\ Titles \subseteq Names /\ NoTitle \in Names
BY TitleAssumption DEF Names

\* The invariant of the refinement holds when the server starts.
LEMMA StoreInvInit == Init => StoreInv
<1> SUFFICES ASSUME Init PROVE StoreInv
  OBVIOUS
<1>1. TypeOK
  BY ServiceInvInit DEF ServiceInv
<1> QED
  BY <1>1, NamesProperties
     DEF Init, StoreInv, MetaIsAcked, ListedIsSaved, AnsweredHasDir, DeletingIsUnlisted,
         RunningIsListed, DownIsEmpty, Listed, Absent

\* The value ConversationStore is given.
Store == [id \in Ids |-> IF meta[id] = "none" /\ acked[id] # "none" THEN "gone" ELSE meta[id]]

\* A conversation is created, as the store sees it.
LEMMA StartStore ==
  ASSUME Sound, StoreInv, TypeOK', NEW id \in Ids, Start(id)
  PROVE  StoreInv' /\ Store[id] = "none" /\ Store' = [Store EXCEPT ![id] = NoTitle]
<1> USE NamesProperties DEF StoreInv
<1>1. acked[id] = "none" /\ meta[id] = "none"
  BY DEF Start, Sound, MetaIsAcked
<1>2. /\ table' = [table EXCEPT ![id] = [status |-> Opened(dir[id]), title |-> NoTitle]]
      /\ dir' = [dir EXCEPT ![id] = Opened(dir[id])]
      /\ meta' = [meta EXCEPT ![id] = NoTitle]
      /\ acked' = [acked EXCEPT ![id] = NoTitle]
      /\ active /\ UNCHANGED <<active, running, deleting>>
  BY DEF Start
<1>3. Opened(dir[id]) \in {"idle", "error"}
  BY OpenedProperties DEF TypeOK
<1>4. MetaIsAcked' /\ AnsweredHasDir'
  BY <1>2, <1>3 DEF TypeOK, MetaIsAcked, AnsweredHasDir
<1>5. ListedIsSaved'
  BY <1>2, <1>3 DEF TypeOK, ListedIsSaved, Absent
<1>6. DeletingIsUnlisted' /\ RunningIsListed' /\ DownIsEmpty'
  <2>1. id \notin deleting
    BY <1>1 DEF DeletingIsUnlisted
  <2>2. \A i \in Ids : i # id => table'[i] = table[i] /\ acked'[i] = acked[i]
    BY <1>2 DEF TypeOK
  <2>3. table'[id] # Absent
    BY <1>2, <1>3 DEF TypeOK, Absent
  <2>4. DeletingIsUnlisted'
    BY <1>2, <2>1, <2>2 DEF TypeOK, DeletingIsUnlisted
  <2>5. RunningIsListed'
    BY <1>2, <2>2, <2>3 DEF TypeOK, RunningIsListed
  <2>6. DownIsEmpty'
    <3>1. active'
      BY <1>2
    <3> QED BY <3>1 DEF DownIsEmpty
  <2> QED BY <2>4, <2>5, <2>6
<1>7. Store[id] = "none" /\ Store' = [Store EXCEPT ![id] = NoTitle]
  <2>1. Store[id] = "none"
    BY <1>1 DEF Store
  <2>2. meta'[id] = NoTitle /\ NoTitle # "none"
    BY <1>2 DEF TypeOK
  <2>3. \A i \in Ids : i # id => meta'[i] = meta[i] /\ acked'[i] = acked[i]
    BY <1>2 DEF TypeOK
  <2>4. \A i \in Ids : Store'[i] = IF i = id THEN NoTitle ELSE Store[i]
    BY <2>2, <2>3 DEF Store
  <2> QED BY <2>1, <2>4 DEF Store
<1> QED BY <1>4, <1>5, <1>6, <1>7

\* Neither a run nor a thread that outlives its conversation touches what was answered.
LEMMA RunStore ==
  ASSUME StoreInv, TypeOK', NEW id \in Ids,
         StartFails(id) \/ Run(id) \/ RunEnds(id) \/ OrphanWrites(id)
  PROVE  StoreInv' /\ Store' = Store
<1> USE NamesProperties DEF StoreInv
<1>1. /\ UNCHANGED <<active, meta, acked, deleting>>
      /\ \E status \in Statuses : dir' = [dir EXCEPT ![id] = status]
  BY OpenedProperties DEF StartFails, Run, RunEnds, OrphanWrites, Statuses, TypeOK
<1>2. \A i \in Ids : dir[i] # "none" => dir'[i] # "none"
  BY <1>1 DEF TypeOK, Statuses
<1>3. /\ \A i \in Ids : table'[i].title = table[i].title
      /\ \A i \in Ids : table'[i] = Absent <=> table[i] = Absent
      /\ \A i \in Ids : table[i] # Absent => table'[i].status # "absent"
      /\ running' \subseteq running \cup (Listed \cap {id})
  <2>1. CASE StartFails(id) \/ OrphanWrites(id)
    BY <2>1 DEF StartFails, OrphanWrites, ListedIsSaved
  <2>2. CASE Run(id)
    <3>1. id \in Listed /\ table[id] # Absent
      BY <2>2 DEF Run, Listed
    <3> QED BY <2>2, <3>1 DEF Run, TypeOK, ListedIsSaved, Absent
  <2>3. CASE RunEnds(id)
    <3>1. table[id] # Absent
      BY <2>3 DEF RunEnds, RunningIsListed
    <3> QED BY <2>3, <3>1 DEF RunEnds, TypeOK, ListedIsSaved, Absent
  <2> QED BY <2>1, <2>2, <2>3
<1>4. Listed' = Listed
  BY <1>3 DEF Listed
<1>5. DownIsEmpty'
  BY <1>1, <1>3, <1>4 DEF DownIsEmpty
<1>6. RunningIsListed' /\ DeletingIsUnlisted'
  BY <1>1, <1>3 DEF TypeOK, RunningIsListed, DeletingIsUnlisted, Listed
<1>7. MetaIsAcked' /\ AnsweredHasDir' /\ ListedIsSaved'
  BY <1>1, <1>2, <1>3 DEF MetaIsAcked, AnsweredHasDir, ListedIsSaved
<1> QED BY <1>1, <1>5, <1>6, <1>7 DEF Store

\* A title is changed, as the store sees it.
LEMMA UpdateStore ==
  ASSUME StoreInv, TypeOK', NEW id \in Ids, NEW title \in Titles, Update(id, title)
  PROVE  /\ StoreInv'
         /\ Store[id] \in Names /\ Store' = [Store EXCEPT ![id] = title]
<1> USE NamesProperties DEF StoreInv
<1>1. /\ active /\ table[id] # Absent /\ acked[id] \in Names /\ dir[id] # "none"
      /\ table[id].status # "absent"
  BY DEF Update, Listed, ListedIsSaved
<1>2. /\ table' = [table EXCEPT ![id].title = title]
      /\ meta' = [meta EXCEPT ![id] = title] /\ acked' = [acked EXCEPT ![id] = title]
      /\ UNCHANGED <<active, running, dir, deleting>>
  BY <1>1 DEF Update
<1>3. /\ table'[id].title = title /\ table'[id].status = table[id].status
      /\ table'[id] # Absent
      /\ \A i \in Ids : i # id => table'[i] = table[i]
  BY <1>1, <1>2 DEF TypeOK, Absent
<1>4. MetaIsAcked' /\ AnsweredHasDir'
  BY <1>1, <1>2 DEF TypeOK, MetaIsAcked, AnsweredHasDir
<1>5. ListedIsSaved'
  BY <1>1, <1>2, <1>3 DEF TypeOK, ListedIsSaved
<1>6. DeletingIsUnlisted' /\ RunningIsListed' /\ DownIsEmpty'
  BY <1>1, <1>2, <1>3 DEF TypeOK, DeletingIsUnlisted, RunningIsListed, DownIsEmpty
<1>7. Store[id] \in Names /\ Store' = [Store EXCEPT ![id] = title]
  BY <1>1, <1>2 DEF TypeOK, MetaIsAcked, Store
<1> QED BY <1>4, <1>5, <1>6, <1>7

\* A deletion that is asked for is nothing the store sees.
LEMMA DeleteStore ==
  ASSUME StoreInv, TypeOK', NEW id \in Ids, Delete(id)
  PROVE  StoreInv' /\ Store' = Store
<1> USE NamesProperties DEF StoreInv
<1>1. /\ table[id] # Absent /\ acked[id] \in Names
      /\ table' = [table EXCEPT ![id] = Absent]
      /\ running' = running \ {id} /\ deleting' = deleting \cup {id}
      /\ active /\ UNCHANGED <<active, meta, dir, acked>>
  BY DEF Delete, Listed, ListedIsSaved
<1>2. MetaIsAcked' /\ AnsweredHasDir' /\ ListedIsSaved'
  BY <1>1 DEF TypeOK, MetaIsAcked, AnsweredHasDir, ListedIsSaved
<1>3. DeletingIsUnlisted' /\ RunningIsListed' /\ DownIsEmpty'
  BY <1>1 DEF TypeOK, DeletingIsUnlisted, RunningIsListed, DownIsEmpty
<1> QED BY <1>1, <1>2, <1>3 DEF Store

\* A deletion has happened, as the store sees it.
LEMMA DeletedStore ==
  ASSUME Sound, StoreInv, TypeOK', NEW id \in Ids, Deleted(id)
  PROVE  /\ StoreInv'
         /\ Store[id] \in Names /\ Store' = [Store EXCEPT ![id] = "gone"]
<1> USE NamesProperties DEF StoreInv
<1>1. table[id] = Absent /\ acked[id] \in Names
  BY DEF Deleted, DeletingIsUnlisted
<1>2. /\ dir' = [dir EXCEPT ![id] = "none"] /\ meta' = [meta EXCEPT ![id] = "none"]
      /\ acked' = [acked EXCEPT ![id] = "gone"] /\ deleting' = deleting \ {id}
      /\ active /\ UNCHANGED <<active, table, running>>
  BY <1>1 DEF Deleted, Sound
<1>3. MetaIsAcked' /\ AnsweredHasDir' /\ ListedIsSaved'
  BY <1>1, <1>2 DEF TypeOK, MetaIsAcked, AnsweredHasDir, ListedIsSaved
<1>4. DeletingIsUnlisted' /\ RunningIsListed' /\ DownIsEmpty'
  BY <1>1, <1>2 DEF TypeOK, DeletingIsUnlisted, RunningIsListed, DownIsEmpty
<1>5. Store[id] \in Names /\ Store' = [Store EXCEPT ![id] = "gone"]
  BY <1>1, <1>2 DEF TypeOK, MetaIsAcked, Store
<1> QED BY <1>3, <1>4, <1>5

\* The end of the process, and a restart, do not show.
LEMMA ProcessStore ==
  ASSUME Sound, StoreInv, TypeOK', Shutdown \/ Crash \/ Restart
  PROVE  StoreInv' /\ Store' = Store
<1> USE NamesProperties DEF StoreInv
<1>1. CASE Shutdown \/ Crash
  <2>1. meta' = meta /\ UNCHANGED <<dir, acked>> /\ Stopped
    <3>1. CASE Shutdown
      <4>1. meta' = [i \in Ids |-> IF i \in Listed /\ dir[i] # "none"
                                   THEN table[i].title ELSE meta[i]]
        BY <3>1 DEF Shutdown
      <4>2. \A i \in Listed : table[i].title = meta[i]
        BY DEF Listed, ListedIsSaved, MetaIsAcked
      <4> QED BY <3>1, <4>1, <4>2 DEF Shutdown, TypeOK
    <3>2. CASE Crash
      BY <3>2 DEF Crash, Sound
    <3> QED BY <1>1, <3>1, <3>2
  <2>2. MetaIsAcked' /\ AnsweredHasDir' /\ ListedIsSaved'
    BY <2>1 DEF Stopped, TypeOK, MetaIsAcked, AnsweredHasDir, ListedIsSaved
  <2>3. DeletingIsUnlisted' /\ RunningIsListed' /\ DownIsEmpty'
    BY <2>1 DEF Stopped, TypeOK, Listed, DeletingIsUnlisted, RunningIsListed, DownIsEmpty
  <2> QED BY <2>1, <2>2, <2>3 DEF Store
<1>2. CASE Restart
  <2>1. PICK failed \in SUBSET Ids :
          LET loaded == {i \in Ids \ failed : dir[i] # "none" /\ meta[i] \notin {"none", "torn"}}
          IN  /\ table' = [i \in Ids |-> IF i \in loaded
                                         THEN [status |-> Opened(dir[i]), title |-> meta[i]]
                                         ELSE Absent]
              /\ dir' = [i \in Ids |-> IF i \in loaded THEN Opened(dir[i]) ELSE dir[i]]
    BY <1>2 DEF Restart
  <2>2. /\ active' /\ UNCHANGED <<meta, acked, deleting, running>>
        /\ deleting = {} /\ running = {}
    BY <1>2 DEF Restart, DownIsEmpty
  <2>3. \A i \in Ids : dir[i] # "none" => dir'[i] # "none"
    BY <2>1, OpenedProperties DEF TypeOK
  <2>4. MetaIsAcked' /\ AnsweredHasDir'
    BY <2>2, <2>3 DEF MetaIsAcked, AnsweredHasDir
  <2>5. ListedIsSaved'
    <3>1. SUFFICES ASSUME NEW i \in Ids, table'[i] # Absent
                   PROVE  /\ table'[i].status # "absent" /\ acked[i] \in Names
                          /\ table'[i].title = acked[i] /\ dir'[i] # "none"
      BY <2>2 DEF ListedIsSaved
    <3>2. dir[i] # "none" /\ meta[i] # "none"
          /\ table'[i] = [status |-> Opened(dir[i]), title |-> meta[i]]
      BY <2>1, <3>1
    <3> QED BY <2>3, <3>2, OpenedProperties DEF TypeOK, MetaIsAcked
  <2>6. DeletingIsUnlisted' /\ RunningIsListed' /\ DownIsEmpty'
    BY <2>2 DEF DeletingIsUnlisted, RunningIsListed, DownIsEmpty
  <2> QED BY <2>2, <2>4, <2>5, <2>6 DEF Store
<1> QED BY <1>1, <1>2

\* Every step is a step of the store, or none.
LEMMA StoreStep ==
  ASSUME Sound, StoreInv, ServiceInv, [Next]_vars
  PROVE  StoreInv' /\ [Promise!Next]_Store
<1> USE DEF Promise!Next, Promise!Create, Promise!Retitle, Promise!Remove, Names
<1>1. TypeOK'
  BY ServiceInvStep DEF ServiceInv
<1>2. CASE BeginPaging \/ GetPage \/ UNCHANGED vars
  <2>1. UNCHANGED service
    BY <1>2 DEF BeginPaging, GetPage, vars
  <2> QED
    BY <2>1 DEF service, StoreInv, TypeOK, MetaIsAcked, ListedIsSaved, AnsweredHasDir,
                DeletingIsUnlisted, RunningIsListed, DownIsEmpty, Listed, Store
<1>3. CASE Shutdown \/ Crash \/ Restart
  BY <1>1, <1>3, ProcessStore
<1>4. ASSUME NEW id \in Ids, Start(id) PROVE StoreInv' /\ Promise!Next
  BY <1>1, <1>4, StartStore DEF Store
<1>5. ASSUME NEW id \in Ids, StartFails(id) \/ Run(id) \/ RunEnds(id) \/ OrphanWrites(id)
      PROVE  StoreInv' /\ Store' = Store
  BY <1>1, <1>5, RunStore
<1>6. ASSUME NEW id \in Ids, Delete(id) PROVE StoreInv' /\ Store' = Store
  BY <1>1, <1>6, DeleteStore
<1>7. ASSUME NEW id \in Ids, Deleted(id) PROVE StoreInv' /\ Promise!Next
  BY <1>1, <1>7, DeletedStore DEF Store
<1>8. ASSUME NEW id \in Ids, NEW title \in Titles, Update(id, title)
      PROVE  StoreInv' /\ Promise!Next
  BY <1>1, <1>8, UpdateStore DEF Store
<1> QED BY <1>2, <1>3, <1>4, <1>5, <1>6, <1>7, <1>8 DEF Next

\* The invariant of the refinement holds always.
LEMMA StoreInvariant == Sound /\ Spec => [](StoreInv /\ ServiceInv)
<1> SUFFICES ASSUME Sound PROVE Spec => [](StoreInv /\ ServiceInv)
  BY DEF Sound
<1>1. (StoreInv /\ ServiceInv) /\ [Next]_vars => (StoreInv /\ ServiceInv)'
  BY StoreStep, ServiceInvStep
<1> QED BY <1>1, StoreInvInit, ServiceInvInit, PTL DEF Spec

-----------------------------------------------------------------------------
\* Every field keeps its type, whatever fails.
THEOREM ServiceTyped == Spec => []TypeOK
BY ServiceInvariant, PTL DEF ServiceInv

\* However often the process dies in the middle of runs, no conversation ever says that it
\* is running when no thread runs it (the status is corrected when it is opened).
THEOREM ServiceHasNoZombie == Spec => []NoZombie
BY ServiceInvariant, PTL DEF ServiceInv

\* What was answered is what is on disk.
THEOREM ServiceKeepsAcked == ~ Reuse /\ ~ TornWrites /\ ~ RemoveFails => (Spec => []AckedKept)
<1>1. StoreInv => AckedKept
  BY NamesProperties DEF StoreInv, MetaIsAcked, AnsweredHasDir, AckedKept, Names
<1> QED BY <1>1, StoreInvariant, PTL DEF Sound

\* The metadata on disk implements ConversationStore, through crashes, restarts and runs
\* that outlive their conversation.
THEOREM ServiceKeepsPromise == ~ Reuse /\ ~ TornWrites /\ ~ RemoveFails => (Spec => KeepsPromise)
<1> SUFFICES ASSUME Sound PROVE Spec => KeepsPromise
  BY DEF Sound
<1>1. Init => Promise!Init
  BY DEF Init, Promise!Init
<1>2. StoreInv /\ ServiceInv /\ [Next]_vars => [Promise!Next]_Store
  BY StoreStep
<1> QED BY <1>1, <1>2, StoreInvariant, PTL DEF Spec, KeepsPromise, Promise!Spec, Store

-----------------------------------------------------------------------------
(***************************************************************************)
(* Paging.  A client pages only before the process first ends; until then, *)
(* and as no id is used twice, `created` holds every conversation that was *)
(* answered for once, and all of them are listed but those withdrawn.      *)
(* While none is withdrawn the client has seen a contiguous piece of       *)
(* `created`, which grows at its front: what lies before the piece (the    *)
(* first k) was created after the client began.                            *)
(***************************************************************************)
Withdrawn(id) == acked[id] = "gone" \/ id \in deleting

CreatedOnce ==
  /\ active
  /\ created \in Seq(Ids) /\ IsInjective(created)
  /\ \A id \in Ids : acked[id] = "none" =>
       table[id] = Absent /\ id \notin deleting /\ id \notin ToSet(created)
  /\ \A id \in Ids : Withdrawn(id) => table[id] = Absent
  /\ \A id \in Ids : table[id] # Absent => id \in ToSet(created)
  /\ \A id \in ToSet(created) : table[id] # Absent \/ Withdrawn(id)
  /\ \A id \in running : table[id] # Absent

Segment(k) ==
  /\ k + Len(pager.seen) <= Len(created)
  /\ \A i \in 1 .. Len(pager.seen) : pager.seen[i] = created[k + i]
  /\ \A i \in 1 .. k : created[i] \notin pager.stable
  /\ pager.page = "first" => pager.seen = <<>>
  /\ pager.page = "end" => k + Len(pager.seen) = Len(created)
  /\ pager.page \notin {"first", "end"} =>
       /\ k + Len(pager.seen) < Len(created)
       /\ pager.page = created[k + Len(pager.seen) + 1]

Read == (\E k \in Nat : Segment(k)) /\ pager.stable \subseteq ToSet(created)

PagerType == pager \in [page : Ids \cup {"first", "end"}, seen : Seq(Ids), stable : SUBSET Ids]
PagerInv == pager # Idle => crashes = 0 /\ (~ Deletes => PagerType /\ Read)

PagesInv == (crashes = 0 => CreatedOnce) /\ PagerInv

\* Where no stop was counted, none has happened.
LEMMA CrashesCount ==
  ASSUME TypeOK, TypeOK', [Next]_vars, crashes' = 0
  PROVE  crashes = 0 /\ ~ (Shutdown \/ Crash)
<1>1. crashes \in Nat
  BY FaultAssumption DEF TypeOK
<1>2. ~ (Shutdown \/ Crash)
  BY <1>1 DEF Shutdown, Crash
<1>3. crashes' = crashes
  BY <1>2 DEF Next, Start, StartFails, Run, RunEnds, OrphanWrites, Delete, Deleted, Update,
              Restart, BeginPaging, GetPage, vars, service
<1> QED BY <1>2, <1>3

\* A conversation that starts goes to the front of `created`.
LEMMA FrontProperties ==
  ASSUME NEW S, NEW s \in Seq(S), NEW x \in S, x \notin ToSet(s), IsInjective(s)
  PROVE  /\ <<x>> \o s \in Seq(S) /\ IsInjective(<<x>> \o s)
         /\ ToSet(<<x>> \o s) = ToSet(s) \cup {x}
         /\ Len(<<x>> \o s) = Len(s) + 1 /\ Len(s) \in Nat
         /\ (<<x>> \o s)[1] = x
         /\ \A i \in 1 .. Len(s) : (<<x>> \o s)[i + 1] = s[i]
<1> DEFINE r == <<x>> \o s
<1>1. Len(s) \in Nat /\ DOMAIN s = 1 .. Len(s)
  OBVIOUS
<1>2. /\ r \in Seq(S) /\ Len(r) = Len(s) + 1 /\ r[1] = x
      /\ \A i \in 1 .. Len(s) : r[i + 1] = s[i]
  <2>1. <<x>> \in Seq(S) /\ Len(<<x>>) = 1 /\ <<x>>[1] = x
    OBVIOUS
  <2>2. /\ r \in Seq(S) /\ Len(r) = 1 + Len(s)
        /\ \A i \in 1 .. 1 + Len(s) : r[i] = IF i <= 1 THEN <<x>>[i] ELSE s[i - 1]
    BY <2>1, ConcatProperties
  <2> HIDE DEF r
  <2>3. r[1] = x
    BY <1>1, <2>1, <2>2
  <2>4. ASSUME NEW i \in 1 .. Len(s) PROVE r[i + 1] = s[i]
    <3>1. i + 1 \in 1 .. 1 + Len(s) /\ ~ (i + 1 <= 1) /\ (i + 1) - 1 = i
      BY <1>1
    <3>2. r[i + 1] = s[(i + 1) - 1]
      BY <2>2, <3>1
    <3> QED BY <3>1, <3>2
  <2> QED BY <1>1, <2>2, <2>3, <2>4
<1> HIDE DEF r
<1>3. DOMAIN r = 1 .. Len(s) + 1
  BY <1>2
<1>4. \A i \in 1 .. Len(s) + 1 : i = 1 \/ \E j \in 1 .. Len(s) : i = j + 1
  <2>1. ASSUME NEW i \in 1 .. Len(s) + 1, i # 1 PROVE i - 1 \in 1 .. Len(s) /\ i = (i - 1) + 1
    BY <1>1, <2>1
  <2> QED BY <2>1
<1>5. ToSet(r) = ToSet(s) \cup {x}
  <2>1. ToSet(r) \subseteq ToSet(s) \cup {x}
    BY <1>1, <1>2, <1>3, <1>4 DEF ToSet
  <2>2. x \in ToSet(r)
    BY <1>1, <1>2, <1>3 DEF ToSet
  <2>3. ASSUME NEW i \in 1 .. Len(s) PROVE s[i] \in ToSet(r)
    <3>1. i + 1 \in 1 .. Len(s) + 1
      BY <1>1
    <3> QED BY <1>2, <1>3, <3>1 DEF ToSet
  <2> QED BY <1>1, <2>1, <2>2, <2>3 DEF ToSet
<1>6. IsInjective(r)
  <2>1. \A i \in 1 .. Len(s) : r[i + 1] # x
    BY <1>1, <1>2 DEF ToSet
  <2>2. \A i, j \in 1 .. Len(s) : r[i + 1] = r[j + 1] => i = j
    BY <1>1, <1>2 DEF IsInjective
  <2> QED BY <1>2, <1>3, <1>4, <2>1, <2>2 DEF IsInjective
<1> QED BY <1>1, <1>2, <1>5, <1>6 DEF r

\* The first start of an id.
LEMMA StartIsNew ==
  ASSUME ~ Reuse, TypeOK, CreatedOnce, NEW id \in Ids, Start(id)
  PROVE  /\ created' = <<id>> \o created /\ id \notin ToSet(created)
         /\ acked[id] = "none" /\ acked' = [acked EXCEPT ![id] = NoTitle]
         /\ table' = [table EXCEPT ![id] = table'[id]] /\ table'[id] # Absent
         /\ UNCHANGED <<active, running, deleting, pager>>
<1>1. acked[id] = "none" /\ id \notin ToSet(created)
  BY DEF Start, CreatedOnce
<1>2. created' = <<id>> \o created
  BY <1>1 DEF Start, Without
<1>3. /\ table' = [table EXCEPT ![id] = [status |-> Opened(dir[id]), title |-> NoTitle]]
      /\ acked' = [acked EXCEPT ![id] = NoTitle] /\ UNCHANGED <<active, running, deleting, pager>>
  BY DEF Start
<1>4. Opened(dir[id]) \in {"idle", "error"}
  BY OpenedProperties DEF TypeOK
<1>5. table'[id] = [status |-> Opened(dir[id]), title |-> NoTitle] /\ table'[id] # Absent
  BY <1>3, <1>4 DEF TypeOK, Absent
<1> QED BY <1>1, <1>2, <1>3, <1>5

\* A conversation that is created was not created before.
LEMMA StartPages ==
  ASSUME ~ Reuse, TypeOK, CreatedOnce, NEW id \in Ids, Start(id) PROVE CreatedOnce'
<1> USE NamesProperties
<1>1. /\ created' \in Seq(Ids) /\ IsInjective(created') /\ ToSet(created') = ToSet(created) \cup {id}
  <2>1. created' = <<id>> \o created /\ id \notin ToSet(created)
    BY StartIsNew
  <2>2. created \in Seq(Ids) /\ IsInjective(created)
    BY DEF CreatedOnce
  <2> QED BY <2>1, <2>2, FrontProperties
<1>2. /\ acked'[id] = NoTitle /\ table'[id] # Absent /\ id \notin deleting'
      /\ \A i \in Ids \ {id} : acked'[i] = acked[i] /\ table'[i] = table[i]
      /\ UNCHANGED <<active, running, deleting>>
  <2>1. /\ acked[id] = "none" /\ acked' = [acked EXCEPT ![id] = NoTitle]
        /\ table' = [table EXCEPT ![id] = table'[id]] /\ table'[id] # Absent
        /\ UNCHANGED <<active, running, deleting>>
    BY StartIsNew
  <2>2. id \notin deleting
    BY <2>1 DEF CreatedOnce
  <2>3. DOMAIN acked = Ids /\ DOMAIN table = Ids
    BY DEF TypeOK
  <2>4. \A i \in Ids \ {id} : table'[i] = table[i]
    BY <2>1, <2>3
  <2> QED BY <2>1, <2>2, <2>3, <2>4
<1>3. ~ Withdrawn(id)'
  BY <1>2 DEF Withdrawn
<1>4. \A i \in Ids \ {id} : Withdrawn(i)' <=> Withdrawn(i)
  BY <1>2 DEF Withdrawn
<1>5. ToSet(created) \subseteq Ids /\ running \subseteq Ids
  BY DEF CreatedOnce, ToSet, TypeOK
<1>6. NoTitle # "none"
  OBVIOUS
<1> QED BY <1>1, <1>2, <1>3, <1>4, <1>5, <1>6 DEF CreatedOnce

\* A step that answers and withdraws nothing.
LEMMA CalmPages ==
  ASSUME CreatedOnce, UNCHANGED <<active, created, deleting>>,
         \A id \in Ids : /\ table'[id] = Absent <=> table[id] = Absent
                         /\ acked'[id] = "gone" <=> acked[id] = "gone"
                         /\ acked'[id] = "none" <=> acked[id] = "none",
         \A id \in running' : table'[id] # Absent
  PROVE  CreatedOnce'
<1>1. ToSet(created) \subseteq Ids
  BY DEF CreatedOnce, ToSet
<1>2. \A id \in Ids : Withdrawn(id)' <=> Withdrawn(id)
  BY DEF Withdrawn
<1> QED BY <1>1, <1>2 DEF CreatedOnce

\* A deletion creates nothing.
LEMMA DeletePages ==
  ASSUME TypeOK, CreatedOnce, NEW id \in Ids, Delete(id) \/ Deleted(id) PROVE CreatedOnce'
<1>1. CASE Delete(id)
  <2>1. /\ table' = [table EXCEPT ![id] = Absent] /\ deleting' = deleting \cup {id}
        /\ running' = running \ {id} /\ table[id] # Absent
        /\ UNCHANGED <<active, created, acked>>
    BY <1>1 DEF Delete, Listed
  <2>2. Withdrawn(id)' /\ \A i \in Ids \ {id} : Withdrawn(i)' <=> Withdrawn(i)
    BY <2>1 DEF Withdrawn
  <2>3. table'[id] = Absent /\ \A i \in Ids \ {id} : table'[i] = table[i]
    BY <2>1 DEF TypeOK
  <2>4. ToSet(created) \subseteq Ids /\ running \subseteq Ids
    BY DEF CreatedOnce, ToSet, TypeOK
  <2> QED BY <2>1, <2>2, <2>3, <2>4 DEF CreatedOnce
<1>2. CASE Deleted(id)
  <2>1. table[id] = Absent /\ acked[id] # "none" /\ id \in deleting
    BY <1>2 DEF Deleted, CreatedOnce, Withdrawn
  <2>2. /\ acked' = [acked EXCEPT ![id] = "gone"] /\ deleting' = deleting \ {id}
        /\ UNCHANGED <<active, created, table, running>>
    BY <1>2, <2>1 DEF Deleted
  <2>3. acked'[id] = "gone" /\ \A i \in Ids \ {id} : acked'[i] = acked[i]
    BY <2>2 DEF TypeOK
  <2>4. Withdrawn(id) /\ Withdrawn(id)' /\ \A i \in Ids \ {id} : Withdrawn(i)' <=> Withdrawn(i)
    BY <2>1, <2>2, <2>3 DEF Withdrawn
  <2>5. ToSet(created) \subseteq Ids
    BY DEF CreatedOnce, ToSet
  <2> QED BY <2>1, <2>2, <2>3, <2>4, <2>5 DEF CreatedOnce
<1> QED BY <1>1, <1>2

\* Every step keeps that a conversation is created once.
LEMMA CreatedOnceStep ==
  ASSUME ~ Reuse, TypeOK, TypeOK', [Next]_vars, crashes' = 0, CreatedOnce
  PROVE  CreatedOnce'
<1> USE NamesProperties
<1>1. ~ (Shutdown \/ Crash \/ Restart)
  BY CrashesCount DEF Restart, CreatedOnce
<1>2. ASSUME NEW id \in Ids, Start(id) \/ Delete(id) \/ Deleted(id) PROVE CreatedOnce'
  BY <1>2, StartPages, DeletePages
<1>3. ASSUME NEW id \in Ids, StartFails(id) \/ OrphanWrites(id) PROVE CreatedOnce'
  <2>1. UNCHANGED <<active, created, deleting, acked, table, running>>
    BY <1>3 DEF StartFails, OrphanWrites
  <2>2. \A i \in running : table[i] # Absent
    BY DEF CreatedOnce
  <2> QED BY <2>1, <2>2, CalmPages
<1>4. ASSUME NEW id \in Ids, Run(id) \/ RunEnds(id) PROVE CreatedOnce'
  <2>1. /\ UNCHANGED <<active, created, deleting, acked>> /\ running' \subseteq running \cup {id}
        /\ table[id] # Absent
    BY <1>4 DEF Run, RunEnds, Listed, CreatedOnce
  <2>2. PICK s \in Statuses : table' = [table EXCEPT ![id].status = s]
    BY <1>4 DEF Run, RunEnds, Statuses
  <2>3. table'[id].status = s /\ table'[id] # Absent
    BY <2>2 DEF TypeOK, Absent, Statuses
  <2>4. \A i \in Ids \ {id} : table'[i] = table[i]
    BY <2>2 DEF TypeOK
  <2>5. \A i \in running' : table'[i] # Absent
    BY <2>1, <2>3, <2>4 DEF TypeOK, CreatedOnce
  <2> QED BY <2>1, <2>3, <2>4, <2>5, CalmPages
<1>5. ASSUME NEW id \in Ids, NEW title \in Titles, Update(id, title) PROVE CreatedOnce'
  <2>1. /\ UNCHANGED <<active, created, deleting, running>> /\ table[id] # Absent
        /\ table' = [table EXCEPT ![id].title = title]
        /\ acked' = [acked EXCEPT ![id] = title] \/ acked' = acked
    BY <1>5 DEF Update, Listed
  <2>2. table'[id].title = title /\ title # NoTitle /\ title # "gone" /\ title # "none"
    BY <2>1, TitleAssumption DEF TypeOK
  <2>3. table'[id] # Absent /\ \A i \in Ids \ {id} : table'[i] = table[i]
    BY <2>1, <2>2 DEF TypeOK, Absent
  <2>4. acked[id] # "none" /\ acked[id] # "gone"
    BY <2>1 DEF CreatedOnce, Withdrawn
  <2>5. /\ acked'[id] # "none" /\ acked'[id] # "gone"
        /\ \A i \in Ids \ {id} : acked'[i] = acked[i]
    BY <2>1, <2>2, <2>4 DEF TypeOK
  <2>6. \A i \in running' : table'[i] # Absent
    BY <2>1, <2>3 DEF TypeOK, CreatedOnce
  <2> QED BY <2>1, <2>3, <2>4, <2>5, <2>6, CalmPages
<1>6. CASE BeginPaging \/ GetPage \/ UNCHANGED vars
  <2>1. UNCHANGED <<active, created, deleting, acked, table, running>>
    BY <1>6 DEF BeginPaging, GetPage, vars, service
  <2>2. \A i \in running : table[i] # Absent
    BY DEF CreatedOnce
  <2> QED BY <2>1, <2>2, CalmPages
<1> QED BY <1>1, <1>2, <1>3, <1>4, <1>5, <1>6 DEF Next

\* What was withdrawn stays withdrawn.
LEMMA DeletesStay ==
  ASSUME ~ Reuse, TypeOK, TypeOK', [Next]_vars, crashes' = 0, CreatedOnce, ~ Deletes'
  PROVE  ~ Deletes
<1> USE NamesProperties
<1>1. ~ (Shutdown \/ Crash \/ Restart)
  BY CrashesCount DEF Restart, CreatedOnce
<1>2. ASSUME NEW i \in Ids, Withdrawn(i) PROVE Withdrawn(i)'
  <2>1. table[i] = Absent /\ acked[i] # "none" /\ DOMAIN acked = Ids
    BY <1>2 DEF CreatedOnce, Withdrawn, TypeOK
  <2>2. ASSUME NEW id \in Ids, Start(id) PROVE Withdrawn(i)'
    <3>1. id # i /\ acked' = [acked EXCEPT ![id] = NoTitle] /\ deleting' = deleting
      BY <2>1, <2>2, StartIsNew
    <3> QED BY <1>2, <2>1, <3>1 DEF Withdrawn
  <2>3. ASSUME NEW id \in Ids, NEW title \in Titles, Update(id, title) PROVE Withdrawn(i)'
    <3>1. id # i /\ deleting' = deleting
          /\ (acked' = [acked EXCEPT ![id] = title] \/ acked' = acked)
      BY <2>1, <2>3 DEF Update, Listed
    <3> QED BY <1>2, <2>1, <3>1 DEF Withdrawn
  <2>4. ASSUME NEW id \in Ids, Deleted(id) PROVE Withdrawn(i)'
    <3>1. /\ deleting' = deleting \ {id}
          /\ acked' = IF table[id] = Absent THEN [acked EXCEPT ![id] = "gone"] ELSE acked
      BY <2>4 DEF Deleted
    <3>2. CASE id = i
      BY <2>1, <3>1, <3>2 DEF Withdrawn
    <3>3. CASE id # i
      BY <1>2, <2>1, <3>1, <3>3 DEF Withdrawn
    <3> QED BY <3>2, <3>3
  <2>5. ASSUME NEW id \in Ids,
               StartFails(id) \/ Run(id) \/ RunEnds(id) \/ OrphanWrites(id) \/ Delete(id)
        PROVE  Withdrawn(i)'
    <3>1. acked' = acked /\ deleting \subseteq deleting'
      BY <2>5 DEF StartFails, Run, RunEnds, OrphanWrites, Delete
    <3> QED BY <1>2, <3>1 DEF Withdrawn
  <2>6. CASE BeginPaging \/ GetPage \/ UNCHANGED vars
    <3>1. acked' = acked /\ deleting = deleting'
      BY <2>6 DEF BeginPaging, GetPage, vars, service
    <3> QED BY <1>2, <3>1 DEF Withdrawn
  <2> QED BY <1>1, <2>2, <2>3, <2>4, <2>5, <2>6 DEF Next
<1> QED BY <1>2 DEF Deletes, Withdrawn

\* While nothing is withdrawn, the list is all of `created`.
LEMMA ListIsCreated ==
  ASSUME CreatedOnce, ~ Deletes
  PROVE  /\ created \in Seq(Ids) /\ Len(created) \in Nat
         /\ List = 1 .. Len(created)
         /\ \A i \in 1 .. Len(created) : /\ created[i] \in Listed
                                         /\ Place(created, created[i]) = i
         /\ Listed \subseteq ToSet(created)
<1>1. /\ created \in Seq(Ids) /\ Len(created) \in Nat /\ DOMAIN created = 1 .. Len(created)
  BY DEF CreatedOnce
<1>2. ASSUME NEW i \in 1 .. Len(created)
      PROVE  created[i] \in Listed /\ Place(created, created[i]) = i
  <2>1. created[i] \in Ids /\ created[i] \in ToSet(created)
    BY <1>1 DEF ToSet
  <2>2. table[created[i]] # Absent
    BY <2>1 DEF CreatedOnce, Withdrawn, Deletes
  <2>3. \A j \in DOMAIN created : created[j] = created[i] => j = i
    BY <1>1 DEF CreatedOnce, IsInjective
  <2> QED BY <1>1, <2>1, <2>2, <2>3 DEF Listed, Place
<1> QED BY <1>1, <1>2 DEF List, Listed, CreatedOnce

\* A conversation that starts is before everything the client has seen and will see.
LEMMA StartRead ==
  ASSUME ~ Reuse, TypeOK, CreatedOnce, PagerType, Read, NEW id \in Ids, Start(id)
  PROVE  Read'
<1>1. /\ created' = <<id>> \o created /\ id \notin ToSet(created) /\ pager' = pager
  BY StartIsNew
<1>2. created \in Seq(Ids) /\ IsInjective(created)
  BY DEF CreatedOnce
<1>3. /\ ToSet(created') = ToSet(created) \cup {id}
      /\ Len(created') = Len(created) + 1 /\ Len(created) \in Nat /\ created'[1] = id
      /\ \A i \in 1 .. Len(created) : created'[i + 1] = created[i]
  BY <1>1, <1>2, FrontProperties
<1> DEFINE n == Len(pager.seen)
<1>4. PICK k \in Nat : Segment(k)
  BY DEF Read
<1>5. n \in Nat
  BY DEF PagerType
<1>6. id \notin pager.stable /\ pager.stable \subseteq ToSet(created')
  BY <1>1, <1>3 DEF Read
<1>7. /\ k + n <= Len(created)
      /\ \A i \in 1 .. n : pager.seen[i] = created[k + i]
      /\ \A i \in 1 .. k : created[i] \notin pager.stable
      /\ pager.page = "first" => pager.seen = <<>>
      /\ pager.page = "end" => k + n = Len(created)
      /\ pager.page \notin {"first", "end"} =>
           k + n < Len(created) /\ pager.page = created[k + n + 1]
  BY <1>4 DEF Segment
<1> HIDE DEF n
<1>8. \A i \in 1 .. n : pager.seen[i] = created'[(k + 1) + i]
  <2>1. ASSUME NEW i \in 1 .. n PROVE pager.seen[i] = created'[(k + 1) + i]
    <3>1. k + i \in 1 .. Len(created) /\ (k + 1) + i = (k + i) + 1
      BY <1>3, <1>5, <1>7
    <3>2. pager.seen[i] = created[k + i]
      BY <1>7
    <3>3. created'[(k + i) + 1] = created[k + i]
      BY <1>3, <3>1
    <3> QED BY <3>1, <3>2, <3>3
  <2> QED BY <2>1
<1>9. \A i \in 1 .. k + 1 : created'[i] \notin pager.stable
  <2>1. ASSUME NEW i \in 1 .. k + 1, i # 1 PROVE created'[i] \notin pager.stable
    <3>1. i - 1 \in 1 .. k /\ i - 1 \in 1 .. Len(created) /\ i = (i - 1) + 1
      BY <1>3, <1>5, <1>7, <2>1
    <3>2. created'[(i - 1) + 1] = created[i - 1] /\ created[i - 1] \notin pager.stable
      BY <1>3, <1>7, <3>1
    <3> QED BY <3>1, <3>2
  <2> QED BY <1>3, <1>6, <2>1
<1>10. ASSUME pager.page \notin {"first", "end"}
       PROVE  (k + 1) + n < Len(created') /\ pager.page = created'[(k + 1) + n + 1]
  <2>1. k + n < Len(created) /\ pager.page = created[k + n + 1]
    BY <1>7, <1>10
  <2>2. k + n + 1 \in 1 .. Len(created) /\ (k + n + 1) + 1 = (k + 1) + n + 1
    BY <1>3, <1>5, <2>1
  <2>3. created'[(k + n + 1) + 1] = pager.page
    BY <1>3, <2>1, <2>2
  <2>4. (k + 1) + n < Len(created')
    BY <1>3, <1>5, <2>1
  <2> QED BY <2>2, <2>3, <2>4
<1>11. /\ pager.page = "end" => (k + 1) + n = Len(created')
       /\ (k + 1) + n <= Len(created')
  BY <1>3, <1>5, <1>7
<1>12. Segment(k + 1)'
  BY <1>1, <1>7, <1>8, <1>9, <1>10, <1>11 DEF Segment, n
<1>13. k + 1 \in Nat
  OBVIOUS
<1> QED BY <1>1, <1>6, <1>12, <1>13 DEF Read

\* A client that begins has read all up to where it is: nothing.
LEMMA BeginRead ==
  ASSUME CreatedOnce, TypeOK, BeginPaging
  PROVE  PagerType' /\ Read'
<1>1. pager' = [page |-> "first", seen |-> <<>>, stable |-> Listed] /\ created' = created
  BY DEF BeginPaging, service
<1>2. Listed \subseteq Ids /\ Listed \subseteq ToSet(created)
  BY DEF Listed, CreatedOnce
<1>3. pager'.page = "first" /\ pager'.seen = <<>> /\ Len(pager'.seen) = 0 /\ pager'.stable = Listed
  BY <1>1
<1>4. Len(created) \in Nat
  BY DEF CreatedOnce
<1>5. Segment(0)'
  BY <1>1, <1>3, <1>4 DEF Segment
<1>6. <<>> \in Seq(Ids)
  OBVIOUS
<1> QED BY <1>1, <1>2, <1>3, <1>5, <1>6 DEF PagerType, Read

\* A page continues where the last one ended.
LEMMA PageRead ==
  ASSUME CreatedOnce, TypeOK, PagerType, Read, ~ Deletes, GetPage
  PROVE  PagerType' /\ Read'
<1> DEFINE n == Len(pager.seen)
<1>1. /\ created \in Seq(Ids) /\ Len(created) \in Nat /\ List = 1 .. Len(created)
      /\ \A i \in 1 .. Len(created) : created[i] \in Listed /\ Place(created, created[i]) = i
  BY ListIsCreated
<1>2. pager.seen \in Seq(Ids) /\ n \in Nat /\ pager.stable \subseteq ToSet(created)
      /\ pager.page \in Ids \cup {"first", "end"} /\ pager.stable \subseteq Ids
  BY DEF PagerType, Read
<1>3. pager.page # "end" /\ created' = created
  BY DEF GetPage, service
<1>4. /\ pager'.stable = pager.stable \cap Listed
      /\ List = {} => pager'.page = "end" /\ pager'.seen = pager.seen
      /\ List # {} =>
           /\ pager'.seen = Append(pager.seen, created[StartIndex(pager.page)])
           /\ pager'.page = IF After(StartIndex(pager.page)) = {} THEN "end"
                            ELSE created[First(After(StartIndex(pager.page)))]
      /\ pager' = [page |-> pager'.page, seen |-> pager'.seen, stable |-> pager'.stable]
  BY DEF GetPage
<1>5. pager'.stable \subseteq ToSet(created) /\ pager'.stable \subseteq pager.stable
  BY <1>2, <1>4
<1> HIDE DEF n
<1>6. CASE List = {}
  <2>1. Len(created) = 0
    BY <1>1, <1>6
  <2>2. PICK k \in Nat : Segment(k)
    BY DEF Read
  <2>3. n = 0 /\ k = 0 /\ k + n = Len(created)
    BY <1>2, <2>1, <2>2 DEF Segment, n
  <2>4. Segment(0)'
    BY <1>3, <1>4, <1>6, <2>1, <2>3 DEF Segment, n
  <2> QED BY <1>2, <1>3, <1>4, <1>5, <1>6, <2>4 DEF PagerType, Read
<1>7. CASE List # {}
  <2>1. PICK k \in Nat : /\ k + n + 1 <= Len(created) /\ StartIndex(pager.page) = k + n + 1
                         /\ \A i \in 1 .. n : pager.seen[i] = created[k + i]
                         /\ \A i \in 1 .. k : created[i] \notin pager.stable
    <3>1. CASE pager.page = "first"
      <4>1. n = 0
        BY <3>1 DEF Read, Segment, n
      <4>2. 1 \in 1 .. Len(created)
        BY <1>1, <1>7
      <4>3. First(List) = 1
        BY <1>1, <4>2 DEF First
      <4>4. pager.page \notin Listed
        BY <3>1, PageAssumption DEF Listed
      <4>5. StartIndex(pager.page) = 1
        BY <4>3, <4>4 DEF StartIndex
      <4>6. 0 + n + 1 <= Len(created) /\ StartIndex(pager.page) = 0 + n + 1
        BY <1>1, <4>1, <4>2, <4>5
      <4> QED BY <4>1, <4>6
    <3>2. CASE pager.page # "first"
      <4>1. PICK k \in Nat : Segment(k)
        BY DEF Read
      <4>2. k + n < Len(created) /\ pager.page = created[k + n + 1]
        BY <1>3, <3>2, <4>1 DEF Segment, n
      <4>3. k + n + 1 \in 1 .. Len(created) /\ k + n + 1 <= Len(created)
        BY <1>1, <1>2, <4>2
      <4>4. StartIndex(pager.page) = k + n + 1
        BY <1>1, <4>2, <4>3 DEF StartIndex
      <4> QED BY <4>1, <4>3, <4>4 DEF Segment, n
    <3> QED BY <3>1, <3>2
  <2> DEFINE i == k + n + 1
  <2>2. i \in 1 .. Len(created) /\ i \in Nat
    BY <1>1, <1>2, <2>1
  <2>3. After(i) = {j \in 1 .. Len(created) : j > i}
    BY <1>1 DEF After
  <2>4. i < Len(created) => First(After(i)) = i + 1 /\ After(i) # {}
    <3>1. SUFFICES ASSUME i < Len(created) PROVE First(After(i)) = i + 1 /\ After(i) # {}
      OBVIOUS
    <3>2. i + 1 \in After(i) /\ \A j \in After(i) : i + 1 <= j
      BY <1>1, <2>2, <2>3, <3>1
    <3>3. \A j \in After(i) : (\A m \in After(i) : j <= m) => j = i + 1
      BY <1>1, <2>2, <2>3, <3>2
    <3> QED BY <3>2, <3>3 DEF First
  <2>5. i = Len(created) => After(i) = {}
    BY <1>1, <2>2, <2>3
  <2>6. StartIndex(pager.page) = i
    BY <2>1
  <2>7. pager'.seen = Append(pager.seen, created[i])
    BY <1>4, <1>7, <2>6
  <2>8. pager'.page = IF i = Len(created) THEN "end" ELSE created[i + 1]
    BY <1>1, <1>4, <1>7, <2>2, <2>4, <2>5, <2>6
  <2>9. created[i] \in Ids /\ (i < Len(created) => created[i + 1] \in Ids)
    BY <1>1, <2>2
  <2>10. /\ pager'.seen \in Seq(Ids) /\ Len(pager'.seen) = n + 1
         /\ \A j \in 1 .. n : pager'.seen[j] = pager.seen[j]
         /\ pager'.seen[n + 1] = created[i]
    BY <1>2, <2>7, <2>9, AppendProperties DEF n
  <2>11. \A j \in 1 .. n + 1 : pager'.seen[j] = created[k + j]
    <3>1. ASSUME NEW j \in 1 .. n + 1 PROVE pager'.seen[j] = created[k + j]
      <4>1. CASE j = n + 1
        <5>1. k + j = i
          BY <1>2, <4>1
        <5> QED BY <2>10, <4>1, <5>1
      <4>2. CASE j # n + 1
        <5>1. j \in 1 .. n
          BY <1>2, <4>2
        <5> QED BY <2>1, <2>10, <5>1
      <4> QED BY <4>1, <4>2
    <3> QED BY <3>1
  <2>12. /\ pager'.page = "first" => FALSE
         /\ pager'.page = "end" => i = Len(created)
         /\ pager'.page \notin {"first", "end"} => i < Len(created) /\ pager'.page = created[i + 1]
         /\ pager'.page \in Ids \cup {"first", "end"}
    BY <1>1, <2>2, <2>8, <2>9, PageAssumption
  <2>13. Segment(k)'
    <3>1. k + Len(pager'.seen) = i
      BY <1>2, <2>10
    <3>2. \A j \in 1 .. k : created[j] \notin pager'.stable
      BY <1>5, <2>1
    <3> HIDE DEF i
    <3>3. i <= Len(created)
      BY <2>2, <1>1
    <3> QED BY <1>3, <2>10, <2>11, <2>12, <3>1, <3>2, <3>3 DEF Segment
  <2>14. PagerType'
    BY <1>2, <1>4, <2>10, <2>12 DEF PagerType
  <2> QED BY <1>3, <1>5, <2>13, <2>14 DEF Read
<1> QED BY <1>6, <1>7

\* Every step keeps what the client that pages has read.
LEMMA PagerStep ==
  ASSUME ~ Reuse, TypeOK, TypeOK', [Next]_vars, PagesInv PROVE PagerInv'
<1>1. CASE Shutdown \/ Crash
  BY <1>1 DEF Shutdown, Crash, Stopped, PagerInv
<1>2. CASE BeginPaging
  <2>1. crashes = 0 /\ crashes' = 0 /\ CreatedOnce
    BY <1>2 DEF BeginPaging, service, PagesInv
  <2> QED BY <1>2, <2>1, BeginRead DEF PagerInv
<1>3. CASE GetPage
  <2>1. /\ pager # Idle /\ crashes' = crashes /\ acked' = acked /\ deleting' = deleting
    BY <1>3 DEF GetPage, service, Idle
  <2>2. crashes = 0 /\ CreatedOnce /\ (~ Deletes => PagerType /\ Read)
    BY <2>1 DEF PagesInv, PagerInv
  <2>3. Deletes' <=> Deletes
    BY <2>1 DEF Deletes
  <2> QED BY <1>3, <2>1, <2>2, <2>3, PageRead DEF PagerInv
\* The other steps leave the pager alone.
<1>4. ASSUME pager' = pager, crashes' = crashes,
             pager # Idle /\ crashes = 0 /\ CreatedOnce /\ ~ Deletes /\ PagerType /\ Read => Read'
      PROVE  PagerInv'
  <2>1. CASE pager = Idle
    BY <1>4, <2>1 DEF PagerInv, Idle
  <2>2. CASE pager # Idle
    <3>1. crashes = 0 /\ CreatedOnce /\ (~ Deletes => PagerType /\ Read)
      BY <2>2 DEF PagesInv, PagerInv
    <3>2. ~ Deletes' => ~ Deletes
      BY <1>4, <3>1, DeletesStay
    <3> QED BY <1>4, <2>2, <3>1, <3>2 DEF PagerInv, PagerType
  <2> QED BY <2>1, <2>2
<1>5. ASSUME NEW id \in Ids, Start(id) PROVE PagerInv'
  <2>1. pager' = pager /\ crashes' = crashes
    BY <1>5 DEF Start
  <2> QED BY <1>4, <1>5, <2>1, StartRead
<1>6. ASSUME UNCHANGED <<pager, crashes, created>> PROVE PagerInv'
  BY <1>4, <1>6 DEF Read, Segment
<1>7. CASE Restart
  BY <1>6, <1>7 DEF Restart
<1>8. ASSUME NEW id \in Ids,
             \/ StartFails(id) \/ Run(id) \/ RunEnds(id) \/ OrphanWrites(id) \/ Delete(id)
             \/ Deleted(id) \/ \E title \in Titles : Update(id, title)
      PROVE  PagerInv'
  BY <1>6, <1>8 DEF StartFails, Run, RunEnds, OrphanWrites, Delete, Deleted, Update
<1>9. CASE UNCHANGED vars
  BY <1>6, <1>9 DEF vars, service
<1> QED BY <1>1, <1>2, <1>3, <1>5, <1>7, <1>8, <1>9 DEF Next

\* The invariant of the pages holds always.
LEMMA PagesInvariant == ~ Reuse => (Spec => [](PagesInv /\ TypeOK))
<1> SUFFICES ASSUME ~ Reuse PROVE Spec => [](PagesInv /\ TypeOK)
  OBVIOUS
<1>1. Init => PagesInv /\ TypeOK
  <2> SUFFICES ASSUME Init PROVE PagesInv /\ TypeOK
    OBVIOUS
  <2>1. TypeOK
    BY ServiceInvInit DEF ServiceInv
  <2>2. <<>> \in Seq(Ids) /\ ToSet(<<>>) = {} /\ IsInjective(<<>>)
    BY DEF ToSet, IsInjective
  <2>3. CreatedOnce
    BY <2>2, NamesProperties DEF Init, CreatedOnce, Withdrawn
  <2>4. PagerInv
    BY <2>2 DEF Init, PagerInv, Idle
  <2> QED BY <2>1, <2>3, <2>4 DEF PagesInv
<1>2. PagesInv /\ TypeOK /\ TypeOK' /\ [Next]_vars => PagesInv'
  <2> SUFFICES ASSUME PagesInv, TypeOK, TypeOK', [Next]_vars PROVE PagesInv'
    OBVIOUS
  <2>1. crashes' = 0 => CreatedOnce'
    BY CrashesCount, CreatedOnceStep DEF PagesInv
  <2> QED BY <2>1, PagerStep DEF PagesInv
<1> QED BY <1>1, <1>2, ServiceTyped, PTL DEF Spec

\* A client that pages through the list while others are created sees every conversation
\* that was there all the time, and none twice, however many there are, as long as none
\* is deleted and ids are not used again.
THEOREM PagesAreComplete == ~ Reuse => (Spec => []PagesComplete)
<1>1. ASSUME PagesInv PROVE PagesComplete
  <2> SUFFICES ASSUME pager.page = "end", ~ Deletes
               PROVE  /\ pager.stable \subseteq {pager.seen[i] : i \in DOMAIN pager.seen}
                      /\ \A i, j \in DOMAIN pager.seen : pager.seen[i] = pager.seen[j] => i = j
    BY DEF PagesComplete
  <2>1. CASE pager = Idle
    BY <2>1 DEF Idle
  <2>2. CASE pager # Idle
    <3> DEFINE n == Len(pager.seen)
    <3>1. CreatedOnce /\ PagerType /\ Read
      BY <1>1, <2>2 DEF PagesInv, PagerInv
    <3>2. DOMAIN pager.seen = 1 .. n /\ n \in Nat
      BY <3>1 DEF PagerType
    <3>3. PICK k \in Nat : Segment(k)
      BY <3>1 DEF Read
    <3>4. /\ k + n = Len(created) /\ \A i \in 1 .. n : pager.seen[i] = created[k + i]
          /\ \A i \in 1 .. k : created[i] \notin pager.stable
      BY <3>3 DEF Segment
    <3> HIDE DEF n
    <3>5. /\ DOMAIN created = 1 .. Len(created) /\ Len(created) \in Nat
          /\ pager.stable \subseteq ToSet(created)
      BY <3>1 DEF CreatedOnce, Read
    <3>6. ASSUME NEW x \in pager.stable PROVE \E i \in 1 .. n : x = pager.seen[i]
      <4>1. PICK m \in 1 .. Len(created) : created[m] = x
        BY <3>5 DEF ToSet
      <4>2. m > k
        BY <3>4, <3>5, <4>1
      <4>3. m - k \in 1 .. n /\ k + (m - k) = m
        BY <3>2, <3>4, <3>5, <4>2
      <4>4. pager.seen[m - k] = created[k + (m - k)]
        BY <3>4, <4>3
      <4> QED BY <4>1, <4>3, <4>4
    <3>7. ASSUME NEW i \in 1 .. n, NEW j \in 1 .. n, pager.seen[i] = pager.seen[j] PROVE i = j
      <4>1. k + i \in 1 .. Len(created) /\ k + j \in 1 .. Len(created)
        BY <3>2, <3>4, <3>5
      <4>2. created[k + i] = created[k + j]
        BY <3>4, <3>7
      <4>3. k + i = k + j
        BY <3>1, <3>5, <4>1, <4>2 DEF CreatedOnce, IsInjective
      <4> QED BY <4>3
    <3> QED BY <3>2, <3>6, <3>7
  <2> QED BY <2>1, <2>2
<1> QED BY <1>1, PagesInvariant, PTL

(***************************************************************************)
(* The cache of repositories the conversations load plugins from           *)
(* (CachedRepo), which shares no state with the service, for any number of *)
(* processes, branches, tags and pinned commits.                           *)
(***************************************************************************)
CONSTANTS Procs, Nobody, Branches, Default, Tags, NoRef, Asked, Pins, Updates, Faults,
          MaxPush, MaxCalls
VARIABLES remote, tagged, repo, holder, call, calls

R == INSTANCE CachedRepo

Commits == {R!NoCommit} \cup (Branches \X Nat)
Refs == Branches \cup Tags \cup {NoRef} \cup Commits
Repos == [git : {"none", "partial", "ok"}, spec : Refs, track : Nat, base : Nat,
          tags : SUBSET Refs, at : Refs, branch : BOOLEAN, local : Nat,
          default : BOOLEAN, stuck : BOOLEAN]
Held == {"look", "clone", "cloning", "fetch", "update", "checkout", "recover", "reset",
         "unlock", "raise"}
CallRecords == [pc : Held \cup {"idle", "lock", "sha", "load", "ended"}, ref : Refs, update : BOOLEAN,
                floor : Nat, failed : BOOLEAN, whole : BOOLEAN, fresh : BOOLEAN, ok : BOOLEAN,
                got : Refs, sha : Refs, loaded : Refs]

RepoTyped == /\ remote \in [Branches -> Nat \ {0}] /\ tagged \in [Tags -> Commits]
             /\ repo \in Repos /\ call \in [Procs -> CallRecords]
Locked == \A p \in Procs : call[p].pc \in Held <=> holder = p

(***************************************************************************)
(* The inductive invariant.  What a call has reached is said for the places *)
(* under the lock, where nobody else changes the repository: once it has    *)
(* fetched, origin/<default> is no older than the call (Along), and a       *)
(* repository that knows its default branch was cloned from it (Origin), so *)
(* that the checkout and the reset that follow cannot miss it.              *)
(***************************************************************************)
\* A call for the latest commit of the default branch, none of whose commands has failed.
Wants(p) == call[p].ref = NoRef /\ call[p].update /\ ~call[p].failed
Since(p) == call[p].floor .. remote[Default]
Newest(p, c) == \E n \in Since(p) : c = <<Default, n>>

Origin == /\ ~repo.stuck
          /\ repo.track > 0 => repo.spec \in Branches
          /\ repo.default => repo.spec = Default /\ repo.track > 0
Along(p) ==
  /\ call[p].floor <= remote[Default]
  /\ call[p].pc = "checkout" => call[p].ref # NoRef
  /\ Wants(p) /\ repo.default =>
       /\ call[p].pc \in {"update", "recover", "reset"} => repo.track \in Since(p)
       /\ call[p].pc = "unlock" => Newest(p, repo.at)
  /\ call[p].ok => call[p].pc \in {"sha", "load", "ended"}
  /\ call[p].ok /\ Wants(p) /\ call[p].fresh => Newest(p, call[p].got)
Progress == \A p \in Procs : Along(p)

RepoInv == RepoTyped /\ Locked /\ Origin /\ Progress

\* The invariant of the cache holds before the first call.
LEMMA RepoInit == ASSUME R!RepoAssumption, R!Init PROVE RepoInv
<1> USE DEF R!Init, R!RepoAssumption, R!Idle, R!Absent, R!NoCommit
<1>1. RepoTyped
  <2>1. R!Absent \in Repos
    BY DEF Repos, Commits, Refs
  <2>2. R!Idle \in CallRecords
    BY DEF CallRecords, Commits, Refs
  <2> QED BY <2>1, <2>2 DEF RepoTyped, Commits
<1>2. Locked
  BY DEF Locked, Held
<1>3. Origin /\ Progress
  BY DEF Origin, Progress, Along
<1> QED BY <1>1, <1>2, <1>3 DEF RepoInv

\* Somebody pushes to the remote.
LEMMA PushStep == ASSUME RepoInv, R!RepoAssumption, R!Push PROVE RepoInv'
<1>1. PICK b \in Branches : remote' = [remote EXCEPT ![b] = @ + 1]
  BY DEF R!Push
<1>2. UNCHANGED <<tagged, repo, holder, call, calls>>
  BY DEF R!Push
<1>3. remote' \in [Branches -> Nat \ {0}] /\ remote[Default] \in Nat /\ remote'[Default] \in Nat
      /\ remote'[Default] >= remote[Default]
  BY <1>1 DEF RepoInv, RepoTyped, R!RepoAssumption
<1>4. \A p \in Procs : call[p].floor \in Nat
  BY DEF RepoInv, RepoTyped, CallRecords
<1>5. \A p \in Procs : Since(p) \subseteq Since(p)'
  BY <1>2, <1>3, <1>4 DEF Since
<1>6. Progress'
  BY <1>2, <1>3, <1>4, <1>5 DEF RepoInv, Progress, Along, Wants, Newest
<1> QED BY <1>2, <1>3, <1>6 DEF RepoInv, RepoTyped, Locked, Origin

\* A step of p does not disturb the others: who changes the repository holds the lock.
LEMMA OthersStay ==
  ASSUME RepoInv, NEW p \in Procs, NEW q \in Procs, p # q, remote' = remote, call'[q] = call[q],
         repo' = repo \/ holder = p
  PROVE  Along(q)'
<1>1. Along(q) /\ Since(q)' = Since(q)
  BY DEF RepoInv, Progress, Since
<1>2. CASE repo' = repo
  BY <1>1, <1>2 DEF Along, Wants, Newest
<1>3. CASE holder = p
  <2>1. call[q].pc \notin Held
    BY <1>3 DEF RepoInv, Locked
  <2> QED BY <1>1, <2>1 DEF Along, Wants, Newest, Held
<1> QED BY <1>2, <1>3

\* A step of the holder of the lock inside it.
LEMMA HolderStep ==
  ASSUME RepoInv, NEW p \in Procs, call[p].pc \in Held,
         UNCHANGED <<remote, tagged, holder>>, repo' \in Repos, Origin',
         NEW place \in Held,
         \/ call' = [call EXCEPT ![p].pc = place]
         \/ call' = [call EXCEPT ![p].pc = place, ![p].failed = TRUE],
         place = "checkout" => call[p].ref # NoRef,
         Wants(p)' /\ repo'.default =>
           /\ place \in {"update", "recover", "reset"} => repo'.track \in Since(p)
           /\ place = "unlock" => Newest(p, repo'.at)
  PROVE  RepoInv'
<1> USE DEF RepoInv, RepoTyped
<1>1. call \in [Procs -> CallRecords] /\ call' \in [Procs -> CallRecords]
  BY DEF CallRecords
<1>2. /\ call'[p].pc = place /\ call'[p].ref = call[p].ref /\ call'[p].floor = call[p].floor
      /\ call'[p].ok = call[p].ok /\ ~call[p].ok
  BY DEF CallRecords, Progress, Along, Held
<1>3. \A q \in Procs : q # p => call'[q] = call[q]
  BY <1>1
<1>4. Locked'
  BY <1>2, <1>3 DEF Locked
<1>5. holder = p
  BY DEF Locked
<1>6. Since(p)' = Since(p)
  BY <1>2 DEF Since
<1>7. Along(p)'
  BY <1>2, <1>6 DEF Progress, Along, Newest, Held
<1>8. Progress'
  BY <1>3, <1>5, <1>7, OthersStay DEF Progress
<1> QED BY <1>1, <1>4, <1>8

\* Following the tags changes the tags, cloning and fetching give the branch of the remote.
LEMMA FollowIs ==
  ASSUME NEW r \in Repos
  PROVE  R!Follow(r) \in Repos /\ \E t \in SUBSET Refs : R!Follow(r) = [r EXCEPT !.tags = t]
<1> DEFINE t == r.tags \cup {u \in Tags : tagged[u] \in R!Objects(r)}
<1>1. t \in SUBSET Refs
  BY DEF Repos, Refs
<1>2. R!Follow(r) = [r EXCEPT !.tags = t]
  BY DEF R!Follow
<1> HIDE DEF t
<1> QED BY <1>1, <1>2 DEF Repos

\* What a clone holds, and where it is.
LEMMA ClonedIs ==
  ASSUME R!RepoAssumption, RepoTyped, NEW s \in Branches \cup Tags
  PROVE  LET r == R!Cloned(s) IN
         /\ r \in Repos /\ ~r.stuck /\ r.spec = s /\ r.default = (s = Default)
         /\ r.track > 0 => s \in Branches
         /\ s = Default => r.track > 0 /\ r.at = <<Default, remote[Default]>>
<1> DEFINE n == IF s \in Branches THEN remote[s] ELSE 0
           at == IF n > 0 THEN <<s, n>> ELSE tagged[s]
           head == n > 0
           default == s = Default
           tags == {s} \cap Tags
           r == [R!Absent EXCEPT !.git = "ok", !.spec = s, !.track = n, !.base = n, !.local = n,
                   !.branch = head, !.tags = tags, !.default = default, !.at = at]
<1>1. n \in Nat /\ (s \in Branches <=> n > 0) /\ at \in Commits
  BY DEF RepoTyped, Commits
<1>2. R!Cloned(s) = R!Follow(r)
  BY DEF R!Cloned, R!Commit
<1>3. s \in Refs
  BY DEF Refs
<1>4. s = Default => n > 0 /\ at = <<Default, remote[Default]>>
  <2>1. ASSUME s = Default PROVE s \in Branches /\ n = remote[Default] /\ n > 0
    BY <1>1, <2>1 DEF R!RepoAssumption
  <2> QED BY <2>1
<1>5. head \in BOOLEAN /\ default \in BOOLEAN /\ tags \in SUBSET Refs /\ default = (s = Default)
  BY DEF Refs
<1> HIDE DEF n, at, head, default, tags
<1>6. at \in Refs /\ R!NoCommit \in Refs /\ NoRef \in Refs
  BY <1>1 DEF Refs, Commits, R!NoCommit
<1>7. R!Absent \in Repos /\ ~R!Absent.stuck
  BY <1>6 DEF R!Absent, Repos
<1>8. /\ r \in Repos /\ r.spec = s /\ r.track = n /\ r.at = at /\ r.default = default
      /\ r.stuck = R!Absent.stuck
  BY <1>1, <1>3, <1>6, <1>5, <1>7 DEF Repos
<1> HIDE DEF r
<1>9. PICK t \in SUBSET Refs : R!Follow(r) = [r EXCEPT !.tags = t] /\ R!Follow(r) \in Repos
  BY <1>8, FollowIs
<1>10. /\ R!Follow(r).spec = s /\ R!Follow(r).track = n /\ R!Follow(r).at = at
      /\ R!Follow(r).default = default /\ ~R!Follow(r).stuck
  BY <1>9, <1>8, <1>7 DEF Repos
<1> QED BY <1>1, <1>2, <1>4, <1>9, <1>10, <1>5

\* A fetch brings the tracked branch up to date and keeps the rest.
LEMMA FetchedIs ==
  ASSUME RepoTyped
  PROVE  LET r == R!Fetched(repo) IN
         /\ r \in Repos /\ r.stuck = repo.stuck /\ r.spec = repo.spec /\ r.default = repo.default
         /\ repo.spec \in Branches => r.track = remote[repo.spec]
         /\ repo.spec \notin Branches => r.track = repo.track
<1>1. CASE repo.spec \in Branches
  <2> DEFINE b == IF repo.base = 0 THEN 1 ELSE repo.base
             r == [repo EXCEPT !.track = remote[repo.spec], !.base = b]
  <2>1. R!Fetched(repo) = R!Follow(r)
    BY <1>1 DEF R!Fetched
  <2>2. b \in Nat /\ remote[repo.spec] \in Nat
    BY <1>1 DEF RepoTyped, Repos
  <2> HIDE DEF b
  <2>3. r \in Repos /\ r.stuck = repo.stuck /\ r.spec = repo.spec /\ r.default = repo.default
        /\ r.track = remote[repo.spec]
    BY <2>2 DEF RepoTyped, Repos
  <2> HIDE DEF r
  <2>4. PICK t \in SUBSET Refs : R!Follow(r) = [r EXCEPT !.tags = t] /\ R!Follow(r) \in Repos
    BY <2>3, FollowIs
  <2> QED BY <1>1, <2>1, <2>3, <2>4 DEF Repos
<1>2. CASE repo.spec \notin Branches
  <2>1. R!Fetched(repo) = [repo EXCEPT !.tags = {repo.spec}]
    BY <1>2 DEF R!Fetched
  <2> QED BY <1>2, <2>1 DEF RepoTyped, Repos
<1> QED BY <1>1, <1>2

\* What a checkout and a reset leave alone.
LEMMA CheckedOutIs ==
  ASSUME R!RepoAssumption, RepoTyped, NEW ref \in Refs, R!Knows(repo, ref)
  PROVE  LET r == R!CheckedOut(repo, ref) IN
         /\ r \in Repos /\ r.stuck = repo.stuck /\ r.spec = repo.spec /\ r.default = repo.default
         /\ r.track = repo.track
         /\ repo.spec = Default /\ ref = Default => r.branch
<1> DEFINE r == R!CheckedOut(repo, ref)
<1>1. CASE ref = repo.spec /\ ref \in Branches
  <2> DEFINE n == IF repo.local > 0 THEN repo.local ELSE repo.track
             at == <<ref, n>>
  <2>1. n \in Nat /\ at \in Refs
    BY <1>1 DEF RepoTyped, Repos, Refs, Commits
  <2>2. r = [repo EXCEPT !.git = "ok", !.branch = TRUE, !.local = n, !.at = at]
    BY <1>1 DEF R!CheckedOut, R!Commit
  <2> HIDE DEF n, at, r
  <2>3. r \in Repos /\ r.stuck = repo.stuck /\ r.spec = repo.spec /\ r.default = repo.default
        /\ r.track = repo.track /\ r.branch
    BY <2>1, <2>2 DEF RepoTyped, Repos
  <2> QED BY <2>3 DEF r
<1>2. CASE ~(ref = repo.spec /\ ref \in Branches)
  <2> DEFINE at == IF ref \in Tags THEN tagged[ref] ELSE ref
  <2>1. at \in Refs
    BY DEF RepoTyped, Refs
  <2>2. r = [repo EXCEPT !.git = "ok", !.branch = FALSE, !.at = at]
    BY <1>2 DEF R!CheckedOut
  <2> HIDE DEF at, r
  <2>3. r \in Repos /\ r.stuck = repo.stuck /\ r.spec = repo.spec /\ r.default = repo.default
        /\ r.track = repo.track
    BY <2>1, <2>2 DEF RepoTyped, Repos
  <2>4. ~(repo.spec = Default /\ ref = Default)
    BY <1>2 DEF R!RepoAssumption
  <2> QED BY <2>3, <2>4 DEF r
<1> QED BY <1>1, <1>2

\* A step that changes nothing but the record of its own call.
LEMMA CallStep ==
  ASSUME RepoInv, NEW p \in Procs, UNCHANGED <<remote, tagged, repo>>,
         NEW c \in CallRecords, call' = [call EXCEPT ![p] = c], Locked', Along(p)'
  PROVE  RepoInv'
<1>1. \A q \in Procs : q # p => Along(q)'
  BY OthersStay DEF RepoInv, RepoTyped
<1> QED BY <1>1 DEF RepoInv, RepoTyped, Progress, Origin

\* A call begins, and takes the lock or does not.
LEMMA EnterStep ==
  ASSUME R!RepoAssumption, RepoInv, NEW p \in Procs, R!Call(p) \/ R!Lock(p) \/ R!LockTimeout(p)
  PROVE  RepoInv'
<1> USE DEF RepoInv, RepoTyped
<1>0. call \in [Procs -> CallRecords] /\ remote[Default] \in Nat
  BY DEF R!RepoAssumption
<1>1. CASE R!Call(p)
  <2>1. PICK ref \in Asked \cup (IF Pins THEN {call[q].sha : q \in Procs} \ {R!NoCommit} ELSE {}),
             update \in Updates :
        call' = [call EXCEPT ![p] = [R!Idle EXCEPT !.pc = "lock", !.ref = ref, !.update = update,
                                       !.floor = remote[Default], !.sha = call[p].sha]]
    BY <1>1 DEF R!Call
  <2>2. ref \in Refs /\ update \in BOOLEAN /\ call[p].sha \in Refs
    BY <1>0 DEF R!RepoAssumption, Refs, CallRecords
  <2> DEFINE c == [R!Idle EXCEPT !.pc = "lock", !.ref = ref, !.update = update,
                                 !.floor = remote[Default], !.sha = call[p].sha]
  <2>3. R!Idle \in CallRecords /\ ~R!Idle.ok
    BY DEF R!Idle, R!NoCommit, CallRecords, Refs, Commits
  <2>4. c \in CallRecords /\ c.pc = "lock" /\ c.floor = remote[Default] /\ ~c.ok
    BY <1>0, <2>2, <2>3 DEF CallRecords
  <2> HIDE DEF c
  <2>5. UNCHANGED <<remote, tagged, repo, holder>> /\ call' = [call EXCEPT ![p] = c]
    BY <1>1, <2>1 DEF R!Call, c
  <2>6. call'[p] = c /\ \A q \in Procs : q # p => call'[q] = call[q]
    BY <1>0, <2>5
  <2>7. call[p].pc \notin Held
    BY <1>1 DEF R!Call, Held
  <2>8. Locked'
    BY <2>4, <2>5, <2>6, <2>7 DEF Locked, Held
  <2>9. Along(p)'
    BY <1>0, <2>4, <2>5, <2>6 DEF Along
  <2> QED BY <2>4, <2>5, <2>8, <2>9, CallStep
<1>2. CASE R!Lock(p) \/ R!LockTimeout(p)
  <2>1. PICK place \in {"look", "ended"} :
          /\ call' = [call EXCEPT ![p].pc = place]
          /\ place = "look" => holder = Nobody /\ holder' = p
          /\ place = "ended" => holder' = holder
    BY <1>2 DEF R!Lock, R!LockTimeout, R!Goto, R!Quiet
  <2>2. call[p].pc = "lock" /\ UNCHANGED <<remote, tagged, repo>>
    BY <1>2 DEF R!Lock, R!LockTimeout, R!At, R!Same, R!Quiet
  <2> DEFINE c == [call[p] EXCEPT !.pc = place]
  <2>3. c \in CallRecords /\ c.pc = place
        /\ c.ref = call[p].ref /\ c.update = call[p].update /\ c.failed = call[p].failed
        /\ c.floor = call[p].floor /\ c.ok = call[p].ok /\ ~call[p].ok
    BY <1>0, <2>2 DEF CallRecords, Held, Progress, Along
  <2>4. call' = [call EXCEPT ![p] = c]
    BY <2>1
  <2> HIDE DEF c
  <2>5. call'[p] = c /\ \A q \in Procs : q # p => call'[q] = call[q]
    BY <1>0, <2>4
  <2>6. Locked'
    BY <2>1, <2>2, <2>3, <2>5 DEF Locked, Held, R!RepoAssumption
  <2>7. Along(p)'
    BY <2>2, <2>3, <2>5 DEF Progress, Along
  <2> QED BY <2>2, <2>3, <2>4, <2>6, <2>7, CallStep
<1> QED BY <1>1, <1>2

\* A call gives the lock back, and reads the commit and the files.
LEMMA LeaveStep ==
  ASSUME R!RepoAssumption, RepoInv, NEW p \in Procs, R!Unlock(p) \/ R!Sha(p) \/ R!Load(p)
  PROVE  RepoInv'
<1> USE DEF RepoInv, RepoTyped
<1>0. call \in [Procs -> CallRecords] /\ remote[Default] \in Nat
  BY DEF R!RepoAssumption
<1>1. CASE R!Unlock(p)
  <2>1. /\ call[p].pc \in {"unlock", "raise"} /\ holder' = Nobody /\ holder = p
        /\ UNCHANGED <<remote, tagged, repo>>
    BY <1>1 DEF R!Unlock, R!Same, Locked, Held
  <2>2. PICK c \in CallRecords :
          /\ call' = [call EXCEPT ![p] = c]
          /\ c.pc \in {"sha", "ended"} /\ c.ref = call[p].ref /\ c.update = call[p].update
          /\ c.failed = call[p].failed /\ c.floor = call[p].floor
          /\ c.ok => call[p].pc = "unlock" /\ c.got = repo.at /\ c.fresh = repo.default
    <3>1. CASE call[p].pc = "raise"
      <4> DEFINE c == [call[p] EXCEPT !.pc = "ended"]
      <4>1. call' = [call EXCEPT ![p] = c]
        BY <1>1, <3>1 DEF R!Unlock, R!At, R!Goto
      <4>2. /\ c \in CallRecords /\ c.pc = "ended" /\ c.ref = call[p].ref
            /\ c.update = call[p].update /\ c.failed = call[p].failed /\ c.floor = call[p].floor
            /\ ~c.ok
        BY <1>0, <3>1 DEF CallRecords, Progress, Along
      <4> HIDE DEF c
      <4> QED BY <4>1, <4>2
    <3>2. CASE call[p].pc = "unlock"
      <4> DEFINE whole == repo.git = "ok"
                 c == [call[p] EXCEPT !.pc = "sha", !.ok = TRUE, !.got = repo.at,
                                      !.whole = whole, !.fresh = repo.default]
      <4>1. call' = [call EXCEPT ![p] = c]
        <5>1. call' = [call EXCEPT ![p].pc = "sha", ![p].ok = TRUE, ![p].got = repo.at,
                                   ![p].whole = whole, ![p].fresh = repo.default]
          BY <1>1, <3>2 DEF R!Unlock, R!At
        <5> QED BY <1>0, <5>1
      <4>2. whole \in BOOLEAN /\ repo.at \in Refs /\ repo.default \in BOOLEAN
        BY DEF Repos
      <4> HIDE DEF whole
      <4>3. /\ c \in CallRecords /\ c.pc = "sha" /\ c.ref = call[p].ref
            /\ c.update = call[p].update /\ c.failed = call[p].failed /\ c.floor = call[p].floor
            /\ c.got = repo.at /\ c.fresh = repo.default
        <5>1. /\ c.pc = "sha" /\ c.ref = call[p].ref
              /\ c.update = call[p].update /\ c.failed = call[p].failed /\ c.floor = call[p].floor
              /\ c.got = repo.at /\ c.fresh = repo.default
          BY <1>0 DEF CallRecords
        <5>2. c \in CallRecords
          <6>1. call[p] \in CallRecords
            BY <1>0
          <6> HIDE DEF RepoInv, RepoTyped
          <6> QED BY <4>2, <6>1 DEF CallRecords
        <5> QED BY <5>1, <5>2
      <4> HIDE DEF c
      <4> QED BY <3>2, <4>1, <4>3
    <3> QED BY <2>1, <3>1, <3>2
  <2>3. call'[p] = c /\ \A q \in Procs : q # p => call'[q] = call[q]
    BY <1>0, <2>2
  <2>4. Locked'
    BY <2>1, <2>2, <2>3 DEF Locked, Held, R!RepoAssumption
  <2>5. Along(p)'
    BY <2>1, <2>2, <2>3 DEF Progress, Along, Wants, Newest, Since
  <2> QED BY <2>1, <2>2, <2>4, <2>5, CallStep
<1>2. CASE R!Sha(p) \/ R!Load(p)
  <2>1. /\ call[p].pc \in {"sha", "load"} /\ UNCHANGED <<remote, tagged, repo, holder>>
        /\ \E place \in {"load", "ended"} :
             \/ call' = [call EXCEPT ![p].pc = place, ![p].sha = repo.at]
             \/ call' = [call EXCEPT ![p].pc = place, ![p].loaded = repo.at]
    BY <1>2 DEF R!Sha, R!Load, R!At, R!Quiet, R!Same
  <2>2. PICK c \in CallRecords :
          /\ call' = [call EXCEPT ![p] = c]
          /\ c.pc \in {"load", "ended"} /\ c.ref = call[p].ref /\ c.update = call[p].update
          /\ c.failed = call[p].failed /\ c.floor = call[p].floor
          /\ c.ok = call[p].ok /\ c.got = call[p].got /\ c.fresh = call[p].fresh
    <3>1. PICK place \in {"load", "ended"} :
             \/ call' = [call EXCEPT ![p].pc = place, ![p].sha = repo.at]
             \/ call' = [call EXCEPT ![p].pc = place, ![p].loaded = repo.at]
      BY <2>1
    <3> DEFINE a == [call[p] EXCEPT !.pc = place, !.sha = repo.at]
               b == [call[p] EXCEPT !.pc = place, !.loaded = repo.at]
    <3>2. repo.at \in Refs
      BY DEF Repos
    <3>3. \A c \in {a, b} :
            /\ c \in CallRecords /\ c.pc = place /\ c.ref = call[p].ref
            /\ c.update = call[p].update /\ c.failed = call[p].failed /\ c.floor = call[p].floor
            /\ c.ok = call[p].ok /\ c.got = call[p].got /\ c.fresh = call[p].fresh
      <4>1. /\ a \in CallRecords /\ a.pc = place /\ a.ref = call[p].ref
            /\ a.update = call[p].update /\ a.failed = call[p].failed /\ a.floor = call[p].floor
            /\ a.ok = call[p].ok /\ a.got = call[p].got /\ a.fresh = call[p].fresh
        BY <1>0, <3>2 DEF CallRecords
      <4>2. /\ b \in CallRecords /\ b.pc = place /\ b.ref = call[p].ref
            /\ b.update = call[p].update /\ b.failed = call[p].failed /\ b.floor = call[p].floor
            /\ b.ok = call[p].ok /\ b.got = call[p].got /\ b.fresh = call[p].fresh
        BY <1>0, <3>2 DEF CallRecords
      <4> HIDE DEF a, b
      <4> QED BY <4>1, <4>2
    <3>4. CASE call' = [call EXCEPT ![p].pc = place, ![p].sha = repo.at]
      <4>1. call' = [call EXCEPT ![p] = a]
        BY <1>0, <3>4
      <4> HIDE DEF a, b
      <4> QED BY <3>3, <4>1
    <3>5. CASE call' = [call EXCEPT ![p].pc = place, ![p].loaded = repo.at]
      <4>1. call' = [call EXCEPT ![p] = b]
        BY <1>0, <3>5
      <4> HIDE DEF a, b
      <4> QED BY <3>3, <4>1
    <3> HIDE DEF a, b
    <3> QED BY <3>1, <3>4, <3>5
  <2>3. call'[p] = c /\ \A q \in Procs : q # p => call'[q] = call[q]
    BY <1>0, <2>2
  <2>4. Locked'
    BY <2>1, <2>2, <2>3 DEF Locked, Held
  <2>5. Along(p)'
    BY <2>1, <2>2, <2>3 DEF Progress, Along, Wants, Newest, Since
  <2> QED BY <2>1, <2>2, <2>4, <2>5, CallStep
<1> QED BY <1>1, <1>2

\* The git commands of a call that holds the lock.
LEMMA InsideStep ==
  ASSUME R!RepoAssumption, "kill" \notin Faults, RepoInv, NEW p \in Procs,
         R!Look(p) \/ R!StartClone(p) \/ R!Clone(p) \/ R!Fetch(p) \/ R!Update(p) \/ R!Checkout(p)
           \/ R!ResetHard(p)
  PROVE  RepoInv'
<1> USE DEF RepoInv, RepoTyped
<1>0. /\ call[p] \in CallRecords /\ remote[Default] \in Nat \ {0} /\ repo \in Repos
      /\ Along(p) /\ Origin /\ call[p].floor <= remote[Default] /\ call[p].floor \in Nat
  BY DEF R!RepoAssumption, Progress, Along, CallRecords
<1>1. UNCHANGED <<remote, tagged, holder>>
  BY DEF R!Look, R!StartClone, R!Clone, R!Fetch, R!Update, R!Checkout, R!ResetHard, R!Same, R!Quiet
<1>2. remote[Default] \in Since(p) /\ Newest(p, <<Default, remote[Default]>>)
  BY <1>0 DEF Since, Newest
<1>3. ASSUME NEW place \in Held,
             \/ call' = [call EXCEPT ![p].pc = place]
             \/ call' = [call EXCEPT ![p].pc = place, ![p].failed = TRUE]
      PROVE  /\ call'[p].ref = call[p].ref /\ call'[p].update = call[p].update
             /\ Wants(p)' => Wants(p)
             /\ call' = [call EXCEPT ![p].pc = place, ![p].failed = TRUE] => ~Wants(p)'
  BY <1>0, <1>3 DEF CallRecords, Wants
<1>4. CASE R!Look(p)
  <2>1. PICK place \in {"clone", "fetch", "checkout", "unlock"} :
          /\ call' = [call EXCEPT ![p].pc = place] /\ repo' = repo /\ call[p].pc \in Held
          /\ place = "checkout" => call[p].ref # NoRef
          /\ place = "unlock" => ~call[p].update
    BY <1>4 DEF R!Look, R!Goto, R!At, R!Quiet, Held
  <2>2. ~(Wants(p)' /\ place = "unlock")
    BY <1>3, <2>1 DEF Held, Wants
  <2> QED BY <1>0, <1>1, <2>1, <2>2, HolderStep DEF Held, Origin
<1>5. CASE R!StartClone(p)
  <2>1. /\ call' = [call EXCEPT ![p].pc = "cloning"] /\ call[p].pc = "clone"
        /\ repo' = [R!Absent EXCEPT !.git = "partial", !.spec = R!Target(p)]
    BY <1>5 DEF R!StartClone, R!Goto, R!At
  <2>2. R!Target(p) \in Refs
    BY <1>0 DEF R!Target, R!RepoAssumption, CallRecords, Refs
  <2>3. R!Absent \in Repos /\ ~R!Absent.stuck /\ ~R!Absent.default /\ R!Absent.track = 0
    BY DEF R!Absent, R!NoCommit, Repos, Refs, Commits
  <2>4. repo' \in Repos /\ ~repo'.stuck /\ ~repo'.default /\ repo'.track = 0
    BY <2>1, <2>2, <2>3 DEF Repos
  <2>5. Origin'
    BY <2>4 DEF Origin
  <2> QED BY <1>1, <2>1, <2>4, <2>5, HolderStep DEF Held
<1>6. CASE R!Clone(p)
  <2>1. call[p].pc = "cloning"
    BY <1>6 DEF R!Clone, R!At
  <2>2. CASE R!CanClone(p) /\ repo' = R!Cloned(R!Target(p)) /\ R!Goto(p, "unlock")
    <3>1. R!Target(p) \in Branches \cup Tags
      BY <2>2 DEF R!CanClone
    <3>2. call' = [call EXCEPT ![p].pc = "unlock"]
      BY <2>2 DEF R!Goto
    <3>3. /\ repo' \in Repos /\ ~repo'.stuck /\ repo'.spec = R!Target(p)
          /\ repo'.default = (R!Target(p) = Default)
          /\ repo'.track > 0 => R!Target(p) \in Branches
          /\ R!Target(p) = Default => repo'.track > 0 /\ repo'.at = <<Default, remote[Default]>>
      BY <2>2, <3>1, ClonedIs
    <3>4. Origin'
      BY <3>3 DEF Origin
    <3>5. Wants(p)' /\ repo'.default => Newest(p, repo'.at)
      BY <1>2, <3>3
    <3>6. "unlock" \in Held /\ call[p].pc \in Held
      BY <2>1 DEF Held
    <3> HIDE DEF RepoInv, RepoTyped
    <3> QED BY <1>1, <3>2, <3>3, <3>4, <3>5, <3>6, HolderStep
  <2>3. CASE repo' = R!Absent /\ (R!Goto(p, "raise") \/ R!Failing(p, "raise"))
    <3>1. \/ call' = [call EXCEPT ![p].pc = "raise"]
          \/ call' = [call EXCEPT ![p].pc = "raise", ![p].failed = TRUE]
      BY <2>3 DEF R!Goto, R!Failing
    <3>2. repo' \in Repos /\ ~repo'.stuck /\ ~repo'.default /\ repo'.track = 0
      BY <2>3 DEF R!Absent, R!NoCommit, Repos, Refs, Commits
    <3>3. Origin'
      BY <3>2 DEF Origin
    <3> QED BY <1>1, <2>1, <3>1, <3>2, <3>3, HolderStep DEF Held
  <2> QED BY <1>6, <2>2, <2>3 DEF R!Clone
<1>7. CASE R!Fetch(p)
  <2>1. call[p].pc = "fetch"
    BY <1>7 DEF R!Fetch, R!At
  <2>2. CASE repo' = R!Fetched(repo)
             /\ R!Goto(p, IF call[p].ref = NoRef THEN "update" ELSE "checkout")
    <3>1. PICK place \in {"update", "checkout"} :
            /\ call' = [call EXCEPT ![p].pc = place]
            /\ place = "checkout" => call[p].ref # NoRef
      BY <2>2 DEF R!Goto
    <3>2. /\ repo' \in Repos /\ repo'.stuck = repo.stuck /\ repo'.spec = repo.spec
          /\ repo'.default = repo.default
          /\ repo.spec \in Branches => repo'.track = remote[repo.spec]
          /\ repo.spec \notin Branches => repo'.track = repo.track
      BY <2>2, FetchedIs
    <3>3. Origin' /\ (repo'.default => repo'.track = remote[Default])
      BY <1>0, <3>2 DEF Origin, R!RepoAssumption
    <3> QED BY <1>1, <1>2, <2>1, <3>1, <3>2, <3>3, HolderStep DEF Held
  <2>3. CASE UNCHANGED repo /\ R!Failing(p, "unlock")
    <3>1. call' = [call EXCEPT ![p].pc = "unlock", ![p].failed = TRUE]
      BY <2>3 DEF R!Failing
    <3>2. ~Wants(p)'
      BY <1>3, <3>1 DEF Held
    <3> QED BY <1>0, <1>1, <2>1, <2>3, <3>1, <3>2, HolderStep DEF Held, Origin
  <2> QED BY <1>7, <2>2, <2>3 DEF R!Fetch
<1>8. CASE R!Update(p)
  <2>1. PICK place \in {"raise", "reset", "recover", "unlock"} :
          /\ call' = [call EXCEPT ![p].pc = place]
          /\ place = "unlock" => ~repo.default
    <3>1. /\ R!NextOf(repo) \in {"raise", "reset", "recover", "unlock"}
          /\ R!NextOf(repo) = "unlock" => ~repo.default
      BY <1>0 DEF R!NextOf, Repos
    <3> QED BY <1>8, <3>1 DEF R!Update, R!Goto
  <2>2. call[p].pc = "update" /\ repo' = repo
    BY <1>8 DEF R!Update, R!At, R!Quiet
  <2>3. Wants(p)' => Wants(p)
    BY <1>3, <2>1 DEF Held
  <2>4. Wants(p)' /\ repo.default => repo.track \in Since(p)
    BY <1>0, <2>2, <2>3 DEF Along
  <2> QED BY <1>0, <1>1, <2>1, <2>2, <2>4, HolderStep DEF Held, Origin
<1>9. CASE R!Checkout(p)
  <2> DEFINE ref == IF R!At(p, "recover") THEN Default ELSE call[p].ref
             knows == R!Knows(repo, ref) /\ ~repo.stuck
             failed == IF call[p].update THEN "unlock" ELSE "raise"
  <2>1. call[p].pc \in {"checkout", "recover"}
    BY <1>9 DEF R!Checkout
  <2>2. ref \in Refs /\ (call[p].pc = "recover" => ref = Default)
    BY <1>0, <2>1 DEF R!At, R!RepoAssumption, Refs, CallRecords
  <2>3. call[p].pc = "checkout" => ~Wants(p)
    BY <1>0 DEF Along, Wants
  <2>4. CASE knows /\ repo' = R!CheckedOut(repo, ref)
             /\ R!Goto(p, IF repo'.branch THEN "reset" ELSE "unlock")
    <3>1. /\ repo' \in Repos /\ repo'.stuck = repo.stuck /\ repo'.spec = repo.spec
          /\ repo'.default = repo.default /\ repo'.track = repo.track
          /\ repo.spec = Default /\ ref = Default => repo'.branch
      <4> HIDE DEF ref
      <4> QED BY <2>2, <2>4, CheckedOutIs
    <3>2. PICK place \in {"reset", "unlock"} :
            /\ call' = [call EXCEPT ![p].pc = place]
            /\ place = "unlock" => ~repo'.branch
      BY <2>4 DEF R!Goto
    <3>3. Wants(p)' => Wants(p)
      BY <1>3, <3>2 DEF Held
    <3>4. Wants(p)' /\ repo'.default => place = "reset" /\ repo'.track \in Since(p)
      BY <1>0, <2>1, <2>2, <2>3, <3>1, <3>2, <3>3 DEF Along, Origin
    <3>5. Origin'
      BY <1>0, <3>1 DEF Origin
    <3> QED BY <1>1, <2>1, <3>1, <3>2, <3>4, <3>5, HolderStep DEF Held
  <2>5. CASE ~knows /\ UNCHANGED repo /\ R!Goto(p, failed)
    <3>1. PICK place \in {"unlock", "raise"} : call' = [call EXCEPT ![p].pc = place]
      BY <2>5 DEF R!Goto
    <3>2. Wants(p)' => Wants(p)
      BY <1>3, <3>1 DEF Held
    <3>3. ~(Wants(p)' /\ repo.default)
      <4> SUFFICES ASSUME Wants(p), repo.default PROVE FALSE
        BY <3>2
      <4>1. ref = Default /\ repo.spec = Default /\ repo.track > 0 /\ ~repo.stuck
        BY <1>0, <2>1, <2>2, <2>3 DEF Origin
      <4>2. R!Knows(repo, Default)
        BY <4>1 DEF R!Knows, Repos
      <4> QED BY <2>5, <4>1, <4>2
    <3> QED BY <1>0, <1>1, <2>1, <2>5, <3>1, <3>3, HolderStep DEF Held, Origin
  <2>6. CASE UNCHANGED repo /\ R!Failing(p, failed)
    <3>1. PICK place \in {"unlock", "raise"} :
            call' = [call EXCEPT ![p].pc = place, ![p].failed = TRUE]
      BY <2>6 DEF R!Failing
    <3>2. ~Wants(p)'
      BY <1>3, <3>1 DEF Held
    <3> QED BY <1>0, <1>1, <2>1, <2>6, <3>1, <3>2, HolderStep DEF Held, Origin
  <2> QED BY <1>9, <2>4, <2>5, <2>6 DEF R!Checkout
<1>10. CASE R!ResetHard(p)
  <2>1. call[p].pc = "reset"
    BY <1>10 DEF R!ResetHard, R!At
  <2>2. CASE ~repo.stuck /\ repo.track > 0 /\ repo' = R!Reset(repo) /\ R!Goto(p, "unlock")
    <3>1. call' = [call EXCEPT ![p].pc = "unlock"]
      BY <2>2 DEF R!Goto
    <3> DEFINE at == <<repo.spec, repo.track>>
    <3>2. repo' = [repo EXCEPT !.local = repo.track, !.at = at]
      BY <2>2 DEF R!Reset, R!Commit
    <3>3. at \in Refs /\ repo.track \in Nat
      BY <1>0, <2>2 DEF Origin, Repos, Refs, Commits
    <3> HIDE DEF at
    <3>4. /\ repo' \in Repos /\ repo'.stuck = repo.stuck /\ repo'.spec = repo.spec
          /\ repo'.default = repo.default /\ repo'.track = repo.track /\ repo'.at = at
      BY <3>2, <3>3 DEF Repos
    <3>5. Wants(p)' => Wants(p)
      BY <1>3, <3>1 DEF Held
    <3>6. Wants(p)' /\ repo'.default => Newest(p, repo'.at)
      BY <1>0, <2>1, <3>4, <3>5 DEF at, Along, Origin, Newest
    <3>7. Origin'
      BY <1>0, <3>4 DEF Origin
    <3> QED BY <1>1, <2>1, <3>1, <3>4, <3>6, <3>7, HolderStep DEF Held
  <2>3. CASE (repo.stuck \/ repo.track = 0) /\ UNCHANGED repo /\ R!Goto(p, "unlock")
    <3>1. call' = [call EXCEPT ![p].pc = "unlock"] /\ ~repo.default
      BY <1>0, <2>3 DEF R!Goto, Origin
    <3> QED BY <1>0, <1>1, <2>1, <2>3, <3>1, HolderStep DEF Held, Origin
  <2>4. CASE UNCHANGED repo /\ R!Failing(p, "unlock")
    <3>1. call' = [call EXCEPT ![p].pc = "unlock", ![p].failed = TRUE]
      BY <2>4 DEF R!Failing
    <3>2. ~Wants(p)'
      BY <1>3, <3>1 DEF Held
    <3> QED BY <1>0, <1>1, <2>1, <2>4, <3>1, <3>2, HolderStep DEF Held, Origin
  <2> QED BY <1>10, <2>2, <2>3, <2>4 DEF R!ResetHard
<1> QED BY <1>4, <1>5, <1>6, <1>7, <1>8, <1>9, <1>10

\* A tag is released on the remote, or the cache cleared.
LEMMA OutsideStep ==
  ASSUME R!RepoAssumption, RepoInv, R!Release \/ R!Clear
  PROVE  RepoInv'
<1> USE DEF RepoInv, RepoTyped
<1>1. CASE R!Release
  <2>1. /\ \E t \in Tags : tagged' = [tagged EXCEPT ![t] = <<Default, remote[Default]>>]
        /\ UNCHANGED <<remote, repo, holder, call>>
    BY <1>1 DEF R!Release, R!Commit
  <2>2. <<Default, remote[Default]>> \in Commits
    BY DEF R!RepoAssumption, Commits
  <2>3. tagged' \in [Tags -> Commits]
    BY <2>1, <2>2
  <2> QED BY <2>1, <2>3 DEF Locked, Origin, Progress, Along, Wants, Newest, Since
<1>2. CASE R!Clear
  <2>1. holder = Nobody /\ repo' = R!Absent /\ UNCHANGED <<remote, tagged, holder, call>>
    BY <1>2 DEF R!Clear
  <2>2. repo' \in Repos /\ ~repo'.stuck /\ ~repo'.default /\ repo'.track = 0
    BY <2>1 DEF R!Absent, R!NoCommit, Repos, Refs, Commits
  <2> QED BY <2>1, <2>2 DEF Locked, Origin, Progress, Along, Wants, Newest, Since
<1> QED BY <1>1, <1>2

\* The branch of the cache that was cloned from the default branch: a call with update and
\* without a ref, none of whose commands failed, is given nothing older than the remote had
\* when it was made, whatever tags and branches the other calls asked for.  (A git that is
\* killed leaves a lock behind, over which every later reset fails, logged only.)
THEOREM CacheIsUpToDate ==
  ASSUME R!RepoAssumption, "kill" \notin Faults
  PROVE  R!Spec => []R!Latest
<1>1. RepoInv /\ [R!Next]_R!vars => RepoInv'
  <2> SUFFICES ASSUME RepoInv, [R!Next]_R!vars PROVE RepoInv'
    OBVIOUS
  <2>1. CASE UNCHANGED R!vars
    BY <2>1 DEF R!vars, RepoInv, RepoTyped, Locked, Origin, Progress, Along, Wants, Newest, Since
  <2>2. CASE \E p \in Procs : R!Proc(p)
    BY <2>2, EnterStep, InsideStep, LeaveStep DEF R!Proc
  <2> QED BY <2>1, <2>2, PushStep, OutsideStep DEF R!Next
<1>2. RepoInv => R!Latest
  BY DEF RepoInv, RepoTyped, Progress, Along, Wants, Newest, Since, R!Latest, R!Commit
<1> QED BY <1>1, <1>2, RepoInit, PTL DEF R!Spec
==============================================================================
