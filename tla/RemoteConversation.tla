-------------------------- MODULE RemoteConversation --------------------------
(***************************************************************************)
(* The client of a conversation on a server (conversation/impl/            *)
(* remote_conversation.py), composed with the server (EventService): a     *)
(* copy of the event list kept from REST pages and from the websocket, a   *)
(* copy of the state kept from update events, and a run() that polls.      *)
(*                                                                         *)
(* One thread calls the methods (`phase`), one reads the socket (`link`).  *)
(* The network closes a connection in order or breaks it, and a request    *)
(* for a page may fail (both count as Extra).                              *)
(***************************************************************************)
EXTENDS EventService

CONSTANT PageSize  \* `limit` of a page request

ASSUME RemoteAssumption == PageSize \in Nat \ {0}

VARIABLES phase,    \* where the calling thread is
          page,     \* page_id, 0 for the first page
          fetched,  \* events collected by a sync
          cache,    \* _cached_events
          info,     \* execution_status in _cached_state
          link,     \* the websocket thread: connecting, open, broken
          isReady,  \* the _ready event
          \* history
          known,    \* the log at the poll that ended the last run()
          partial,  \* the last reconciliation failed
          applied,  \* the latest final snapshot received
          lossy     \* the connection was lost once

client == <<phase, page, fetched, cache, info, link, isReady>>
history == <<known, partial, applied, lossy>>
vars == <<serviceVars, client, history>>

Phases == {"sync", "connect", "reconcile", "idle", "poll", "final", "returned", "failed"}
NoEvent == [id |-> 0, status |-> NoStatus, after |-> {}, tracked |-> FALSE]

TypeOK ==
  /\ ServiceTypeOK
  /\ phase \in Phases /\ page \in Nat
  /\ fetched \in Seq(Ids) /\ cache \in Seq(Ids)
  /\ info \in Statuses \cup {NoStatus}
  /\ link \in {"off", "connecting", "open", "broken"}
  /\ (socket # 0) = (link = "open")
  /\ {isReady, partial, lossy} \subseteq BOOLEAN
  /\ known \subseteq Ids
  /\ applied \in Events \cup {NoEvent}

Init ==
  /\ ServiceInit
  /\ phase = "sync" /\ page = 0 /\ fetched = <<>> /\ cache = <<>>
  /\ info = NoStatus /\ link = "off" /\ isReady = FALSE
  /\ known = {} /\ partial = FALSE /\ applied = NoEvent /\ lossy = FALSE

-----------------------------------------------------------------------------
\* _add_event_unsafe: bisect by timestamp, for events that are not there yet.
Bisect(seq, n) == Cardinality({i \in DOMAIN seq : seq[i] <= n})
AddEvent(seq, n) == IF n \in ToSet(seq) THEN seq ELSE InsertAt(seq, Bisect(seq, n) + 1, n)
Merge(seq, events) ==
  LET merged[i \in 0 .. Len(events)] ==
        IF i = 0 THEN seq ELSE AddEvent(merged[i - 1], events[i])
  IN  merged[Len(events)]

(* Pages of GET events/search: the log by timestamp, from page_id on.      *)

ByTime == Merge(<<>>, log)
Start == IF page = 0 THEN 1 ELSE CHOOSE i \in DOMAIN ByTime : ByTime[i] = page

Between(first, last) == SubSeq(ByTime, first, Min({last, Len(ByTime)}))
MutItems == Between(Start + 1, Start + PageSize)  \* mutant: starts after page_id
Items == Between(Start, Start + PageSize - 1)
NextPage == IF Start + PageSize <= Len(ByTime) THEN ByTime[Start + PageSize] ELSE 0

Fetching == {"sync", "reconcile", "final"}
After == [sync |-> "connect", reconcile |-> "idle", final |-> "returned"]

Begins(p) == phase' = p /\ page' = 0 /\ fetched' = <<>>

\* A full sync replaces the cache, a reconciliation merges into it.
Finishes(events) ==
  /\ Begins(After[phase])
  /\ cache' = IF phase = "sync" THEN events ELSE Merge(cache, events)
  /\ link' = IF phase = "sync" THEN "connecting" ELSE link

FetchPage ==
  /\ phase \in Fetching
  /\ IF NextPage # 0
     THEN /\ page' = NextPage /\ fetched' = fetched \o Items
          /\ UNCHANGED <<phase, cache, link, partial>>
     ELSE Finishes(fetched \o Items) /\ partial' = FALSE
  /\ UNCHANGED <<serviceVars, info, isReady, known, applied, lossy>>

\* A failed page ends a reconciliation with what it has, and the constructor.
FetchFails ==
  /\ phase \in Fetching
  /\ Extra
  /\ partial' = TRUE
  /\ IF phase = "sync" THEN phase' = "failed" /\ UNCHANGED <<page, fetched, cache, link>>
     ELSE Finishes(fetched)
  /\ UNCHANGED <<conversation, runVars, delayed, network, runs, messages,
                 info, isReady, known, applied, lossy>>

-----------------------------------------------------------------------------
(* The websocket.                                                          *)

\* The server subscribes the socket and sends it a snapshot at once.
Connect ==
  /\ link = "connecting"
  /\ link' = "open"
  /\ sockets' = sockets + 1 /\ socket' = sockets + 1
  /\ created' = created + 1
  /\ wire' = <<Snapshot({})>>
  /\ UNCHANGED <<status, log, late, pausing, unseen, answered, runVars, delayed, bounds,
                 phase, page, fetched, cache, info, isReady, history>>

\* The composed callback: ready, add_event, update_state_from_event.
Receive ==
  /\ link = "open" /\ wire # <<>>
  /\ LET e == Head(wire)
     IN  /\ cache' = AddEvent(cache, e.id)
         /\ info' = IF e.status = NoStatus THEN info ELSE e.status
         /\ isReady' = (isReady \/ e.status # NoStatus)
         /\ applied' = IF e.after = {} THEN applied ELSE e
  /\ wire' = Tail(wire)
  /\ UNCHANGED <<conversation, runVars, delayed, socket, sockets, bounds,
                 phase, page, fetched, link, known, partial, lossy>>

\* The server's end of a closed connection.
Unsubscribe == wire' = <<>> /\ socket' = 0

\* After an orderly close the client connects again; after ConnectionClosed it stops.
Drop ==
  /\ link = "open"
  /\ Extra
  /\ link' \in {"connecting", "broken"}
  /\ Unsubscribe
  /\ lossy' = TRUE
  /\ UNCHANGED <<conversation, runVars, delayed, sockets, runs, messages,
                 phase, page, fetched, cache, info, isReady, known, partial, applied>>

-----------------------------------------------------------------------------
(* The calling thread.                                                     *)

\* __init__ waits for the socket, then reconciles.
Ready ==
  /\ phase = "connect" /\ isReady
  /\ Begins("reconcile")
  /\ UNCHANGED <<serviceVars, cache, info, link, isReady, history>>

ReadyTimesOut ==
  /\ phase = "connect" /\ ~ isReady
  /\ phase' = "failed" /\ link' = "broken" /\ Unsubscribe
  /\ UNCHANGED <<conversation, runVars, delayed, sockets, bounds,
                 page, fetched, cache, info, isReady, history>>

SendMessage ==
  /\ phase \in {"idle", "returned"}
  /\ Message
  /\ phase' = "idle"
  /\ UNCHANGED <<late, pausing, answered, runVars, socket, sockets, runs, extras,
                 page, fetched, cache, info, link, isReady, history>>

\* run(): a 409 counts as running already.
Run ==
  /\ phase = "idle"
  /\ phase' = "poll"
  /\ IF MayRun THEN StartTask ELSE UNCHANGED <<runVars, runs>>
  /\ UNCHANGED <<conversation, delayed, network, messages, extras,
                 page, fetched, cache, info, link, isReady, history>>

MutEnded(s) == s \in {"FINISHED", "ERROR"}  \* mutant: other ends are polled for ever
Ended(s) == s # "RUNNING"

Poll ==
  /\ phase = "poll" /\ Ended(status)
  /\ IF status \notin {"ERROR", "STUCK"} THEN Begins("final") /\ known' = ToSet(log)
     ELSE phase' = "failed" /\ UNCHANGED <<page, fetched, known>>
  /\ UNCHANGED <<serviceVars, cache, info, link, isReady,
                 partial, applied, lossy>>
-----------------------------------------------------------------------------
ServerNext == (ServerStep \/ OthersStep) /\ UNCHANGED <<client, history>>

Caller == FetchPage \/ Ready \/ Run \/ Poll

\* What is on the wire is received, or lost, before anything else happens: receiving only
\* touches the client's copies, which no other step reads but the end of a sync, and that
\* comes to the same before and after.
Next ==
  \/ Receive \/ Drop
  \/ wire = <<>> /\ (ServerNext \/ Caller \/ FetchFails \/ Connect \/ ReadyTimesOut \/ SendMessage)

Spec == Init /\ [][Next]_vars

\* ENABLED <<Caller>>_vars.
CallerEnabled ==
  \/ phase \in Fetching
  \/ phase = "connect" /\ isReady
  \/ phase = "idle" /\ (MayRun => runs < MaxRuns)
  \/ phase = "poll" /\ Ended(status)

\* The loop and the threads go on; so does the client, a socket connects and is read.
FairSpec == /\ Spec /\ ServerFairness
            /\ ([]<>~ CallerEnabled \/ []<><<Caller>>_vars)
            /\ WF_vars(Connect) /\ WF_vars(Receive)

-----------------------------------------------------------------------------
\* However pages, pushes and reconciliation overlap, the client has each event once and
\* in the order of time (RemoteEventsList).
CacheOrdered == \A i \in 1 .. Len(cache) - 1 : cache[i] < cache[i + 1]

\* When run() has returned and its reconciliation did not fail, the client has every
\* event that was logged when it saw the run end, whatever happened to the socket.
CompleteAfterRun == phase = "returned" /\ ~ partial => known \subseteq ToSet(cache)

\* On a connection that was never lost, a client that has received the state published at
\* the end of a run has received every event of that run before (EventService.run waits
\* for what is pending before it publishes).
SnapshotAfterEvents == ~ lossy /\ ~ partial /\ phase \notin {"sync", "connect", "reconcile"}
                         => applied.after \subseteq ToSet(cache)

\* A blocking run() does not hang.
RunReturns == phase = "poll" ~> phase \in {"returned", "failed"}

\* Every event reaches a client whose connection holds, slow subscribers or not, those
\* logged between the first sync and the subscription included (the reconciliation is
\* there for them).
EventsArrive == <>[](phase \in {"idle", "poll", "returned"} /\ ~ lossy /\ ~ partial
                       => ToSet(log) \subseteq ToSet(cache))

\* "wait for the run to complete": when run() returns normally, the message sent before
\* it has been taken up.
ReturnsAfterRun == phase = "returned" => ~ unseen

\* An accepted confirmation is acted upon.
AcceptedRuns == answered ~> ~ answered

\* State updates keep a connected client "in sync without making REST API calls".
StateConverges == <>[](info # NoStatus /\ ~ lossy => info = status)

\* The client "retries on error": a lost connection is opened again.
Reconnects == link = "broken" ~> link # "broken"
=============================================================================
