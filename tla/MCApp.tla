------------------------------- MODULE MCApp -------------------------------
(* The three state machines of the app's backend, which share no state, in one *)
(* run: the initial state chooses the part that runs, the others stand still.   *)
(* The call manager keeps its own variables; the other two share v1 to v12.     *)
EXTENDS CallManager

VARIABLES part, v1, v2, v3, v4, v5, v6, v7, v8, v9, v10, v11, v12
pool == <<v1, v2, v3, v4, v5, v6, v7, v8, v9, v10, v11, v12>>
rest == <<v7, v8, v9, v10, v11, v12>>

T == INSTANCE AppTasks WITH
  Tasks <- {"t1", "t2"}, Watched <- "t1", MaxTurns <- 2, MaxToolSteps <- 1, MaxBatch <- 2,
  Page <- 2, Faults <- {"setup"},
  status <- v1, place <- v2, turns <- v3, steps <- v4, exceeded <- v5, tree <- v6,
  patch <- v7, summary <- v8, lines <- v9, cursor <- v10, seen <- v11, again <- v12

P == INSTANCE UnifiedPatch WITH
  Texts <- {1, 2, 3}, Dashed <- {}, MaxLen <- 3, Context <- 1, MaxDrift <- 1,
  GitHeaders <- FALSE, Second <- 1, Awkward <- FALSE,
  given <- v1, files <- v2, patch <- v3, at <- v4, open <- v5, outcome <- v6

ASSUME T!AppAssumption /\ P!PatchAssumption

Rest == v7 = 0 /\ v8 = 0 /\ v9 = 0 /\ v10 = 0 /\ v11 = 0 /\ v12 = 0
AppInit ==
  /\ Init
  /\ \/ part = "calls" /\ v1 = 0 /\ v2 = 0 /\ v3 = 0 /\ v4 = 0 /\ v5 = 0 /\ v6 = 0 /\ Rest
     \/ part = "tasks" /\ T!Init
     \/ part = "patch" /\ P!Init /\ Rest

Calls == part = "calls" /\ Next /\ UNCHANGED <<part, pool>>
Threads == part = "tasks" /\ T!Next /\ UNCHANGED <<part, vars>>
Patching == part = "patch" /\ P!Next /\ UNCHANGED <<part, vars, rest>>

AppNext == Calls \/ Threads \/ Patching

\* The fairness of AppTasks; the properties of the other parts need none.
AppSpec ==
  /\ AppInit /\ [][AppNext]_<<part, vars, pool>>
  /\ WF_pool(part = "tasks" /\ T!Poll)
  /\ \A t \in {"t1", "t2"} : WF_pool(part = "tasks" /\ T!Thread(t))

\* AppTasks: the whole log of an ended task reaches the screen, although the page
\* that is not full is fetched again and again and never moves the cursor.
LogArrives == (part = "tasks" /\ T!LogIsWhole) ~> (part = "tasks" /\ T!LogIsShown)

\* AppTasks: an end the browser has seen is final.
EndIsFinal == [][part = "tasks" => T!EndStays]_<<part, pool>>

\* UnifiedPatch: a patch made by the diff brings every drifted file where the user
\* wants it, or is refused.
RoundTrip == part = "patch" => P!RoundTrip
=============================================================================
