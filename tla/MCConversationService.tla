------------------------ MODULE MCConversationService ------------------------
(* ConversationService for TLC: the ids of conversations are interchangeable.  *)
(* The cache of repositories its conversations load plugins from shares no      *)
(* state with it: the initial state chooses which of the two runs.              *)
EXTENDS ConversationService, TLC

CONSTANTS main, v1, NoRef
VARIABLES part, remote, tagged, repo, holder, call, calls
cache == <<remote, tagged, repo, holder, call, calls>>

R == INSTANCE CachedRepo WITH
  Procs <- {"p1", "p2"}, Nobody <- "nobody", Branches <- {main}, Default <- main, Tags <- {v1},
  Asked <- {NoRef, v1}, Pins <- FALSE, Updates <- BOOLEAN, Faults <- {"net", "git"},
  MaxPush <- 1, MaxCalls <- 3

ASSUME R!RepoAssumption

ServerInit == part \in {"service", "cache"} /\ Init /\ R!Init
Requests == part = "service" /\ Next /\ UNCHANGED <<part, cache>>
Fetches == part = "cache" /\ R!Next /\ UNCHANGED <<part, vars>>
ServerNext == Requests \/ Fetches
ServerSpec == ServerInit /\ [][ServerNext]_<<part, vars, cache>>

Symmetry == Permutations(Ids)

\* CachedRepo: a call for the default branch, none of whose commands failed, gets
\* nothing older than the remote had when it was made.
Latest == R!Latest
================================================================================
