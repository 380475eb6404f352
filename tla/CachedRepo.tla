------------------------------ MODULE CachedRepo ------------------------------
(***************************************************************************)
(* The cache of git repositories plugins and skills are loaded from        *)
(* (git/cached_repo.py, plugin/fetch.py, the loading of plugins in         *)
(* local_conversation.py).  Processes share one directory and a file lock  *)
(* next to it; one git command is one action.  Git and the remote are      *)
(* external.  A shallow clone knows one branch or one tag only: git makes  *)
(* --depth imply --single-branch.  A commit is <<branch, number>>.         *)
(***************************************************************************)
EXTENDS Integers, FiniteSets

CONSTANTS Procs, Nobody,    \* processes; nobody holds the lock
          Branches, Default, Tags,  \* of the remote
          NoRef, Asked,     \* the refs callers ask for; NoRef: none
          Pins,             \* whether a caller may ask for a commit it was given before
          Updates,          \* the values of update=
          Faults,           \* of "net", "git", "kill", "clear"
          MaxPush, MaxCalls \* bounds

RepoAssumption ==
  /\ Nobody \notin Procs /\ Default \in Branches /\ NoRef \notin Branches \cup Tags
  /\ Branches \cap Tags = {} /\ Asked \subseteq Branches \cup Tags \cup {NoRef}
  /\ Faults \subseteq {"net", "git", "kill", "clear"}
  /\ Pins \in BOOLEAN /\ Updates \subseteq BOOLEAN
  /\ {MaxPush, MaxCalls} \subseteq Nat

VARIABLES remote,  \* the number of commits of each branch
          tagged,  \* the commit of each tag of the remote, or NoCommit
          repo,    \* the directory of the cache
          holder,  \* who holds the file lock
          call,    \* per process, the call it is in
          calls    \* calls made so far
vars == <<remote, tagged, repo, holder, call, calls>>

NoCommit == <<>>
Commit(b, n) == <<b, n>>

\* git: "none" no repository, "partial" a clone that was killed, "ok".
\* spec: what was cloned; track: origin/spec; base: the oldest commit that was
\* fetched; at: HEAD; branch: whether HEAD is on the branch; local: its tip;
\* default: origin/HEAD is known; stuck: a killed command left index.lock.
Absent == [git |-> "none", spec |-> NoRef, track |-> 0, base |-> 0, tags |-> {},
           at |-> NoCommit, branch |-> FALSE, local |-> 0, default |-> FALSE, stuck |-> FALSE]

Idle == [pc |-> "idle", ref |-> NoRef, update |-> FALSE, floor |-> 0, failed |-> FALSE,
         whole |-> FALSE, fresh |-> FALSE, ok |-> FALSE, got |-> NoCommit, sha |-> NoCommit, loaded |-> NoCommit]

Init == /\ remote = [b \in Branches |-> 1] /\ tagged = [t \in Tags |-> NoCommit]
        /\ repo = Absent /\ holder = Nobody
        /\ call = [p \in Procs |-> Idle] /\ calls = 0

-----------------------------------------------------------------------------
(* Git, as the code uses it. *)

Objects(r) ==
  IF r.spec \in Branches THEN {Commit(r.spec, n) : n \in r.base .. r.track} \ {Commit(r.spec, 0)}
  ELSE {tagged[t] : t \in r.tags}

\* Tags that point to what is there are fetched along.
Follow(r) == [r EXCEPT !.tags = @ \cup {t \in Tags : tagged[t] \in Objects(r)}]

Cloned(s) ==
  LET n == IF s \in Branches THEN remote[s] ELSE 0 IN
  Follow([Absent EXCEPT
    !.git = "ok", !.spec = s, !.track = n, !.base = n, !.local = n, !.branch = n > 0,
    !.tags = {s} \cap Tags, !.default = s = Default,
    !.at = IF n > 0 THEN Commit(s, n) ELSE tagged[s]])

Fetched(r) ==
  IF r.spec \in Branches
  THEN Follow([r EXCEPT !.track = remote[r.spec], !.base = IF @ = 0 THEN 1 ELSE @])
  ELSE [r EXCEPT !.tags = {r.spec}]

\* Whether git checkout finds ref; and what is checked out then.
Knows(r, ref) ==
  \/ (ref = r.spec /\ r.local + r.track > 0)
  \/ ref \in r.tags
  \/ ref \in Objects(r)
CheckedOut(r, ref) ==
  IF ref = r.spec /\ ref \in Branches
  THEN LET n == IF r.local > 0 THEN r.local ELSE r.track IN
       [r EXCEPT !.git = "ok", !.branch = TRUE, !.local = n, !.at = Commit(ref, n)]
  ELSE [r EXCEPT !.git = "ok", !.branch = FALSE,
                 !.at = IF ref \in Tags THEN tagged[ref] ELSE ref]

Reset(r) == [r EXCEPT !.local = r.track, !.at = Commit(r.spec, r.track)]

-----------------------------------------------------------------------------
Goto(p, place) == call' = [call EXCEPT ![p].pc = place]
Failing(p, place) == call' = [call EXCEPT ![p].pc = place, ![p].failed = TRUE]
At(p, place) == call[p].pc = place
Same == UNCHANGED <<remote, tagged, calls>>
Quiet == Same /\ UNCHANGED <<repo, holder>>

\* A conversation asks for a plugin: fetch_plugin_with_resolution().
Call(p) ==
  /\ call[p].pc \in {"idle", "ended"} /\ calls < MaxCalls /\ calls' = calls + 1
  /\ \E ref \in Asked \cup (IF Pins THEN {call[q].sha : q \in Procs} \ {NoCommit} ELSE {}),
        update \in Updates :
       call' = [call EXCEPT ![p] = [Idle EXCEPT !.pc = "lock", !.ref = ref, !.update = update,
                                                !.floor = remote[Default], !.sha = call[p].sha]]
  /\ UNCHANGED <<remote, tagged, repo, holder>>

\* FileLock.acquire(), with its timeout: then the result is None.
Lock(p) == At(p, "lock") /\ holder = Nobody /\ holder' = p /\ Goto(p, "look") /\ Same /\ UNCHANGED repo
LockTimeout(p) == At(p, "lock") /\ holder # Nobody /\ Goto(p, "ended") /\ Quiet

\* _do_clone_or_update: which of its three ways.
Look(p) ==
  /\ At(p, "look") /\ Quiet
  /\ Goto(p, IF repo.git = "none" THEN "clone"
             ELSE IF call[p].update THEN "fetch"
             ELSE IF call[p].ref # NoRef THEN "checkout" ELSE "unlock")

\* _clone_repository; the directory exists from the start of git clone to its end.
\* A clone that fails cleans up, one that is killed (timeout, crash) does not.
Target(p) == IF call[p].ref = NoRef THEN Default ELSE call[p].ref
CanClone(p) == LET s == Target(p) IN s \in Branches \/ (s \in Tags /\ tagged[s] # NoCommit)
StartClone(p) ==
  /\ At(p, "clone") /\ Goto(p, "cloning") /\ Same /\ UNCHANGED holder
  /\ repo' = [Absent EXCEPT !.git = "partial", !.spec = Target(p)]
Clone(p) ==
  /\ At(p, "cloning") /\ Same /\ UNCHANGED holder
  /\ \/ CanClone(p) /\ repo' = Cloned(Target(p)) /\ Goto(p, "unlock")
     \/ ~CanClone(p) /\ repo' = Absent /\ Goto(p, "raise")
     \/ "net" \in Faults /\ repo' = Absent /\ Failing(p, "raise")
     \/ "kill" \in Faults /\ CanClone(p) /\ UNCHANGED repo /\ Failing(p, "raise")

\* _update_repository: fetch; a failure leaves the cached version in use.
Fetch(p) ==
  /\ At(p, "fetch") /\ Same /\ UNCHANGED holder
  /\ \/ repo' = Fetched(repo) /\ Goto(p, IF call[p].ref = NoRef THEN "update" ELSE "checkout")
     \/ "net" \in Faults /\ UNCHANGED repo /\ Failing(p, "unlock")

\* No ref: the branch the repository is on, or back to the default branch.
MutNextOf(r) == IF r.branch THEN "reset" ELSE "unlock"  \* mutant: a detached HEAD stays
NextOf(r) == CASE r.git = "partial" -> "raise"
               [] r.git # "partial" /\ r.branch -> "reset"
               [] r.git # "partial" /\ ~r.branch /\ r.default -> "recover"
               [] OTHER -> "unlock"
Update(p) == At(p, "update") /\ Goto(p, NextOf(repo)) /\ Quiet

\* git checkout, of the ref asked for or of the default branch.  With update, a
\* failure is logged and the cached version used; without, it is raised.
Checkout(p) ==
  /\ call[p].pc \in {"checkout", "recover"}
  /\ Same /\ UNCHANGED holder
  /\ LET ref == IF At(p, "recover") THEN Default ELSE call[p].ref
         failed == IF call[p].update THEN "unlock" ELSE "raise" IN
     \/ /\ Knows(repo, ref) /\ ~repo.stuck /\ repo' = CheckedOut(repo, ref)
        /\ Goto(p, IF repo'.branch THEN "reset" ELSE "unlock")
     \/ ~(Knows(repo, ref) /\ ~repo.stuck) /\ UNCHANGED repo /\ Goto(p, failed)
     \/ "git" \in Faults /\ UNCHANGED repo /\ Failing(p, failed)
     \/ "kill" \in Faults /\ repo' = [repo EXCEPT !.stuck = TRUE] /\ Failing(p, failed)

\* git reset --hard origin/<branch>; a failure is logged.
ResetHard(p) ==
  /\ At(p, "reset") /\ Same /\ UNCHANGED holder
  /\ \/ ~repo.stuck /\ repo.track > 0 /\ repo' = Reset(repo) /\ Goto(p, "unlock")
     \/ (repo.stuck \/ repo.track = 0) /\ UNCHANGED repo /\ Goto(p, "unlock")
     \/ "git" \in Faults /\ UNCHANGED repo /\ Failing(p, "unlock")
     \/ "kill" \in Faults /\ repo' = [repo EXCEPT !.stuck = TRUE] /\ Failing(p, "unlock")

\* The lock is given back: a path, or None for an error.
Unlock(p) ==
  /\ call[p].pc \in {"unlock", "raise"}
  /\ holder' = Nobody /\ Same /\ UNCHANGED repo
  /\ IF At(p, "raise") THEN Goto(p, "ended")
     ELSE call' = [call EXCEPT ![p].pc = "sha", ![p].ok = TRUE, ![p].got = repo.at,
                               ![p].whole = repo.git = "ok",
                               ![p].fresh = repo.default]

\* get_head_commit(), and then Plugin.load(): both after the lock was given back.
Sha(p) == /\ At(p, "sha") /\ call' = [call EXCEPT ![p].pc = "load", ![p].sha = repo.at] /\ Quiet
Load(p) == /\ At(p, "load") /\ call' = [call EXCEPT ![p].pc = "ended", ![p].loaded = repo.at] /\ Quiet

\* The remote moves on; the user clears the cache, or the next call is on another machine.
Push == /\ \E b \in Branches : /\ remote[b] <= MaxPush
                               /\ remote' = [remote EXCEPT ![b] = @ + 1]
        /\ UNCHANGED <<tagged, repo, holder, call, calls>>
Release == /\ \E t \in Tags : /\ tagged[t] = NoCommit
                              /\ tagged' = [tagged EXCEPT ![t] = Commit(Default, remote[Default])]
           /\ UNCHANGED <<remote, repo, holder, call, calls>>
Clear == /\ "clear" \in Faults /\ repo.git # "none" /\ holder = Nobody /\ repo' = Absent
         /\ UNCHANGED <<remote, tagged, holder, call, calls>>

Proc(p) == \/ Call(p) \/ Lock(p) \/ LockTimeout(p) \/ Look(p) \/ StartClone(p) \/ Clone(p)
           \/ Fetch(p) \/ Update(p) \/ Checkout(p) \/ ResetHard(p) \/ Unlock(p) \/ Sha(p) \/ Load(p)
Next == (\E p \in Procs : Proc(p)) \/ Push \/ Release \/ Clear
Spec == Init /\ [][Next]_vars
-----------------------------------------------------------------------------
\* In a cache cloned from the default branch, a call with update and without a ref,
\* none of whose commands failed, gets the default branch and nothing older than the
\* remote had when it was made: whatever tags and branches other calls asked for
\* and whatever failed before (_update_repository, _recover_from_detached_head).
Latest == \A p \in Procs :
  LET c == call[p] IN
  c.ok /\ c.ref = NoRef /\ c.update /\ ~c.failed /\ c.fresh
    => c.got \in {Commit(Default, n) : n \in c.floor .. remote[Default]}

\* A call that returns a path returns a repository with its files: nobody is given a
\* directory that git clone is still filling (the lock, _clone_repository).
Usable == \A p \in Procs : call[p].ok => call[p].whole

\* The same without the condition on what was cloned ("always updates to the latest",
\* _update_repository).
AlwaysLatest == \A p \in Procs :
  LET c == call[p] IN
  c.ok /\ c.ref = NoRef /\ c.update /\ ~c.failed => c.got \in {Commit(Default, n) : n \in c.floor .. remote[Default]}

\* A path is returned for the branch or tag asked for ("Checkout and reset to that ref").
RefHonoured == \A p \in Procs :
  LET c == call[p] IN
  c.ok /\ ~c.failed =>
    /\ c.ref \in Branches => \E n \in 1 .. remote[c.ref] : c.got = Commit(c.ref, n)
    /\ c.ref \in Tags => c.got = tagged[c.ref]

\* A conversation that resumes with the commit it was given gets that commit
\* (ResolvedPluginSource).
Pinned == \A p \in Procs :
  call[p].ok => call[p].ref \in Branches \cup Tags \cup {NoRef} \/ call[p].got = call[p].ref

\* The commit that is recorded is the one whose files are loaded.
ShaIsLoaded == \A p \in Procs : call[p].loaded # NoCommit => call[p].loaded = call[p].sha
=============================================================================
