----------------------------- MODULE UnifiedPatch -----------------------------
(***************************************************************************)
(* How the app applies a unified diff to a folder that is no git           *)
(* repository (_parse_unified_patch, _apply_hunks_to_lines and              *)
(* _apply_unified_patch_locally of app/backend/main.py).  A line of a file  *)
(* is its text up to trailing blanks; a line of the patch is a header, a    *)
(* hunk header or a body line.  Parsing reads nothing but the patch, so a   *)
(* file is applied as soon as it is parsed here.                            *)
(***************************************************************************)
EXTENDS Integers, Sequences, FiniteSets, SequencesExt, TLC

CONSTANTS
    Texts,        \* texts of lines, integers
    Dashed,       \* those of them that begin with "-- "
    MaxLen,       \* bound: lines in a file
    Context,      \* context lines of the diff
    MaxDrift,     \* bound: lines the file has gained at its top since the diff
    GitHeaders,   \* does a "diff --git" line stand between two files?
    Second,       \* the line of the second file, for which the patch expects 1
    Awkward       \* is a file in a directory whose name ends in "a"?

PatchAssumption ==
    /\ Texts \subseteq Int /\ Dashed \subseteq Texts /\ Second \in Int
    /\ {MaxLen, Context, MaxDrift} \subseteq Nat
    /\ {GitHeaders, Awkward} \subseteq BOOLEAN

VARIABLES
    given,    \* what the user has and wants: [old, new, drift] of the first file
    files,    \* the folder: path |-> lines
    patch,    \* the lines of the patch
    at,       \* the line the parser is at
    open,     \* the file being patched: <<>>, or <<[path, src, used, out]>>
    outcome   \* "running", "applied" or "refused"

vars == <<given, files, patch, at, open, outcome>>

\* A path is a sequence of tokens; "a/" and "b/" are the ones that matter.
PathOne == IF Awkward THEN <<"dat", "a/", "f">> ELSE <<"src/", "f">>
PathTwo == <<"src/", "g">>

\* value.replace("a/", "", 1).replace("b/", "", 1)
Normalized(path) == Remove(Remove(path, "a/"), "b/")

Line(tag, text) == [kind |-> "body", tag |-> tag, text |-> text, path |-> <<>>]
Header(kind, path) == [kind |-> kind, tag |-> "", text |-> 0, path |-> path]
HunkHeader(start) == [kind |-> "@@", tag |-> "", text |-> start, path |-> <<>>]
-------------------------------------------------------------------------------
(* The diff a tool makes of an edit of the file: some lines deleted, a text  *)
(* inserted in some gaps.                                                     *)
Flat(seqs) == FlattenSeq(seqs)
Script(old, gone, added) ==
    Flat([i \in 1..(Len(old) + 1) |->
            (IF i \in DOMAIN added THEN <<Line("+", added[i])>> ELSE <<>>) \o
            (IF i > Len(old) THEN <<>> ELSE <<Line(IF i \in gone THEN "-" ELSE " ", old[i])>>)])
After(script) == LET kept == SelectSeq(script, LAMBDA l : l.tag # "-")
                 IN  [i \in DOMAIN kept |-> kept[i].text]
Before(lines) == Len(SelectSeq(lines, LAMBDA l : l.tag # "+"))

\* Hunks are the stretches within Context of a change.  The header names the
\* first old line, or where there is none the one before.
Near(script) == {i \in DOMAIN script : \E j \in DOMAIN script :
                   script[j].tag # " " /\ i - j \in (-Context)..Context}
Hunks(script) ==
    Flat([i \in DOMAIN script |->
            IF i \in Near(script) /\ i - 1 \notin Near(script)
              THEN LET end == CHOOSE j \in i..Len(script) :
                                /\ i..j \subseteq Near(script)
                                /\ j + 1 \notin Near(script)
                       body == SubSeq(script, i, end)
                       first == Before(SubSeq(script, 1, i - 1))
                   IN  <<HunkHeader(IF Before(body) = 0 THEN first ELSE first + 1)>> \o body
              ELSE <<>>])

FilePatch(path, script) ==
    <<Header("---", <<"a/">> \o path), Header("+++", <<"b/">> \o path)>> \o Hunks(script)
-------------------------------------------------------------------------------
Init ==
    \E old \in BoundedSeq(Texts, MaxLen), drift \in 0..MaxDrift :
      \E gone \in SUBSET (1..Len(old)), gaps \in SUBSET (1..(Len(old) + 1)) :
        \E added \in [gaps -> {0} \cup Dashed] :
          LET script == Script(old, gone, added)
              top == [i \in 1..drift |-> -1]
          IN  /\ gone # {} \/ gaps # {}
              /\ given = [old |-> old, new |-> After(script), drift |-> drift]
              /\ files = PathOne :> (top \o old) @@ PathTwo :> <<Second>>
              /\ patch = <<Header("diff", PathOne)>> \o FilePatch(PathOne, script)
                         \o (IF GitHeaders THEN <<Header("diff", PathTwo)>> ELSE <<>>)
                         \o FilePatch(PathTwo, Script(<<1>>, {1}, 2 :> 3))
              /\ at = 1
              /\ open = <<>>
              /\ outcome = "running"

At(kind) == at <= Len(patch) /\ patch[at].kind = kind

\* A line that starts with "--- ": a header, or the removal of a dashed text.
LooksOld(l) == l.kind = "---" \/ (l.kind = "body" /\ l.tag = "-" /\ l.text \in Dashed)

\* The body of a hunk goes on to the next "@@" or "--- ", whatever is in it.
BodyEnd(i) ==
    IF \E j \in i..Len(patch) : patch[j].kind = "@@" \/ LooksOld(patch[j])
      THEN (CHOOSE j \in i..Len(patch) :
              /\ patch[j].kind = "@@" \/ LooksOld(patch[j])
              /\ \A k \in i..(j - 1) : ~(patch[k].kind = "@@" \/ LooksOld(patch[k]))) - 1
      ELSE Len(patch)

\* The hunk's old lines are those of the source from index i (counted from 0).
MatchesAt(src, i, body) ==
    LET olds == SelectSeq(body, LAMBDA l : l.tag # "+")
    IN  /\ \A k \in DOMAIN body : body[k].kind = "body"
        /\ i + Len(olds) <= Len(src)
        /\ \A k \in DOMAIN olds : src[i + k] = olds[k].text

Least(S) == CHOOSE i \in S : \A j \in S : i <= j

Olds(body) == Len(SelectSeq(body, LAMBDA l : l.tag # "+"))

\* Where only the removed lines, else only the context, are found.
BlockAt(src, least, body, tag) ==
    LET block == SelectSeq(body, LAMBDA l : l.kind = "body" /\ l.tag = tag)
    IN  IF block = <<>> THEN {}
        ELSE {i \in least..(Len(src) - Len(block)) :
                \A k \in DOMAIN block : src[i + k] = block[k].text}

\* _find_hunk_start: at the expected line, else the nearest from the top (the
\* window of 120 lines is all of a bounded file), else the relaxed searches,
\* else, for a hunk that only adds, the expected line.  -1 for None.
FindStart(src, expected, body, least) ==
    LET near == {i \in least..Len(src) : MatchesAt(src, i, body)}
        removed == BlockAt(src, least, body, "-")
        context == BlockAt(src, least, body, " ")
    IN  CASE MatchesAt(src, expected, body) -> expected
          [] near # {} -> Least(near)
          [] removed # {} -> Least(removed)
          [] context # {} -> Least(context)
          [] \A k \in DOMAIN body : body[k].tag = "+" ->
               IF expected < Len(src) THEN expected ELSE Len(src)
          [] OTHER -> -1

Larger(i, j) == IF i > j THEN i ELSE j

Opens(i) == LooksOld(patch[i]) /\ i < Len(patch) /\ patch[i + 1].kind = "+++"

\* Outside a file every line is skipped that is not "--- " with "+++ " after it.
Skip ==
    /\ outcome = "running" /\ open = <<>>
    /\ at <= Len(patch)
    /\ ~Opens(at)
    /\ at' = at + 1
    /\ UNCHANGED <<given, files, patch, open, outcome>>

OpenFile ==
    /\ outcome = "running" /\ open = <<>>
    /\ at <= Len(patch)
    /\ Opens(at)
    /\ LET path == Normalized(patch[at + 1].path)
       IN  open' = <<[path |-> path, used |-> 0, out |-> <<>>,
                      src |-> IF path \in DOMAIN files THEN files[path] ELSE <<>>]>>
    /\ at' = at + 2
    /\ UNCHANGED <<given, files, patch, outcome>>

\* The lines before the hunk are copied, its context is copied from the source,
\* its removals skipped, its additions added.
ApplyHunk ==
    /\ outcome = "running" /\ open # <<>>
    /\ At("@@")
    /\ LET f == open[1]
           body == SubSeq(patch, at + 1, BodyEnd(at + 1))
           start == FindStart(f.src, Larger(patch[at].text - 1, f.used), body, f.used)
           texts == [k \in DOMAIN body |-> body[k].text]
           news == SelectSeq(body, LAMBDA l : l.tag # "-")
       IN  IF start >= 0 /\ MatchesAt(f.src, start, body)
             THEN /\ open' = <<[f EXCEPT !.used = start + Olds(body),
                                         !.out = @ \o SubSeq(f.src, f.used + 1, start)
                                                   \o [k \in DOMAIN news |-> news[k].text]]>>
                  /\ at' = BodyEnd(at + 1) + 1
                  /\ UNCHANGED outcome
             ELSE outcome' = "refused" /\ UNCHANGED <<at, open>>
    /\ UNCHANGED <<given, files, patch>>

\* The rest of the source is copied and the file written.
MutClose ==
    /\ outcome = "running" /\ open # <<>>
    /\ ~At("@@")
    /\ LET f == open[1]
       IN  files' = f.path :> f.out @@ files
    /\ open' = <<>>
    /\ UNCHANGED <<given, patch, at, outcome>>

Close ==
    /\ outcome = "running" /\ open # <<>>
    /\ ~At("@@")
    /\ LET f == open[1]
       IN  files' = f.path :> (f.out \o SubSeq(f.src, f.used + 1, Len(f.src))) @@ files
    /\ open' = <<>>
    /\ UNCHANGED <<given, patch, at, outcome>>

Done ==
    /\ outcome = "running" /\ open = <<>>
    /\ at > Len(patch)
    /\ outcome' = "applied"
    /\ UNCHANGED <<given, files, patch, at, open>>

Next == Skip \/ OpenFile \/ ApplyHunk \/ Close \/ Done

Spec == Init /\ [][Next]_vars
-------------------------------------------------------------------------------
TypeOK ==
    /\ outcome \in {"running", "applied", "refused"}
    /\ at \in 1..(Len(patch) + 1)
    /\ Len(open) <= 1
    /\ \A f \in ToSet(open) : f.used \in 0..Len(f.src)
    /\ {PathOne, PathTwo} \subseteq DOMAIN files

Findable == given.drift = 0 \/ (given.old # <<>> /\ IsInjective(given.old))
Wanted == [i \in 1..given.drift |-> -1] \o given.new

(* The diff of old and new makes new of old; where the file has gained lines *)
(* since, and its lines say where the hunks go (no line occurs twice), they   *)
(* are found further down and the added lines stay.                           *)
RoundTrip ==
    outcome = "applied" /\ Findable => files[PathOne] = Wanted

(* A diff of the file as it is, or as it was above added lines, is accepted.  *)
Accepted ==
    outcome = "refused" /\ open # <<>> => open[1].path = PathTwo \/ ~Findable

(* What a patch does not name is left alone: no file appears.                 *)
NoStrayFile == DOMAIN files = {PathOne, PathTwo}

(* "patch apply failed": and yet the files before the one that failed have    *)
(* been written.                                                               *)
AllOrNothing == outcome = "refused" => SubSeq(files[PathOne], given.drift + 1, Len(files[PathOne])) = given.old
===============================================================================
