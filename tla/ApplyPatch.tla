----------------------------- MODULE ApplyPatch -----------------------------
(* apply_patch/core.py and its executor: a patch in the "*** Begin Patch"       *)
(* format is parsed section by section against the files as they are, then     *)
(* committed file by file.  A line is a number: its last digit is the text, ten *)
(* more are blanks at its end, twenty more blanks in front; 0 is the empty      *)
(* line, which also follows the last line end of a file.                        *)
EXTENDS Integers, Sequences, FiniteSets, SequencesExt, TLC

CONSTANTS
  Texts,     \* the lines of a file
  MaxLen,    \* bound: lines of the file that is updated
  Context,   \* lines of context around a change
  Stripped,  \* the patch may leave blanks out of lines it does not change
  Eof,       \* whether the last hunk of a patch says it is at the end of the file
  Ended,     \* whether files end with a line end
  Others     \* the sections that may stand beside the update

PatchAssumption ==
  /\ Texts \subseteq Nat \ {0} /\ MaxLen \in Nat /\ Context \in Nat
  /\ {Stripped, Eof, Ended} \subseteq BOOLEAN

VARIABLES
  files,    \* the workspace: path |-> lines
  before,   \* ... before the patch
  wanted,   \* ... as its author wants it to be
  patch,    \* its sections: [op, path, to, body]
  actions,  \* Patch.actions with the new text, in order: [op, path, to, text]
  done,     \* how many of them are committed
  outcome   \* parsing, committing, applied, refused, or failed in a write

vars == <<files, before, wanted, patch, actions, done, outcome>>

RStrip(t) == IF t \in 10..19 THEN t - 10 ELSE t
Strip(t) == t % 10
Line(tag, t) == [tag |-> tag, text |-> t]
Section(op, path, to, body) == [op |-> op, path |-> path, to |-> to, body |-> body]
Paths == {"a", "b", "new", "missing", "outside"}
Stay == "stay"
Absent == <<>>

\* ---- parsing an update (positions in the file count from 0) ----------------

SameBy(f(_), s, t) == Len(s) = Len(t) /\ \A i \in 1..Len(s) : f(s[i]) = f(t[i])
Same(s, t) == s = t
Slice(lines, i, n) == SubSeq(lines, i + 1, IF i + n > Len(lines) THEN Len(lines) ELSE i + n)
Least(S) == CHOOSE i \in S : \A j \in S : i <= j

\* find_context_core: the exact lines, else but for blanks at the end, else at both.
Found(lines, context, start, eq(_, _)) ==
  {i \in start..Len(lines) - 1 : eq(Slice(lines, i, Len(context)), context)}

FindCore(lines, context, start) ==
  LET exact == Found(lines, context, start, Same)
      trimmed == Found(lines, context, start, LAMBDA s, t : SameBy(RStrip, s, t))
      bare == Found(lines, context, start, LAMBDA s, t : SameBy(Strip, s, t))
  IN  CASE context = <<>> -> start
        [] context # <<>> /\ exact # {} -> Least(exact)
        [] context # <<>> /\ exact = {} /\ trimmed # {} -> Least(trimmed)
        [] context # <<>> /\ exact \cup trimmed = {} /\ bare # {} -> Least(bare)
        [] OTHER -> -1

\* find_context: at the end of the file first, if the section says so.
FindContext(lines, context, start, eof) ==
  LET atEnd == IF Len(context) > Len(lines) THEN -1
               ELSE FindCore(lines, context, Len(lines) - Len(context))
  IN  IF eof /\ atEnd # -1 THEN atEnd ELSE FindCore(lines, context, start)

\* peek_next_section: the old lines of a hunk, and its chunks, which are the runs
\* of changed lines: where they begin, how many lines go, which come.
Olds(hunk) == LET kept == SelectSeq(hunk, LAMBDA l : l.tag # "+")
              IN [i \in 1..Len(kept) |-> kept[i].text]
News(hunk) == LET kept == SelectSeq(hunk, LAMBDA l : l.tag = "+")
              IN [i \in 1..Len(kept) |-> kept[i].text]
Changed(hunk, i) == i \in 1..Len(hunk) /\ hunk[i].tag # " "
RunEnd(hunk, i) == Least({j \in i..Len(hunk) : ~Changed(hunk, j + 1)})
Chunks(hunk, index) ==
  FlattenSeq([i \in 1..Len(hunk) |->
    IF Changed(hunk, i) /\ ~Changed(hunk, i - 1)
    THEN LET run == SubSeq(hunk, i, RunEnd(hunk, i)) IN
         <<[at |-> index + Len(Olds(SubSeq(hunk, 1, i - 1))),
            gone |-> Len(Olds(run)), new |-> News(run)]>>
    ELSE <<>>])

\* The line after "@@" moves the search behind it, unless it was passed already.
SkipTo(lines, index, def) ==
  LET passed(f(_)) == \E i \in 1..index : f(lines[i]) = f(def)
      ahead(f(_)) == {i \in index + 1..Len(lines) : f(lines[i]) = f(def)}
      Id(t) == t
  IN  IF Strip(def) = 0 THEN index
      ELSE IF ~passed(Id) /\ ahead(Id) # {} THEN Least(ahead(Id))
      ELSE IF ~passed(Strip) /\ ahead(Strip) # {} THEN Least(ahead(Strip)) ELSE index

\* parse_update_file, folded over the hunks of the section.
Bad == [ok |-> FALSE, index |-> 0, chunks |-> <<>>]
ParseHunk(lines, acc, hunk) ==
  LET from == SkipTo(lines, acc.index, hunk.def)
      at == FindContext(lines, Olds(hunk.lines), from, hunk.eof)
  IN  IF ~acc.ok \/ at = -1 THEN Bad
      ELSE [ok |-> TRUE, index |-> at + Len(Olds(hunk.lines)),
            chunks |-> acc.chunks \o Chunks(hunk.lines, at)]
Parse(lines, hunks) ==
  FoldLeft(LAMBDA acc, h : ParseHunk(lines, acc, h), [ok |-> TRUE, index |-> 0, chunks |-> <<>>], hunks)

\* _get_updated_file: the chunks must come in order.
Splice(lines, acc, c) ==
  IF ~acc.ok \/ acc.index > c.at \/ c.at > Len(lines) THEN [ok |-> FALSE, index |-> 0, out |-> <<>>]
  ELSE [ok |-> TRUE, index |-> c.at + c.gone,
        out |-> acc.out \o SubSeq(lines, acc.index + 1, c.at) \o c.new]
Updated(lines, chunks) ==
  LET r == FoldLeft(LAMBDA acc, c : Splice(lines, acc, c), [ok |-> TRUE, index |-> 0, out |-> <<>>], chunks)
  IN [r EXCEPT !.out = @ \o SubSeq(lines, r.index + 1, Len(lines))]

\* ---- the patch a careful author writes -------------------------------------

\* The edit of a file: some lines removed, a line inserted in some gaps.
Script(old, gone, gaps) ==
  FlattenSeq([i \in 1..Len(old) + 1 |->
    (IF i \in gaps THEN <<Line("+", 9)>> ELSE <<>>) \o
    (IF i > Len(old) THEN <<>> ELSE <<Line(IF i \in gone THEN "-" ELSE " ", old[i])>>)])
AsLines(text) == IF Ended \/ text = <<>> THEN Append(text, 0) ELSE text
After(script) == LET kept == SelectSeq(script, LAMBDA l : l.tag # "-")
                 IN [i \in 1..Len(kept) |-> kept[i].text]

\* Its hunks: the stretches within Context of a change, each behind "@@" and perhaps
\* the line before it; blanks may be left out of lines that are there already.
Near(s, i) == i \in 1..Len(s) /\ \E j \in 1..Len(s) : s[j].tag # " " /\ i - j \in -Context..Context
Shown(l, f) == IF l.tag = "+" \/ f = 0 THEN l
               ELSE [l EXCEPT !.text = IF f = 1 THEN RStrip(@) ELSE Strip(@)]
HunksOf(s, f, named) ==
  FlattenSeq([i \in 1..Len(s) |->
    IF ~Near(s, i) \/ Near(s, i - 1) THEN <<>>
    ELSE LET end == Least({j \in i..Len(s) : ~Near(s, j + 1)}) IN
         <<[def |-> IF named /\ i > 1 /\ s[i - 1].tag = " " THEN s[i - 1].text ELSE 0,
            lines |-> [k \in 1..end - i + 1 |-> Shown(s[i + k - 1], f)],
            eof |-> Eof /\ end = Len(s)]>>])

\* What else is in the patch, and where the update goes.
Sections(other, hunks) ==
  LET update(to) == Section("update", "a", to, hunks) IN
  CASE other = "alone"   -> <<update(Stay)>>
    [] other = "add"     -> <<Section("add", "new", Stay, <<9>>), update(Stay)>>
    [] other = "delete"  -> <<update(Stay), Section("delete", "b", Stay, <<>>)>>
    [] other = "move"    -> <<update("new")>>
    [] other = "missing" -> <<update(Stay), Section("delete", "missing", Stay, <<>>)>>
    [] other = "twice"   -> <<Section("delete", "b", Stay, <<>>), Section("add", "b", Stay, <<9>>)>>
    [] other = "outside" -> <<update(Stay), Section("add", "outside", Stay, <<9>>)>>
    [] other = "self"    -> <<update("a")>>
Result(other, new, start) ==
  CASE other \in {"alone", "self"} -> [start EXCEPT !["a"] = new]
    [] other = "add"    -> [start EXCEPT !["a"] = new, !["new"] = <<9>>]
    [] other = "delete" -> [start EXCEPT !["a"] = new, !["b"] = Absent]
    [] other = "move"   -> [start EXCEPT !["a"] = Absent, !["new"] = new]
    [] OTHER -> start

Init ==
  \E old \in BoundedSeq(Texts, MaxLen), other \in Others, named \in BOOLEAN,
     f \in IF Stripped THEN 0..2 ELSE {0} :
    \E gone \in SUBSET (1..Len(old)), gaps \in SUBSET (1..Len(old) + 1) :
      LET script == Script(old, gone, gaps) IN
        /\ gone \cup gaps # {}
        /\ before = [p \in Paths |-> CASE p = "a" -> AsLines(old) [] p = "b" -> <<8>> [] OTHER -> Absent]
        /\ files = before
        /\ patch = Sections(other, HunksOf(script, f, named))
        /\ wanted = Result(other, AsLines(After(script)), before)
        /\ actions = <<>> /\ done = 0 /\ outcome = "parsing"

\* ---- process_patch ---------------------------------------------------------

MissingFile == \E i \in 1..Len(patch) : patch[i].op # "add" /\ before[patch[i].path] = Absent
Duplicate(s) == \E i \in 1..Len(actions) : actions[i].path = s.path

\* load_files, before anything is parsed.
LoadFails ==
  /\ outcome = "parsing" /\ actions = <<>> /\ MissingFile
  /\ outcome' = "refused" /\ UNCHANGED <<files, before, wanted, patch, actions, done>>

\* One section of Parser.parse, with patch_to_commit for it.
ParseSection ==
  /\ outcome = "parsing" /\ ~MissingFile
  /\ LET s == patch[Len(actions) + 1]
         parsed == Parse(files[s.path], s.body)
         updated == Updated(files[s.path], parsed.chunks)
         text == IF s.op = "update" THEN updated.out ELSE s.body
         ok == ~Duplicate(s) /\ (s.op = "update" => parsed.ok /\ updated.ok)
     IN  /\ actions' = IF ok THEN Append(actions, [op |-> s.op, path |-> s.path, to |-> s.to, text |-> text])
                       ELSE actions
         /\ outcome' = IF ~ok THEN "refused"
                       ELSE IF Len(actions) + 1 = Len(patch) THEN "committing" ELSE "parsing"
  /\ UNCHANGED <<files, before, wanted, patch, done>>

\* One change of apply_commit.  _resolve_path refuses what lies outside; a file
\* that is moved is written at its new place and then removed at the old one.
Change == actions[done + 1]
MutMoved(c) == [files EXCEPT ![c.to] = c.text]
Moved(c) == [files EXCEPT ![c.to] = c.text, ![c.path] = Absent]
Commit ==
  /\ outcome = "committing"
  /\ IF Change.path = "outside"
     THEN outcome' = "refused" /\ UNCHANGED <<files, done>>
     ELSE /\ files' = CASE Change.op = "delete" -> [files EXCEPT ![Change.path] = Absent]
                        [] Change.op # "delete" /\ Change.to = Stay -> [files EXCEPT ![Change.path] = Change.text]
                        [] OTHER -> Moved(Change)
          /\ done' = done + 1
          /\ outcome' = IF done + 1 = Len(actions) THEN "applied" ELSE "committing"
  /\ UNCHANGED <<before, wanted, patch, actions>>

\* A write or a removal raises and ends the loop: before or after open() has truncated
\* the file, with a part of the text written, or between the two steps of a move.
CommitFails ==
  /\ outcome = "committing" /\ Change.path # "outside"
  /\ LET place == IF Change.to = Stay THEN Change.path ELSE Change.to IN
       files' \in {files} \cup
         IF Change.op = "delete" THEN {}
         ELSE {[files EXCEPT ![place] = t] : t \in Prefixes(Change.text)}
  /\ outcome' = "failed" /\ UNCHANGED <<before, wanted, patch, actions, done>>

Next == LoadFails \/ ParseSection \/ Commit \/ CommitFails
Spec == Init /\ [][Next]_vars

\* ---- properties ------------------------------------------------------------

TypeOK ==
  /\ DOMAIN files = Paths /\ done \in 0..Len(actions) /\ Len(actions) <= Len(patch)
  /\ outcome \in {"parsing", "committing", "applied", "refused", "failed"}

\* The lines of a hunk are found at one place of the file only, blanks aside.
Update == CHOOSE s \in ToSet(patch) : s.op = "update"
HasUpdate == \E s \in ToSet(patch) : s.op = "update"
Unambiguous(h) ==
  /\ Olds(h.lines) # <<>>
  /\ Cardinality(Found(before["a"], Olds(h.lines), 0, LAMBDA s, t : SameBy(Strip, s, t))) = 1

\* A patch whose hunks can be told apart is never refused, and unless a write fails leaves the
\* workspace as its author wants it, whatever blanks were left out and whatever else it does.
PatchIsApplied ==
  HasUpdate /\ ~MissingFile /\ (\A i \in 1..Len(Update.body) : Unambiguous(Update.body[i])) =>
    outcome # "refused" /\ (outcome = "applied" => files = wanted)

\* A patch that is refused or fails has changed nothing.  A path outside the workspace is
\* refused when its turn comes to be written.
AllOrNothing == outcome \in {"refused", "failed"} => files = before

=============================================================================
