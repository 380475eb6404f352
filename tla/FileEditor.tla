----------------------------- MODULE FileEditor -----------------------------
(* file_editor/editor.py with utils/history.py: the commands that change one    *)
(* file, and its undo history.  A text is a sequence of words and line ends.    *)
(* Others (a terminal, a user) change the file as well: Outside.                *)
EXTENDS Integers, Sequences, FiniteSets, SequencesExt

CONSTANTS
  Words,       \* the words a text is made of
  MaxHistory,  \* max_history_per_file
  MaxFileSize, \* _max_file_size
  MaxLen,      \* bound: length of a text the caller passes
  MaxEdits,    \* bound: changes of the file by the editor
  Outsiders,   \* bound: changes from outside
  WriteFails   \* a write may fail

ASSUME EditorAssumption ==
  /\ MaxHistory \in Nat \ {0} /\ MaxFileSize \in Nat /\ MaxLen \in Nat
  /\ MaxEdits \in Nat /\ Outsiders \in Nat /\ WriteFails \in BOOLEAN

VARIABLES
  file,      \* the text of the file, Absent if there is none
  entries,   \* the metadata of the history: the numbers of its entries
  counter,   \* ... and the next number
  cache,     \* the texts stored by number
  past,      \* what the file was before each edit not undone, latest last
  edits,     \* changes made by the editor
  outside,   \* changes made from outside
  answer     \* what the last command answered: ok, error, or error after a change

editorVars == <<file, entries, counter, cache, past, edits, outside, answer>>

EOL == 0
Absent == <<-1>>
Texts == UNION {[1..n -> Words \cup {EOL}] : n \in 0..MaxLen}
Exists == file # Absent
TooLarge(t) == Len(t) > MaxFileSize

\* The text up to the end of its n-th line; how many lines it has.
LineStarts(t) == {1} \cup {i + 1 : i \in {j \in 1..Len(t) : t[j] = EOL}}
LineCount(t) == Cardinality({i \in LineStarts(t) : i <= Len(t)})
FirstLines(t, n) ==
  SubSeq(t, 1, IF n = LineCount(t) THEN Len(t)
               ELSE (CHOOSE i \in LineStarts(t) : Cardinality({j \in LineStarts(t) : j < i}) = n) - 1)

EditorInit ==
  /\ file \in {Absent} \cup Texts
  /\ entries = <<>> /\ counter = 0 /\ cache = <<>> /\ past = <<>>
  /\ edits = 0 /\ outside = 0 /\ answer = "ok"

\* ---- the history -----------------------------------------------------------

\* add_history drops the oldest entries.
MutOldest(e) == SubSeq(e, 1, IF Len(e) > MaxHistory THEN MaxHistory ELSE Len(e))
Oldest(e) == SubSeq(e, 1 + (IF Len(e) > MaxHistory THEN Len(e) - MaxHistory ELSE 0), Len(e))

AddHistory(text) ==
  LET kept == Oldest(Append(entries, counter)) IN
    /\ entries' = kept /\ counter' = counter + 1
    /\ cache' = [n \in ToSet(kept) |-> IF n = counter THEN text ELSE cache[n]]

NoHistory == UNCHANGED <<entries, counter, cache>>

\* ---- searching -------------------------------------------------------------

\* Where a text occurs in the file: an empty one everywhere.
Places(t) == {i \in 1..Len(file) + 1 - Len(t) : SubSeq(file, i, i + Len(t) - 1) = t}

\* strip: without the white space at both ends.
Strip(t) == LET words == {i \in 1..Len(t) : t[i] # EOL}
            IN  IF words = {} THEN <<>> ELSE SubSeq(t, Min(words), Max(words))

\* The arguments of str_replace: a word, a line end, both, or nothing.
Snippets == {<<>>, <<EOL>>} \cup UNION {{<<w>>, <<EOL, w>>, <<w, EOL>>} : w \in Words}

\* ---- the commands ----------------------------------------------------------

\* What an edit leaves: the new text, what was there before it for the reader of
\* the properties, and an error if the snippet of the answer cannot be read back.
Edited(new) ==
  /\ edits < MaxEdits /\ edits' = edits + 1
  /\ file' = new /\ past' = Append(past, file)
  /\ answer' = IF TooLarge(new) THEN "changed" ELSE "ok"
  /\ UNCHANGED outside

\* The write fails, before or after open() has truncated the file, or with a part of
\* the text written; insert moves a temporary file, which may be a copy.
Damaged(new) == {file} \cup Prefixes(new)
WriteDies(new) ==
  /\ WriteFails /\ edits < MaxEdits /\ edits' = edits + 1
  /\ file' \in Damaged(new)
  /\ answer' = "error" /\ NoHistory /\ UNCHANGED <<past, outside>>

\* create: the file must not exist; its own text becomes an entry.
Create(text) ==
  /\ ~Exists
  /\ edits < MaxEdits /\ edits' = edits + 1
  /\ file' = text /\ past' = Append(past, Absent) /\ AddHistory(text)
  /\ answer' = "ok" /\ UNCHANGED outside

CreateFails(text) == ~Exists /\ WriteDies(text)

\* str_replace: what it makes of the file, if the old text occurs just once, or its
\* stripped form where the text itself does not occur.
Replaced(old, text) ==
  LET o == IF Places(old) = {} THEN Strip(old) ELSE old
      n == IF Places(old) = {} THEN Strip(text) ELSE text
  IN  {SubSeq(file, 1, i - 1) \o n \o SubSeq(file, i + Len(o), Len(file)) :
         i \in {p \in Places(o) : Places(o) = {p}}}

\* The file is written, then entered in the history.
StrReplace(old, text) ==
  /\ Exists /\ ~TooLarge(file) /\ old # text
  /\ \E new \in Replaced(old, text) : Edited(new) /\ AddHistory(file)

StrReplaceFails(old, text) ==
  /\ Exists /\ ~TooLarge(file) /\ old # text
  /\ \E new \in Replaced(old, text) : WriteDies(new)

\* insert: the file is replaced and read back before the history is written, so a
\* file that has become too large has no entry.
Inserted(n, text) ==
  FirstLines(file, n) \o text \o <<EOL>>
    \o SubSeq(file, Len(FirstLines(file, n)) + 1, Len(file))

Insert(n, text) ==
  /\ Exists /\ ~TooLarge(file) /\ n \in 0..LineCount(file)
  /\ LET new == Inserted(n, text) IN
       /\ Edited(new)
       /\ IF TooLarge(new) THEN NoHistory ELSE AddHistory(file)

InsertFails(n, text) ==
  /\ Exists /\ ~TooLarge(file) /\ n \in 0..LineCount(file)
  /\ WriteDies(Inserted(n, text))

\* undo_edit: pop_last_history, then write.
Undo ==
  /\ Exists /\ ~TooLarge(file) /\ entries # <<>>
  /\ entries' = Front(entries) /\ cache' = Restrict(cache, ToSet(Front(entries)))
  /\ file' = cache[Last(entries)]
  /\ past' = IF past = <<>> THEN past ELSE Front(past)
  /\ answer' = "ok" /\ UNCHANGED <<counter, edits, outside>>

\* The write fails after the entry was popped: that edit cannot be undone any more.
UndoFails ==
  /\ WriteFails /\ Exists /\ ~TooLarge(file) /\ entries # <<>>
  /\ entries' = Front(entries) /\ cache' = Restrict(cache, ToSet(Front(entries)))
  /\ past' = IF past = <<>> THEN past ELSE Front(past)
  /\ file' \in Damaged(cache[Last(entries)])
  /\ answer' = "error" /\ UNCHANGED <<counter, edits, outside>>

Outside ==
  /\ outside < Outsiders /\ outside' = outside + 1
  /\ file' \in {Absent} \cup Texts
  /\ UNCHANGED <<entries, counter, cache, past, edits, answer>>

EditorNext ==
  \/ \E t \in Texts : Create(t) \/ CreateFails(t)
  \/ \E o, t \in Snippets : StrReplace(o, t) \/ StrReplaceFails(o, t)
  \/ \E n \in 0..2 * MaxLen, t \in {<<w>> : w \in Words} : Insert(n, t) \/ InsertFails(n, t)
  \/ Undo \/ UndoFails \/ Outside
EditorSpec == EditorInit /\ [][EditorNext]_editorVars

\* ---- properties ------------------------------------------------------------

EditorTypeOK ==
  /\ Len(entries) <= MaxHistory /\ DOMAIN cache = ToSet(entries)
  /\ \A i \in 1..Len(entries) : entries[i] < counter
  /\ answer \in {"ok", "error", "changed"}

Depth == IF Len(entries) < Len(past) THEN Len(entries) ELSE Len(past)
Entry(k) == cache[entries[Len(entries) - k]]
Was(k) == past[Len(past) - k]

\* k undos in a row bring back the text the file had before the k-th last edit that
\* was not undone, for every k the history reaches, whatever was undone between
\* and whatever others did to the file; creating a file is not undone.
UndoIsExact == \A k \in 0..Depth - 1 : Was(k) # Absent => Entry(k) = Was(k)

\* definition.py:163: "undo_edit will revert the last edit made to the file".  After
\* a create the entry is the file's own text: the first undo changes nothing.
UndoReverts == \A k \in 0..Depth - 1 : Entry(k) = Was(k)

\* An inserted text is a line of its own.  A last line without an end swallows it.
InsertIsALine ==
  \A n \in 1..LineCount(file) : Exists => Last(FirstLines(file, n)) = EOL

\* An undo that fails can be tried again.
UndoCanBeRetried == [][answer' = "error" => entries' = entries]_editorVars

\* A command that answers with an error, other than of a write that fails, has changed nothing.
ErrorsChangeNothing == answer # "changed"
=============================================================================
