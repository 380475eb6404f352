----------------------------- MODULE MCHistory -----------------------------
(* The history with its condenser, the stuck detector, and the conversion of   *)
(* tool calls to text and back, in one run: the initial state chooses which of *)
(* them runs, the others stand still.                                          *)
EXTENDS History

VARIABLES part, events, status, messages, ids, rounds
text == <<messages, ids, rounds>>

S == INSTANCE StuckDetector WITH
  ActionObservation <- 2, ActionError <- 2, Monologue <- 2, Alternating <- 3,
  Contents <- {1, 2}, Parallel <- 1, Confirms <- TRUE, MaxEvents <- 7

\* The tokens of FnCallConverter, and replies made of them: values of one and of two
\* lines, malformed tags, a tag in a value, calls cut off by a stop word, wrappers.
W == <<"text", "w">>
Nl == <<"nl", "">>
Par(p) == <<"par", p>>
End == <<"/par", "">>
Values == {<<Par("a"), W, End>>, <<Par("a"), Nl, W, Nl, W, Nl, End, Nl>>, <<<<"bad", "a">>, W, End>>,
           <<Par("n"), Nl, <<"text", "5">>, End>>, <<Par("n")>>,
           <<Par("a"), <<"fn", "sed">>, Nl, <<"bad", "n">>, <<"text", "5">>, End>>}

C == INSTANCE FnCallConverter WITH
  Params <- [a |-> "string", n |-> "integer"], Required <- {"a"}, Tool <- "edit", Aliases <- {"sed"},
  Thoughts <- {<<>>, <<W, Nl, <<"wrap", "/think">>, Nl>>},
  Bodies <- {<<>>} \cup {<<<<"fn", "sed">>>> \o s : s \in Values}
                  \cup {<<<<"fn", "edit">>>> \o s \o t : s \in Values, t \in Values},
  Tails <- {<<>>, <<<<"cut", "">>>>, <<Nl, <<"/fn", "">>, Nl, <<"wrap", "/tool">>>>},
  Outputs <- {<<Nl, <<"res", "edit">>, W>>}, Users <- {<<W>>},
  Condensing <- FALSE, MaxRounds <- 2, log <- messages

ASSUME S!ThresholdAssumption /\ C!ConverterAssumption

HistoryInit == part \in {"history", "stuck", "text"} /\ Init /\ S!Init /\ C!Init
Steps == part = "history" /\ Next /\ UNCHANGED <<part, events, status, text>>
Rounds == part = "stuck" /\ S!Next /\ UNCHANGED <<part, vars, text>>
Replies == part = "text" /\ C!Next /\ UNCHANGED <<part, vars, events, status>>
HistoryNext == Steps \/ Rounds \/ Replies
HistorySpec == HistoryInit /\ [][HistoryNext]_<<part, vars, events, status, text>>

\* StuckDetector: for calls made one at a time and none rejected the detector says
\* exactly what the pairs of calls and results say.
Exact == part = "stuck" => S!Exact

\* FnCallConverter: what was parsed out of a reply is read back with every later one.
ReadsBack == part = "text" => C!ReadsBack
=============================================================================
