--------------------------- MODULE FnCallConverter ---------------------------
(***************************************************************************)
(* Tool calls of models that have none: the history is rewritten as text,  *)
(* the reply is parsed together with it (llm/mixins/fn_call_converter.py,  *)
(* llm/mixins/non_native_fc.py), and what was parsed joins the history     *)
(* that is rewritten for the next request.  A text is a sequence of        *)
(* tokens <<kind, name>>: a tag is one token, so is a word.  A reply may    *)
(* also hold "bad", a <parameter=name= without the >, and "cut", the </    *)
(* that is left of a closing tag by a stop word.                           *)
(***************************************************************************)
EXTENDS Integers, Sequences, FiniteSets

CONSTANTS Params,     \* parameter -> its type: "string", "integer", "array"
          Required,   \* the required ones of the one tool
          Tool, Aliases,  \* its name; names it is also called by
          Thoughts, Bodies, Tails,  \* what a reply is made of
          Outputs, Users, \* texts of results and of user messages
          Condensing, \* whether the condenser may forget rounds
          MaxRounds   \* bound: replies

Word(w) == <<"text", w>>
Nl == <<"nl", "">>
Open(f) == <<"fn", f>>
Close == <<"/fn", "">>
Par(p) == <<"par", p>>
End == <<"/par", "">>
Wrap(x) == <<"wrap", x>>      \* </think>, <tool_call>, </tool_call>
Result(f) == <<"res", f>>     \* EXECUTION RESULT of [f]:
Example == <<"example", "">>  \* the example, which holds such a line, and its end
ExampleEnd == <<"end", "">>

ConverterAssumption ==
  /\ Required \subseteq DOMAIN Params /\ Tool \notin Aliases
  /\ Condensing \in BOOLEAN /\ MaxRounds \in Nat

VARIABLES log,     \* the history as the agent keeps it
          ids,     \* the ids of all calls, in order
          rounds   \* replies so far
vars == <<log, ids, rounds>>

NoCall == [fn |-> "", args |-> <<>>, id |-> 0]
Message(role, text, call) == [role |-> role, text |-> text, call |-> call]
Failure == [ok |-> FALSE]

-----------------------------------------------------------------------------
(* Texts. *)
Is(s, i, kind) == s[i][1] = kind
Places(s, kind) == {i \in DOMAIN s : Is(s, i, kind)}
Least(S) == CHOOSE i \in S : \A j \in S : i <= j
From(s, i) == SubSeq(s, i, Len(s))
Solid(s) == DOMAIN s \ Places(s, "nl")
LStrip(s) == IF Solid(s) = {} THEN <<>> ELSE From(s, Least(Solid(s)))
RStrip(s) == IF Solid(s) = {} THEN <<>>
             ELSE SubSeq(s, 1, CHOOSE i \in Solid(s) : \A j \in Solid(s) : j <= i)
Strip(s) == LStrip(RStrip(s))
Has(s, kind) == Places(s, kind) # {}

-----------------------------------------------------------------------------
(* From the history to text. *)

\* convert_tool_call_to_string
Written(arg) ==
  LET nl == IF Has(arg.value, "nl") THEN <<Nl>> ELSE <<>> IN
  <<Par(arg.name)>> \o nl \o arg.value \o nl \o <<End, Nl>>
CallText(call) ==
  LET args[i \in 0 .. Len(call.args)] == IF i = 0 THEN <<>> ELSE args[i - 1] \o Written(call.args[i])
  IN <<Open(call.fn), Nl>> \o args[Len(call.args)] \o <<Close>>

\* convert_fncall_messages_to_non_fncall_messages; the example goes to the first
\* user message.
FirstUser(msgs) == {i \in DOMAIN msgs : msgs[i].role = "user" /\ \A j \in 1 .. i - 1 : msgs[j].role # "user"}
Text(msgs, i) ==
  LET m == msgs[i] IN
  CASE m.role = "user" -> Message("user", IF i \in FirstUser(msgs) THEN <<Example>> \o m.text \o <<ExampleEnd>>
                                          ELSE m.text, NoCall)
    [] m.role = "tool" -> Message("user", <<Result(m.call.fn)>> \o m.text, NoCall)
    [] m.role = "assistant" /\ m.call # NoCall ->
         Message("assistant", LStrip(m.text \o <<Nl, Nl>> \o CallText(m.call)), NoCall)
    [] OTHER -> m
AsText(msgs) == [i \in DOMAIN msgs |-> Text(msgs, i)]

-----------------------------------------------------------------------------
(* From text to the history. *)

\* One substitution of _preprocess_model_output: a tag and the blanks after it are
\* dropped in front of a call, </tool_call> and the blanks before it behind one.
Drop(s, A) ==
  LET kept[i \in 0 .. Len(s)] ==
        IF i = 0 THEN <<>> ELSE IF i \in A THEN kept[i - 1] ELSE Append(kept[i - 1], s[i])
  IN IF A = {} THEN s ELSE kept[Len(s)]
Tags(s, x) == {i \in Places(s, "wrap") : s[i] = Wrap(x)}
Blank(s, i, j) == \A k \in i + 1 .. j - 1 : Is(s, k, "nl")
Before(s, x) ==
  Drop(s, UNION {{k \in i .. Len(s) : k < j} : <<i, j>> \in
                 {p \in Tags(s, x) \X Places(s, "fn") : p[1] < p[2] /\ Blank(s, p[1], p[2])}})
After(s, x) ==
  Drop(s, UNION {{k \in 1 .. j : i < k} : <<i, j>> \in
                 {p \in Places(s, "/fn") \X Tags(s, x) : p[1] < p[2] /\ Blank(s, p[1], p[2])}})
Cleaned(s) == After(Before(Before(s, "/think"), "tool"), "/tool")

\* _fix_stopword, of a text that is cleaned.
Fixed(t) ==
  IF Cardinality(Places(t, "fn")) # 1 THEN t
  ELSE IF Is(t, Len(t), "cut") THEN Append(SubSeq(t, 1, Len(t) - 1), Close)
  ELSE IF \E i \in Places(t, "/fn") : \A j \in i + 1 .. Len(t) : Is(t, j, "nl") THEN t
  ELSE t \o <<Nl, Close>>

\* FN_REGEX_PATTERN: the first call that is closed, its name and its body.
Openings(s) == {i \in Places(s, "fn") : \E j \in Places(s, "/fn") : i < j}
Closing(s, i) == Least({j \in Places(s, "/fn") : i < j})
Body(s) == LET i == Least(Openings(s)) IN SubSeq(s, i + 1, Closing(s, i) - 1)

\* _normalize_parameter_tags
Normal(s) ==
  [i \in DOMAIN s |->
     IF Is(s, i, "bad") /\ \E j \in Places(s, "/par") :
          i < j /\ \A k \in i + 1 .. j - 1 : s[k][1] \in {"text", "nl", "res"}
     THEN Par(s[i][2]) ELSE s[i]]

\* "Normalize whitespace: some models add extra newlines around values".
MutValue(s) == s  \* mutant: it is kept
Value(s) == Strip(s)

\* FN_PARAM_REGEX_PATTERN, from place i on.  A tag that is still malformed takes in
\* the next tag and has a name no tool knows.
ParamFrom(s) ==
  LET n == Len(s)
      \* where the name ends and where the value ends, for a match at i; 0 for none
      Named(i) == IF Is(s, i, "par") THEN i
                  ELSE LET T == {k \in i + 1 .. n : s[k][1] \notin {"text", "nl", "res", "cut"}} IN
                       IF T = {} THEN n ELSE Least(T)
      Ends(i) == {j \in Places(s, "/par") : Named(i) < j}
      match[i \in 1 .. n + 1] ==
        IF i = n + 1 THEN <<>>
        ELSE IF s[i][1] \in {"par", "bad"} /\ Ends(i) # {}
        THEN LET j == Least(Ends(i)) IN
             <<[name |-> IF Is(s, i, "par") THEN s[i][2] ELSE "?",
                value |-> Value(SubSeq(s, Named(i) + 1, j - 1))]>> \o match[j + 1]
        ELSE match[i + 1]
  IN match[1]

\* _extract_and_validate_params; a parameter given twice keeps its first place and
\* its last value.
Valid(arg) ==
  /\ arg.name \in DOMAIN Params
  /\ Params[arg.name] = "integer" => arg.value = <<Word("5")>>
  /\ Params[arg.name] = "array" => arg.value = <<Word("[]")>>
Put(d, arg) == LET I == {i \in DOMAIN d : d[i].name = arg.name} IN
               IF I = {} THEN Append(d, arg) ELSE [d EXCEPT ![Least(I)] = arg]
Dict(args) ==
  LET dict[i \in 0 .. Len(args)] == IF i = 0 THEN <<>> ELSE Put(dict[i - 1], args[i])
  IN dict[Len(args)]
Accepted(args) ==
  /\ \A i \in DOMAIN args : Valid(args[i])
  /\ Required \subseteq {args[i].name : i \in DOMAIN args}

\* One assistant message, s its text when fixed: a call, no call, or an error
\* (FunctionCallValidationError).
CallOf(s, fn, args, id) ==
  IF fn \notin Aliases \cup {Tool} \/ ~Accepted(args) THEN Failure
  ELSE Message("assistant", Strip(SubSeq(s, 1, Least(Places(s, "fn")) - 1)),
               [fn |-> Tool, args |-> Dict(args), id |-> id])
Parsed(m, s, id) ==
  IF Openings(s) = {} THEN m
  ELSE CallOf(s, s[Least(Openings(s))][2], ParamFrom(Normal(Body(s))), id)

\* A user message: without the example; a result again, if it looks like one.
Unframed(t) ==
  SubSeq(t, IF t # <<>> /\ t[1] = Example THEN 2 ELSE 1,
            IF t # <<>> /\ t[Len(t)] = ExampleEnd THEN Len(t) - 1 ELSE Len(t))
Received(b, id) ==
  LET R == Places(b, "res") \cup Places(b, "example") IN
  IF R = {} THEN Message("user", b, NoCall)
  ELSE Message("tool", Strip(From(b, Least(R) + 1)), [NoCall EXCEPT !.fn = b[Least(R)][2], !.id = id])
Returned(m, first, id) == Received(IF first THEN Unframed(m.text) ELSE m.text, id - 1)

\* convert_non_fncall_messages_to_fncall_messages: ids are counted from the start.
Joined(d, p) ==
  IF p = Failure THEN [d EXCEPT !.ok = FALSE]
  ELSE [d EXCEPT !.msgs = Append(@, p), !.next = IF p.call = NoCall THEN @ ELSE @ + 1]
Converted(d, m) ==
  IF ~d.ok THEN d
  ELSE IF m.role = "user"
  THEN [d EXCEPT !.msgs = Append(@, Returned(m, d.first, d.next)), !.first = FALSE]
  ELSE Joined(d, Parsed(m, Fixed(Cleaned(m.text)), d.next))
FromText(msgs) ==
  LET d[i \in 0 .. Len(msgs)] ==
        IF i = 0 THEN [ok |-> TRUE, msgs |-> <<>>, first |-> TRUE, next |-> 1]
        ELSE Converted(d[i - 1], msgs[i])
  IN d[Len(msgs)]

-----------------------------------------------------------------------------
(* The agent: each reply is parsed behind the history it answers. *)
Init == /\ log \in {<<Message("user", u, NoCall)>> : u \in Users}
        /\ ids = <<>> /\ rounds = 0

\* post_response_prompt_mock keeps the last message; the agent logs a call with its
\* result, tells the LLM of an error, or ends its turn with a message.
Take(ok, m) ==
  \/ /\ ~ok /\ log' = Append(log, Message("user", <<Word("error")>>, NoCall))
     /\ UNCHANGED ids
  \/ /\ ok /\ m.call # NoCall /\ ids' = Append(ids, m.call.id)
     /\ \E r \in Outputs : log' = log \o <<m, Message("tool", r, [m.call EXCEPT !.args = <<>>])>>
  \/ /\ ok /\ m.call = NoCall /\ UNCHANGED ids
     /\ \E u \in Users : log' = log \o <<m, Message("user", u, NoCall)>>

TakeLast(d) == Take(d.ok, d.msgs[Len(d.msgs)])

Reply ==
  /\ rounds < MaxRounds /\ rounds' = rounds + 1
  /\ LET past == FromText(AsText(log)) IN
     \E t \in Thoughts, b \in Bodies, e \in Tails :
       TakeLast(Converted(past, Message("assistant", t \o b \o e, NoCall)))

\* A condenser forgets rounds after the first message.
Forget ==
  /\ Condensing
  /\ \E i \in 3 .. Len(log) : log[i].role # "tool" /\ log' = <<log[1]>> \o From(log, i)
  /\ UNCHANGED <<ids, rounds>>

Next == Reply \/ Forget
Spec == Init /\ [][Next]_vars

-----------------------------------------------------------------------------
\* What was parsed out of a reply, whatever its form, is written so that it is read
\* back with every later reply: the same calls with the same arguments, texts and
\* results, and never an error, which would fail every request from then on.
Alike(m, n) ==
  /\ m.role = n.role /\ m.call.fn = n.call.fn /\ m.call.args = n.call.args
  /\ m.text = IF m.role = "tool" THEN Strip(n.text) ELSE n.text
ReadsBack ==
  LET d == FromText(AsText(log)) IN
  /\ d.ok
  /\ \A i \in DOMAIN log : Alike(d.msgs[i], log[i])

\* No two calls of a conversation have one id: what View and the matching of results
\* with calls rely on.
IdsDistinct == \A i, j \in DOMAIN ids : ids[i] = ids[j] => i = j
=============================================================================
