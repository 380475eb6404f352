--------------------------- MODULE MCConversation ---------------------------
(***************************************************************************)
(* Instances of Conversation for TLC: the batches of tool calls an LLM     *)
(* answers with, and the symmetry of the threads that call run().          *)
(***************************************************************************)
EXTENDS Conversation, TLC

OneTool == {<<"tool">>}
ToolsAndFinish == {<<"tool">>, <<"finish", "tool">>, <<"finish">>}
EveryCall == {<<"invalid", "tool">>, <<"tool", "finish">>, <<"finish">>}

SameRunners == Permutations(Runners)
=============================================================================
