--------------------------- MODULE MCEventsEmitter ---------------------------
(***************************************************************************)
(* EventsEmitter for TLC: the kinds of chunk a model run may deliver.      *)
(***************************************************************************)
EXTENDS EventsEmitter

Kind(node, reasoning, text, frags) ==
  [node |-> node, ai |-> TRUE, reasoning |-> reasoning, text |-> text, frags |-> frags]

\* Call 1 of a run comes in pieces that share an index, of which the first has
\* the id and no arguments; call 2 has pieces with index and id; and a provider
\* may send a whole call with neither.
OpenFirst == [index |-> 0, id |-> 1, args |-> FALSE, origin |-> 1]
MoreOfFirst == [index |-> 0, id |-> None, args |-> TRUE, origin |-> 1]
PieceOfSecond == [index |-> 1, id |-> 2, args |-> TRUE, origin |-> 2]
Whole == [index |-> None, id |-> None, args |-> TRUE, origin |-> 0]

\* An agent that thinks, speaks and calls tools, and a helper no one listens to.
AgentChunks ==
  { Kind("agent", TRUE, TRUE, <<OpenFirst>>),
    Kind("agent", FALSE, TRUE, <<OpenFirst, PieceOfSecond>>),
    Kind("agent", FALSE, FALSE, <<MoreOfFirst, Whole>>), Kind("helper", FALSE, TRUE, <<>>) }

\* Text and a piece of a call.
FewChunks == { Kind("agent", FALSE, TRUE, <<PieceOfSecond>>) }

\* The provider says which call a piece belongs to.
ASSUME ProviderAssumption == Coherent

Agent == {"agent"}
NoFaults == {}
AllFaults == {"tool_error", "stray_end"}
=============================================================================
