-------------------------- MODULE MCAstreamEmitter --------------------------
(***************************************************************************)
(* StreamedTurn for TLC: the kinds of chunk a run may deliver.  A node     *)
(* "agent" is listed, a node "helper" is not.                              *)
(***************************************************************************)
EXTENDS StreamedTurn

Kind(reasoning, text, frags) ==
  [node |-> "agent", ai |-> TRUE, reasoning |-> reasoning, text |-> text, frags |-> frags]

Frag(index, id, args, origin) ==
  [index |-> index, id |-> id, args |-> args, origin |-> origin]

\* Fragments of one model turn.  Upstream call 1 comes in pieces that share an
\* index, of which the first has the id and no arguments, as OpenAI sends them;
\* call 2 has pieces with index and id; call 3 is identified by its id alone;
\* and a provider may send whole calls with neither.
OpenFirst == Frag(0, 1, FALSE, 1)
MoreOfFirst == Frag(0, None, TRUE, 1)
PieceOfSecond == Frag(1, 2, TRUE, 2)
PieceOfThird == Frag(None, 3, TRUE, 3)
Whole == Frag(None, None, TRUE, 0)

\* A chunk in which call 1 is opened may come, or one that only continues it.
OneTurn ==
  { Kind(TRUE, FALSE, <<>>), Kind(TRUE, TRUE, <<>>), Kind(FALSE, TRUE, <<OpenFirst>>),
    Kind(FALSE, FALSE, <<OpenFirst, MoreOfFirst>>),
    Kind(FALSE, FALSE, <<OpenFirst, PieceOfSecond>>), Kind(FALSE, FALSE, <<MoreOfFirst>>),
    Kind(FALSE, FALSE, <<PieceOfThird>>),
    Kind(TRUE, TRUE, <<Whole>>),
    [Kind(FALSE, TRUE, <<>>) EXCEPT !.ai = FALSE],
    [Kind(TRUE, TRUE, <<OpenFirst>>) EXCEPT !.node = "helper"] }

\* A run with two model turns, each of which calls a tool: the provider counts
\* the calls of a turn from index 0 again.
TwoTurns ==
  { Kind(FALSE, FALSE, <<Frag(0, 1, TRUE, 1)>>), Kind(FALSE, FALSE, <<Frag(0, 2, TRUE, 2)>>) }

\* Reasoning and text.
ReasoningAndText == { Kind(TRUE, FALSE, <<>>), Kind(FALSE, TRUE, <<>>) }

Agent == {"agent"}

\* But for the run that shows what comes of it, every provider can be followed.
ASSUME ProviderAssumption == Chunks = TwoTurns \/ Coherent
=============================================================================
