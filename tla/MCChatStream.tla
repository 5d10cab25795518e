---------------------------- MODULE MCChatStream ----------------------------
(***************************************************************************)
(* ChatStream for TLC: the kinds of chunk a model may deliver.             *)
(***************************************************************************)
EXTENDS ChatStream

Kind(reasoning, text, frags) ==
  [node |-> "agent", ai |-> TRUE, reasoning |-> reasoning, text |-> text, frags |-> frags]

Frag(index, id, args, origin) ==
  [index |-> index, id |-> id, args |-> args, origin |-> origin]

\* A provider numbers the calls of a message, or gives only ids, or neither.  The
\* first pieces of calls 1 and 3 have their ids and no arguments.  LangChain joins the
\* pieces of call 1, keeps those of call 3 apart, and cannot read the arguments of
\* call 4.
OpenFirst == Frag(0, 1, FALSE, 1)
MoreOfFirst == Frag(0, None, TRUE, 1)
PieceOfSecond == Frag(1, 2, TRUE, 2)
OpenThird == Frag(None, 3, FALSE, 3)
PieceOfThird == Frag(None, 3, TRUE, 3)
PieceOfFourth == Frag(None, 4, TRUE, 4)
Whole == Frag(None, None, TRUE, 0)

\* The empty chunk is all a model may have to say once its tools have answered.
AnyChunks ==
  { Kind(FALSE, FALSE, <<>>), Kind(TRUE, TRUE, <<>>), Kind(FALSE, TRUE, <<OpenFirst>>),
    Kind(FALSE, FALSE, <<OpenFirst, PieceOfSecond>>),
    Kind(FALSE, FALSE, <<OpenFirst, MoreOfFirst>>),
    Kind(FALSE, FALSE, <<OpenThird, PieceOfFourth>>), Kind(FALSE, FALSE, <<PieceOfThird>>),
    Kind(FALSE, FALSE, <<PieceOfFourth>>),
    Kind(TRUE, FALSE, <<Whole>>) }

ASSUME ProviderAssumption == Coherent

\* Text and a call.
TextAndCall == { Kind(FALSE, TRUE, <<>>), Kind(FALSE, FALSE, <<Frag(0, 1, TRUE, 1)>>) }
=============================================================================
