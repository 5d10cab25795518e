---------------------------- MODULE StreamedTurn ----------------------------
(***************************************************************************)
(* AstreamEmitter together with MessageItems: what a client is shown while *)
(* a turn is streamed, against what the server makes of the message the    *)
(* turn leaves in its thread when it is asked for the response later.      *)
(***************************************************************************)
EXTENDS AstreamEmitter, MessageItems

\* The chunks of s that the caller listens to, put together as the graph puts them
\* together before it saves them.
NoneListed(s, n) == \A k \in 1 .. n : ~Listed(s[k])
PutTogether(s) ==
  LET upto[n \in 0 .. Len(s)] ==
        IF n = 0 THEN Message(1, "assistant", <<>>)
        ELSE IF Listed(s[n]) THEN AddChunk(upto[n - 1], s[n], NoneListed(s, n - 1))
        ELSE upto[n - 1]
  IN  upto[Len(s)]
Stored == PutTogether(source)

\* The items of the stored message that a stream completes: not its reasoning, which
\* comes first, and not the item of a message that says nothing.
Lasting ==
  IF Stored.text = <<>> /\ ToolCalls(Stored) = <<>> THEN <<>>
  ELSE SubSeq(AiItems(Stored), Len(Thoughts(Stored)) + 1, Len(AiItems(Stored)))

\* LangChain too can put the calls together: the pieces of one that comes in several
\* have an index, at most one of them is in the first chunk, and its arguments are an
\* object.
OfFirstChunk(x) == NoneListed(source, x[1] - 1)
Joinable ==
  \A x \in Places :
    /\ PieceAt(x).origin \notin Garbled
    /\ \A y \in Places \ {x} : PieceAt(x).origin = PieceAt(y).origin /\ PieceAt(x).origin # 0 =>
         PieceAt(x).index # None /\ ~(OfFirstChunk(x) /\ OfFirstChunk(y))

\* After one model turn whose calls LangChain can put together the final output of the
\* stream is, item by item and in the same order, what GET returns for the response:
\* calls first, then the message, each with the same content, arguments as the object
\* they are read as, and, if the provider gave one, the same call_id (responses.py
\* 536-592, 131-153).
SameAsStored ==
  Joinable => \A i \in DOMAIN log : log[i].type = "completed" =>
    /\ Len(log[i].output) = Len(Lasting)
    /\ \A j \in DOMAIN Lasting :
         LET sent == log[i].output[j]
             kept == Lasting[j]
         IN \/ /\ sent.item = 0 /\ kept.type = "message"
               /\ sent.call = None /\ kept.body = sent.body
            \/ /\ sent.item # 0 /\ kept.type = "function_call"
               /\ sent.call = kept.call \/ (kept.call = None /\ sent.call < 0)
               /\ kept.body = Object(sent.body)
=============================================================================
