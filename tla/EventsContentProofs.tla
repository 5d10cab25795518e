------------------------- MODULE EventsContentProofs -------------------------
(***************************************************************************)
(* What EventsEmitter does with the content of the model runs: however     *)
(* they overlap, each piece of arguments ends up in one call; and when     *)
(* they follow one another, all that was asked for is streamed, the sink   *)
(* holds every text, and the pieces of a call are put together as the      *)
(* provider meant them.                                                    *)
(***************************************************************************)
EXTENDS EventsEmitterProofs, ChunkProofs

-----------------------------------------------------------------------------
(* The chunk being processed.                                              *)

Left == TokensOf(cur)

\* The pieces left are in order.  Where arguments are owed they are next; nothing
\* is left while a run's end is handled or when the stream is over; and a completed
\* response is the end.
Placed ==
  /\ InOrder(cur)
  /\ \A x \in Left : x <= fed
  /\ pc = "args" => cur.reasoning = 0 /\ cur.text = 0 /\ Head(cur.frags).args # 0
  /\ pc \notin {"stream", "part", "args", "gone"} => Spent
  /\ Completed => pc = "end"

\* A step that streams x, the first piece left, in a delta of type t for item,
Streams(x, t, item) ==
  /\ UNCHANGED <<source, fed>>
  /\ x \in Left /\ Left = Left' \cup {x} /\ \A y \in Left' : x < y
  /\ \E e : Yield(e) /\ e.type = t /\ e.item = item /\ e.body = <<x>>

\* and one that streams no content.
Quiet ==
  /\ UNCHANGED <<source, fed>> /\ Left' = Left
  /\ UNCHANGED log \/ \E e : Yield(e) /\ e.type \notin DeltaTypes

LEMMA SpentLeft == Spent => Left = {} /\ InOrder(cur)
  BY NothingLeft DEF Spent, Left

\* A longer log holds a completed event if it did or the new one is it.
LEMMA CompletedGrows ==
  ASSUME log \in Seq(Event), NEW e, Yield(e)
  PROVE  Completed' <=> Completed \/ e.type = "completed"
<1>1. /\ DOMAIN log' = DOMAIN log \cup {Len(log) + 1} /\ log'[Len(log) + 1] = e
      /\ \A i \in DOMAIN log : log'[i] = log[i]
  BY LogGrows DEF Yield
<1> QED
  BY <1>1 DEF Completed

\* A step of a stream that is not over, which does not complete it.
LEMMA NotCompleted ==
  ASSUME TypeOK, Placed, pc # "end",
         UNCHANGED log \/ \E e : Yield(e) /\ e.type # "completed"
  PROVE  ~Completed'
<1>1. log \in Seq(Event) /\ ~Completed
  BY DEF TypeOK, Placed
<1>2. CASE UNCHANGED log
  BY <1>1, <1>2 DEF Completed
<1>3. CASE \E e : Yield(e) /\ e.type # "completed"
  BY <1>1, <1>3, CompletedGrows
<1> QED
  BY <1>2, <1>3

LEMMA ReasoningTaken ==
  ASSUME TypeInv, Placed, EmitReasoning
  PROVE  /\ Placed'
         /\ \E item : Streams(cur.reasoning, "reasoning.delta", item)
<1>1. /\ cur \in Pending /\ InOrder(cur) /\ pc = "stream" /\ pc' = "stream"
      /\ cur' = [cur EXCEPT !.reasoning = 0] /\ cur.reasoning # 0
      /\ UNCHANGED <<source, fed>>
  BY DEF TypeInv, TypeOK, Placed, EmitReasoning, graph
<1>2. /\ InOrder(cur') /\ cur.reasoning \in Left /\ Left = Left' \cup {cur.reasoning}
      /\ \A y \in Left' : cur.reasoning < y
  BY <1>1, TakeOut DEF Left
<1>3. PICK item : Yield(About("reasoning.delta", item, None, None, <<cur.reasoning>>))
  BY DEF EmitReasoning
<1>4. Streams(cur.reasoning, "reasoning.delta", item)
  BY <1>1, <1>2, <1>3 DEF Streams, About
<1>5. ~Completed'
  BY <1>1, <1>3, NotCompleted DEF TypeInv, About
<1> QED
  BY <1>1, <1>2, <1>4, <1>5 DEF Placed

LEMMA TextTaken ==
  ASSUME TypeInv, Placed, EmitText
  PROVE  Placed' /\ Streams(cur.text, "text.delta", current.item)
<1>1. /\ cur \in Pending /\ InOrder(cur) /\ pc = "stream" /\ pc' = "stream"
      /\ cur' = [cur EXCEPT !.text = 0] /\ cur.text # 0 /\ cur.reasoning = 0
      /\ UNCHANGED <<source, fed>>
  BY DEF TypeInv, TypeOK, Placed, EmitText, graph
<1>2. /\ InOrder(cur') /\ cur.text \in Left /\ Left = Left' \cup {cur.text}
      /\ \A y \in Left' : cur.text < y
  BY <1>1, TakeOut DEF Left
<1>3. Yield(About("text.delta", current.item, current.idx, None, <<cur.text>>))
  BY DEF EmitText, OfMessage
<1>4. Streams(cur.text, "text.delta", current.item)
  BY <1>1, <1>2, <1>3 DEF Streams, About
<1>5. ~Completed'
  BY <1>1, <1>3, NotCompleted DEF TypeInv, About
<1> QED
  BY <1>1, <1>2, <1>4, <1>5 DEF Placed

\* The first fragment left, with or without arguments.
LEMMA FragmentTaken ==
  ASSUME TypeInv, Placed, PopFragment, UNCHANGED <<source, fed>>, cur.frags # <<>>,
         cur.reasoning = 0, cur.text = 0, pc \in {"stream", "args"}, pc' = "stream"
  PROVE  LET x == Head(cur.frags).args
         IN  /\ ~Completed' => Placed'
             /\ x = 0 => Left' = Left
             /\ x # 0 => /\ x \in Left /\ Left = Left' \cup {x}
                         /\ \A y \in Left' : x < y
<1> DEFINE x == Head(cur.frags).args
<1>1. cur \in Pending /\ InOrder(cur)
  BY DEF TypeInv, TypeOK, Placed
<1>2. cur' = [cur EXCEPT !.frags = Tail(@)]
  BY DEF PopFragment
<1>3. /\ InOrder(cur')
      /\ x = 0 => TokensOf(cur') = TokensOf(cur)
      /\ x # 0 => /\ x \in TokensOf(cur) /\ TokensOf(cur) = TokensOf(cur') \cup {x}
                  /\ \A y \in TokensOf(cur') : x < y
  BY <1>1, <1>2, TakeFragment
<1> HIDE DEF x
<1>4. Left' \subseteq Left
  BY <1>3 DEF Left
<1>5. ~Completed' => Placed'
  BY <1>3, <1>4 DEF Placed
<1> QED
  BY <1>3, <1>5 DEF Left, x

LEMMA ArgsTaken ==
  ASSUME TypeInv, Placed, EmitArgs
  PROVE  Placed' /\ Streams(Head(cur.frags).args, "args.delta", calls[Len(calls)].item)
<1> DEFINE x == Head(cur.frags).args
<1>1. /\ pc = "args" /\ pc' = "stream" /\ cur.frags # <<>> /\ PopFragment
      /\ cur.reasoning = 0 /\ cur.text = 0 /\ x # 0 /\ UNCHANGED <<source, fed>>
  BY DEF TypeInv, Control, Placed, EmitArgs, graph
<1>2. /\ ~Completed' => Placed'
      /\ x \in Left /\ Left = Left' \cup {x} /\ \A y \in Left' : x < y
  BY <1>1, FragmentTaken
<1>3. Yield(About("args.delta", calls[Len(calls)].item, calls[Len(calls)].idx, None, <<x>>))
  BY DEF EmitArgs, ArgsDelta
<1> HIDE DEF x
<1>4. Streams(x, "args.delta", calls[Len(calls)].item)
  BY <1>1, <1>2, <1>3 DEF Streams, About
<1>5. ~Completed'
  BY <1>1, <1>3, NotCompleted DEF TypeInv, About
<1> QED
  BY <1>2, <1>4, <1>5 DEF x

LEMMA ContinueTaken ==
  ASSUME TypeInv, Placed, NEW n \in DOMAIN calls, ContinueCall(n)
  PROVE  LET x == Head(cur.frags).args
         IN  /\ Placed'
             /\ x # 0 => Streams(x, "args.delta", calls[n].item)
             /\ x = 0 => Quiet /\ log' = log
<1> DEFINE x == Head(cur.frags).args
<1>1. /\ pc = "stream" /\ pc' = "stream" /\ cur.frags # <<>> /\ PopFragment
      /\ cur.reasoning = 0 /\ cur.text = 0 /\ UNCHANGED <<source, fed>>
  BY DEF AtFragment, ContinueCall, graph
<1>2. /\ ~Completed' => Placed'
      /\ x = 0 => Left' = Left
      /\ x # 0 => x \in Left /\ Left = Left' \cup {x} /\ \A y \in Left' : x < y
  BY <1>1, FragmentTaken
<1>3. IF x # 0 THEN Yield(About("args.delta", calls[n].item, calls[n].idx, None, <<x>>))
               ELSE UNCHANGED log
  BY DEF ContinueCall, ArgsDelta
<1> HIDE DEF x
<1>4. x # 0 => Streams(x, "args.delta", calls[n].item)
  BY <1>1, <1>2, <1>3 DEF Streams, About
<1>5. ~Completed'
  BY <1>1, <1>3, NotCompleted DEF TypeInv, About
<1>6. x = 0 => Quiet
  BY <1>1, <1>2, <1>3 DEF Quiet
<1> QED
  BY <1>2, <1>3, <1>4, <1>5, <1>6 DEF x

LEMMA StartTaken ==
  ASSUME TypeInv, Placed, StartCall
  PROVE  Placed' /\ Quiet
<1> DEFINE x == Head(cur.frags).args
           c == [item |-> <<"fc", made + 1>>, key |-> OwnKey(Head(cur.frags)), idx |-> nextIndex,
                 call |-> IdOf(Head(cur.frags), -(made + 1)), args |-> <<>>]
<1>1. /\ pc = "stream" /\ cur.frags # <<>> /\ cur.reasoning = 0 /\ cur.text = 0
      /\ UNCHANGED <<source, fed>>
  BY DEF AtFragment, StartCall, graph
<1>2. Yield(OfCall("item.added", c, <<>>))
  BY DEF StartCall
<1> HIDE DEF c
<1>3. \E e : Yield(e) /\ e.type = "item.added"
  BY <1>2 DEF OfCall, About
<1>4. ~Completed'
  BY <1>1, <1>3, NotCompleted DEF TypeInv
<1>5. CASE x # 0
  <2>1. pc' = "args" /\ cur' = cur
    BY <1>5 DEF StartCall
  <2> QED
    BY <1>1, <1>3, <1>4, <1>5, <2>1 DEF Placed, Quiet, Left, DeltaTypes
<1>6. CASE x = 0
  <2>1. pc' = "stream" /\ PopFragment
    BY <1>1, <1>6 DEF StartCall
  <2>2. Placed' /\ Left' = Left
    BY <1>1, <1>4, <1>6, <2>1, FragmentTaken
  <2> QED
    BY <1>1, <1>3, <2>2 DEF Quiet, DeltaTypes
<1> QED
  BY <1>5, <1>6

\* A chunk: what is left of it is new, and all of it unless it is dropped.
LEMMA ChunkTaken ==
  ASSUME TypeInv, Placed, NEW r \in open, NEW k \in Chunks, ModelStream(r, k)
  PROVE  LET c == Fill(k, fed)
         IN  /\ Placed' /\ log' = log
             /\ source' = Append(source, [run |-> r, chunk |-> c])
             /\ fed' \in Nat /\ fed <= fed'
             /\ \A x \in TokensOf(c) : x \in Nat /\ fed < x /\ x <= fed'
             /\ Left = {} /\ Left' \subseteq TokensOf(c)
             /\ ~Accepts(k) => Left' = {}
             /\ Accepts(k) /\ current # None => Left' = TokensOf(c)
<1> DEFINE c == Fill(k, fed)
<1>1. /\ fed \in Nat /\ k \in ChunkKind({k.node}) /\ Spent /\ pc = "stream" /\ pc' = "stream"
      /\ fed' = fed + 2 + Len(k.frags) /\ log' = log /\ ~Completed'
      /\ source' = Append(source, [run |-> r, chunk |-> c])
      /\ cur' = IF ~Accepts(k) THEN Nothing
                ELSE IF current = None THEN [Contents(c) EXCEPT !.text = 0] ELSE Contents(c)
  BY EventChunksAssumption
     DEF TypeInv, TypeOK, ModelStream, Waiting, Placed, Completed
<1>2. /\ Contents(c) \in Pending /\ InOrder(Contents(c))
      /\ TokensOf(Contents(c)) = TokensOf(c)
      /\ \A x \in TokensOf(Contents(c)) : x \in Nat /\ fed < x /\ x <= fed + 2 + Len(k.frags)
      /\ Len(k.frags) \in Nat
  BY <1>1, FillOrder
<1>3. LET d == [Contents(c) EXCEPT !.text = 0]
      IN InOrder(d) /\ TokensOf(d) \subseteq TokensOf(c)
  BY <1>2, DropText
<1>4. fed' \in Nat /\ fed <= fed'
  <2>1. \A n \in Nat : fed + 2 + n \in Nat /\ fed <= fed + 2 + n
    BY <1>1
  <2> QED
    BY <1>1, <1>2, <2>1
<1>5. \A x \in TokensOf(c) : x \in Nat /\ fed < x /\ x <= fed'
  BY <1>1, <1>2
<1> HIDE DEF c
<1>6. /\ InOrder(cur') /\ Left' \subseteq TokensOf(c)
      /\ ~Accepts(k) => Left' = {}
      /\ Accepts(k) /\ current # None => Left' = TokensOf(c)
  BY <1>1, <1>2, <1>3, NothingLeft DEF Left
<1>7. Placed'
  BY <1>1, <1>5, <1>6 DEF Placed
<1> QED
  BY <1>1, <1>4, <1>5, <1>6, <1>7, SpentLeft DEF c

\* The steps that take in a chunk or take something out of it.
OnChunk ==
  \/ \E r \in open, k \in Chunks : ModelStream(r, k)
  \/ EmitReasoning \/ EmitText
  \/ StartCall \/ EmitArgs \/ \E n \in DOMAIN calls : ContinueCall(n)

\* Any other step leaves the chunk alone.
LEMMA OthersQuiet ==
  ASSUME TypeInv, Placed, [Next]_vars, ~OnChunk
  PROVE  Placed' /\ Quiet
\* The chunk stays, and no delta is yielded; the step says where the generator is.
<1>1. ASSUME UNCHANGED <<source, fed, cur>>,
             UNCHANGED log \/ \E e : Yield(e) /\ e.type \notin DeltaTypes
      PROVE  Quiet
  BY <1>1 DEF Quiet, Left
<1>2. ASSUME UNCHANGED <<source, fed, cur>>, pc # "end", pc' # "args", pc' # "end",
             UNCHANGED log \/ \E e : Yield(e) /\ e.type # "completed",
             pc' \in {"stream", "part", "gone"} \/ Spent
      PROVE  Placed'
  <2>1. ~Completed'
    BY <1>2, NotCompleted DEF TypeInv
  <2> QED
    BY <1>2, <2>1 DEF Placed, Left, Spent
<1>3. ASSUME NEW e, Yield(e), e.type \notin DeltaTypes \cup {"completed"}
      PROVE  /\ UNCHANGED log \/ \E d : Yield(d) /\ d.type \notin DeltaTypes
             /\ UNCHANGED log \/ \E d : Yield(d) /\ d.type # "completed"
  BY <1>3
<1>4. \A t, item, idx, call, body : About(t, item, idx, call, body).type = t
  BY DEF About
<1>5. CASE Created \/ InProgress
  <2>1. /\ UNCHANGED <<source, fed, cur>> /\ pc # "end" /\ pc' \in {"begun", "stream"} /\ Spent
        /\ \E t : Yield(Plain(t)) /\ t \notin DeltaTypes \cup {"completed"}
    BY <1>5 DEF Created, InProgress, graph, items, DeltaTypes, Placed
  <2> QED
    BY <1>1, <1>2, <1>3, <1>4, <2>1 DEF Plain
<1>6. CASE ModelStart
  BY <1>1, <1>2, <1>6 DEF ModelStart, Waiting
<1>7. CASE OpenMessage
  <2>1. Yield(About("item.added", current.item, nextIndex, None, <<>>))
    BY <1>7 DEF OpenMessage
  <2> QED
    BY <1>1, <1>2, <1>3, <1>4, <1>7, <2>1 DEF OpenMessage, graph, DeltaTypes
<1>8. CASE AddPart
  <2>1. Yield(About("part.added", current.item, current.idx, None, <<>>))
    BY <1>8 DEF AddPart, OfMessage
  <2> QED
    BY <1>1, <1>2, <1>3, <1>4, <1>8, <2>1 DEF AddPart, graph, items, DeltaTypes
<1>9. ASSUME NEW r \in open, ModelEndWithText(r) PROVE Placed' /\ Quiet
  <2>1. Yield(About("text.done", current.item, current.idx, None, current.text))
    BY <1>9 DEF ModelEndWithText, OfMessage
  <2> QED
    BY <1>1, <1>2, <1>3, <1>4, <1>9, <2>1 DEF ModelEndWithText, Waiting, items, DeltaTypes
<1>10. ASSUME NEW r \in open, ModelEndWithoutText(r) PROVE Placed' /\ Quiet
  BY <1>1, <1>2, <1>10 DEF ModelEndWithoutText, Waiting
<1>11. CASE ClosePart
  <2>1. Yield(About("part.done", current.item, current.idx, None, current.text))
    BY <1>11 DEF ClosePart, OfMessage
  <2> QED
    BY <1>1, <1>2, <1>3, <1>4, <1>11, <2>1 DEF ClosePart, graph, items, DeltaTypes, Placed
<1>12. CASE CloseMessage
  <2>1. Yield(About("item.done", current.item, current.idx, None, current.text))
    BY <1>12 DEF CloseMessage, Completes, OfMessage
  <2> QED
    BY <1>1, <1>2, <1>3, <1>4, <1>12, <2>1 DEF CloseMessage, graph, DeltaTypes, Placed
<1>13. CASE CloseArgs
  <2>1. \E e : Yield(e) /\ e.type = "args.done"
    BY <1>4, <1>13 DEF CloseArgs, OfCall
  <2> QED
    BY <1>1, <1>2, <1>3, <1>13, <2>1 DEF CloseArgs, graph, items, DeltaTypes, Placed
<1>14. CASE CloseCall
  <2>1. \E e : Yield(e) /\ e.type = "item.done"
    BY <1>4, <1>14 DEF CloseCall, Completes, OfCall
  <2> QED
    BY <1>1, <1>2, <1>3, <1>14, <2>1 DEF CloseCall, graph, DeltaTypes, Placed
<1>15. CASE ClearCalls
  BY <1>1, <1>2, <1>15 DEF ClearCalls, graph
<1>16. CASE ToolStart
  <2>1. \E e : Yield(e) /\ e.type = "item.added"
    BY <1>4, <1>16 DEF ToolStart
  <2> QED
    BY <1>1, <1>2, <1>3, <1>16, <2>1 DEF ToolStart, Waiting, DeltaTypes
<1>17. ASSUME NEW r \in MayEnd, NEW named \in BOOLEAN, ToolEnd(r, named) PROVE Placed' /\ Quiet
  <2>1. \E e : Yield(e) /\ e.type = "item.done"
    BY <1>4, <1>17 DEF ToolEnd, Completes
  <2> QED
    BY <1>1, <1>2, <1>3, <1>17, <2>1 DEF ToolEnd, Waiting, DeltaTypes
<1>18. ASSUME NEW r \in running, ToolError(r) PROVE Placed' /\ Quiet
  BY <1>1, <1>2, <1>18 DEF ToolError, Waiting, items
<1>19. CASE Complete \/ GraphRaises
  <2>1. PICK t \in {"completed", "failed"} : Yield([Plain(t) EXCEPT !.output = output])
    BY <1>19 DEF Complete, GraphRaises
  <2>2. [Plain(t) EXCEPT !.output = output].type = t
    BY DEF Plain, About
  <2>3. UNCHANGED <<source, fed, cur>> /\ Spent /\ pc' = "end"
    BY <1>19 DEF Complete, GraphRaises, graph, items, Waiting
  <2>4. \E e : Yield(e) /\ e.type \notin DeltaTypes
    BY <2>1, <2>2 DEF DeltaTypes
  <2> QED
    BY <1>1, <2>3, <2>4 DEF Placed, Left, Spent
<1>20. CASE Disconnect
  BY <1>1, <1>2, <1>20 DEF Disconnect, graph, items
<1>21. CASE UNCHANGED vars
  BY <1>1, <1>21 DEF vars, graph, items, Placed, Left, Spent, Completed
<1> QED
  BY <1>5, <1>6, <1>7, <1>8, <1>9, <1>10, <1>11, <1>12, <1>13, <1>14, <1>15, <1>16, <1>17,
     <1>18, <1>19, <1>20, <1>21 DEF Next, Emit, OnChunk

LEMMA PlacedInit == Init => Placed
  BY SpentLeft DEF Init, Placed, Spent, Completed

LEMMA PlacedStep == TypeInv /\ Placed /\ [Next]_vars => Placed'
  BY ReasoningTaken, TextTaken, ArgsTaken, ContinueTaken, StartTaken, ChunkTaken, OthersQuiet
     DEF OnChunk

-----------------------------------------------------------------------------
(* What is streamed, and what was asked for.                               *)

\* The pieces streamed in deltas of the types T.
StreamedIn(T) == {log[i].body[1] : i \in {j \in DOMAIN log : log[j].type \in T}}

LEMMA StreamedMore ==
  ASSUME log \in Seq(Event), NEW x, NEW t, NEW item, Streams(x, t, item), NEW T
  PROVE  StreamedIn(T)' = StreamedIn(T) \cup (IF t \in T THEN {x} ELSE {})
<1>1. PICK e : Yield(e) /\ e.type = t /\ e.body = <<x>>
  BY DEF Streams
<1>2. /\ DOMAIN log' = DOMAIN log \cup {Len(log) + 1} /\ log'[Len(log) + 1] = e
      /\ \A i \in DOMAIN log : log'[i] = log[i]
  BY <1>1, LogGrows DEF Yield
<1>3. e.body[1] = x
  BY <1>1
<1>4. \A y : y \in StreamedIn(T)' <=> \E i \in DOMAIN log' : log'[i].type \in T /\ y = log'[i].body[1]
  BY DEF StreamedIn
<1>5. \A y : y \in StreamedIn(T) <=> \E i \in DOMAIN log : log[i].type \in T /\ y = log[i].body[1]
  BY DEF StreamedIn
<1> QED
  BY <1>1, <1>2, <1>3, <1>4, <1>5

LEMMA StreamedSame ==
  ASSUME log \in Seq(Event), Quiet, NEW T, T \subseteq DeltaTypes
  PROVE  StreamedIn(T)' = StreamedIn(T)
<1>1. CASE UNCHANGED log
  BY <1>1 DEF StreamedIn
<1>2. CASE \E e : Yield(e) /\ e.type \notin DeltaTypes
  <2>1. PICK e : Yield(e) /\ e.type \notin DeltaTypes
    BY <1>2
  <2>2. /\ DOMAIN log' = DOMAIN log \cup {Len(log) + 1} /\ log'[Len(log) + 1] = e
        /\ \A i \in DOMAIN log : log'[i] = log[i]
    BY <2>1, LogGrows DEF Yield
  <2> QED
    BY <2>1, <2>2 DEF StreamedIn
<1> QED
  BY <1>1, <1>2 DEF Quiet

LEMMA StreamedAll ==
  Streamed = StreamedIn(DeltaTypes) /\ Streamed' = StreamedIn(DeltaTypes)'
  BY DEF Streamed, StreamedIn

\* An empty set of nodes names none, but the code then filters nothing.
ListNamesNodes == StreamableNodes = None \/ StreamableNodes # {}

\* What is streamed or left was asked for, and when runs do not overlap nothing that
\* was asked for is missing.
Accounted ==
  /\ \E S : source \in Seq(S)
  /\ ListNamesNodes => Streamed \cup Left \subseteq Asked
  /\ Sequential => Asked \subseteq Streamed \cup Left

LEMMA AccountedInit == Init => Accounted
<1> SUFFICES ASSUME Init PROVE Accounted
  OBVIOUS
<1>1. source = <<>> /\ log = <<>> /\ Left = {}
  BY SpentLeft DEF Init, Spent
<1>2. source \in Seq({}) /\ Streamed = {} /\ Asked = {}
  BY <1>1 DEF Streamed, Asked
<1> QED
  BY <1>1, <1>2 DEF Accounted

\* What a chunk adds to what was asked for.
LEMMA AskedMore ==
  ASSUME NEW S, source \in Seq(S), NEW d, source' = Append(source, d)
  PROVE  /\ \E T : source' \in Seq(T)
         /\ Asked' = Asked \cup (IF StreamableNodes = None \/ d.chunk.node \in StreamableNodes
                                 THEN TokensOf(d.chunk) ELSE {})
<1> DEFINE Listed(e) == StreamableNodes = None \/ e.chunk.node \in StreamableNodes
<1>1. source \in Seq(S \cup {d}) /\ source' \in Seq(S \cup {d})
  OBVIOUS
<1>2. /\ DOMAIN source' = DOMAIN source \cup {Len(source) + 1}
      /\ source'[Len(source) + 1] = d
      /\ \A n \in DOMAIN source : source'[n] = source[n]
  <2>1. /\ DOMAIN source' = 1 .. (Len(source) + 1) /\ DOMAIN source = 1 .. Len(source)
        /\ Len(source) \in Nat /\ source'[Len(source) + 1] = d
        /\ \A n \in DOMAIN source : source'[n] = source[n]
    BY <1>1
  <2> QED
    BY <2>1
<1>3. \A x : x \in Asked' <=> \E n \in DOMAIN source' :
                                Listed(source'[n]) /\ x \in TokensOf(source'[n].chunk)
  BY DEF Asked
<1>4. \A x : x \in Asked <=> \E n \in DOMAIN source :
                               Listed(source[n]) /\ x \in TokensOf(source[n].chunk)
  BY DEF Asked
<1> HIDE DEF Listed
<1>5. Asked' = Asked \cup (IF Listed(d) THEN TokensOf(d.chunk) ELSE {})
  BY <1>2, <1>3, <1>4
<1> QED
  BY <1>1, <1>5 DEF Listed

LEMMA AccountedStep ==
  ASSUME TypeInv, Placed, Accounted, Sequential => OneRun, [Next]_vars
  PROVE  Accounted'
<1>1. log \in Seq(Event)
  BY DEF TypeInv, TypeOK
\* A step that streams a piece,
<1>2. ASSUME NEW x, NEW t \in DeltaTypes, NEW item, Streams(x, t, item) PROVE Accounted'
  <2>1. Streamed' = Streamed \cup {x}
    BY <1>1, <1>2, StreamedMore, StreamedAll
  <2>2. Streamed' \cup Left' = Streamed \cup Left /\ source' = source /\ Asked' = Asked
    BY <1>2, <2>1 DEF Streams, Asked
  <2> QED
    BY <2>2 DEF Accounted
\* one that does not,
<1>3. ASSUME Quiet PROVE Accounted'
  <2>1. Streamed' = Streamed /\ Left' = Left /\ source' = source /\ Asked' = Asked
    BY <1>1, <1>3, StreamedSame, StreamedAll DEF Quiet, Asked
  <2> QED
    BY <2>1 DEF Accounted
\* and one that takes in a chunk.
<1>4. ASSUME NEW r \in open, NEW k \in Chunks, ModelStream(r, k) PROVE Accounted'
  <2> DEFINE c == Fill(k, fed)
             d == [run |-> r, chunk |-> c]
             asked == StreamableNodes = None \/ c.node \in StreamableNodes
  <2>1. /\ log' = log /\ source' = Append(source, d)
        /\ Left = {} /\ Left' \subseteq TokensOf(c)
        /\ ~Accepts(k) => Left' = {}
        /\ Accepts(k) /\ current # None => Left' = TokensOf(c)
    BY <1>4, ChunkTaken
  <2>2. d.chunk = c /\ c.node = k.node
    BY DEF Fill
  <2>3. asked => Accepts(k)
    BY <2>2 DEF Accepts
  <2>4. ListNamesNodes /\ Accepts(k) => asked
    BY <2>2 DEF Accepts, ListNamesNodes
  <2>5. Sequential => current # None
    BY <1>4 DEF OneRun, ModelStream, Waiting, Receiving
  <2> HIDE DEF c
  <2>6. (\E T : source' \in Seq(T)) /\ Asked' = Asked \cup (IF asked THEN TokensOf(c) ELSE {})
    <3>1. PICK S : source \in Seq(S)
      BY DEF Accounted
    <3> HIDE DEF d
    <3>2. /\ \E T : source' \in Seq(T)
          /\ Asked' = Asked \cup (IF StreamableNodes = None \/ d.chunk.node \in StreamableNodes
                                  THEN TokensOf(d.chunk) ELSE {})
      BY <2>1, <3>1, AskedMore
    <3> QED
      BY <2>2, <3>2
  <2> HIDE DEF d, asked
  <2>7. Streamed' = Streamed
    BY <2>1 DEF Streamed
  <2> QED
    BY <2>1, <2>3, <2>4, <2>5, <2>6, <2>7 DEF Accounted
<1>5. "reasoning.delta" \in DeltaTypes /\ "text.delta" \in DeltaTypes /\ "args.delta" \in DeltaTypes
  BY DEF DeltaTypes
<1>6. CASE EmitReasoning \/ EmitText \/ EmitArgs
  BY <1>2, <1>5, <1>6, ReasoningTaken, TextTaken, ArgsTaken
<1>7. ASSUME NEW n \in DOMAIN calls, ContinueCall(n) PROVE Accounted'
  BY <1>2, <1>3, <1>5, <1>7, ContinueTaken
<1>8. CASE StartCall
  BY <1>3, <1>8, StartTaken
<1> QED
  BY <1>3, <1>4, <1>6, <1>7, <1>8, OthersQuiet DEF OnChunk

\* Whatever overlaps, only content of the listed nodes is ever streamed.
THEOREM StreamsOnlyAsked ==
  ASSUME ListNamesNodes
  PROVE  Spec => [](Streamed \subseteq Asked)
<1>1. Init => Placed /\ Accounted
  BY PlacedInit, AccountedInit
<1>2. CASE Sequential
  <2>1. TypeInv /\ OneRun /\ Placed /\ Accounted /\ [Next]_vars
          => (OneRun /\ Placed /\ Accounted)'
    BY <1>2, OneRunStep, PlacedStep, AccountedStep
  <2>2. Accounted => Streamed \subseteq Asked
    BY DEF Accounted
  <2> QED
    BY <1>1, <2>1, <2>2, TypeInit, TypeStep, OneRunInit, PTL DEF Spec
<1>3. CASE ~Sequential
  <2>1. TypeInv /\ Placed /\ Accounted /\ [Next]_vars => (Placed /\ Accounted)'
    BY <1>3, PlacedStep, AccountedStep
  <2>2. Accounted => Streamed \subseteq Asked
    BY DEF Accounted
  <2> QED
    BY <1>1, <2>1, <2>2, TypeInit, TypeStep, PTL DEF Spec
<1> QED
  BY <1>2, <1>3

\* NothingLost: while model runs follow one another, a response reported completed
\* has streamed all that the listed nodes produced, and nothing else ever is.
THEOREM SequentialStreamsAll ==
  ASSUME Sequential, ListNamesNodes
  PROVE  Spec => []NothingLost
<1>1. Init => OneRun /\ Placed /\ Accounted
  BY OneRunInit, PlacedInit, AccountedInit
<1>2. TypeInv /\ OneRun /\ Placed /\ Accounted /\ [Next]_vars
        => (OneRun /\ Placed /\ Accounted)'
  BY OneRunStep, PlacedStep, AccountedStep
<1>3. ASSUME Placed, Accounted PROVE NothingLost
  <2>1. Completed => Left = {}
    BY <1>3, SpentLeft DEF Placed
  <2> QED
    BY <1>3, <2>1 DEF Accounted, NothingLost
<1> QED
  BY <1>1, <1>2, <1>3, TypeInit, TypeStep, PTL DEF Spec

-----------------------------------------------------------------------------
(* Every piece that was streamed as arguments is in one place: a call that *)
(* is not closed, or the item it became.                                   *)

\* Piece x is in the n-th item of the output list, in the n-th call of the table
\* unless that is closed, or in the current message.
Holds(p, x) ==
  \/ \E n \in DOMAIN output : p = <<"out", n>> /\ x \in Range(output[n].body)
  \/ \E n \in DOMAIN calls : p = <<"call", n>> /\ closed < n /\ x \in Range(calls[n].args)
  \/ p = <<"msg", 0>> /\ current # None /\ x \in Range(current.text)

ArgsPlaces == {"out", "call"} \X Nat
ArgsStreamed == StreamedIn({"args.delta"})

HeldOnce ==
  /\ \A x, p, q : Holds(p, x) /\ Holds(q, x) => p = q
  /\ \A x, p : Holds(p, x) => x \in Nat /\ x <= fed /\ \A y \in Left : x < y
  /\ \A x \in ArgsStreamed : \E p \in ArgsPlaces : Holds(p, x)

\* No call is kept when no model run is open, and a completed response lists the
\* output as it is.
Settled ==
  /\ pc \in Receiving /\ open = {} => Spent /\ calls = <<>>
  /\ \A i \in DOMAIN log : log[i].type = "completed" => calls = <<>> /\ log[i].output = output

\* No piece enters a place, though some may be dropped from the message;
LEMMA PlacesKept ==
  ASSUME HeldOnce,
         \A x, p : Holds(p, x)' => Holds(p, x),
         \A x : \A p \in ArgsPlaces : Holds(p, x) => Holds(p, x)',
         fed \in Nat, fed' \in Nat, fed <= fed', \A y \in Left' : y \in Nat,
         \A y \in Left' : y \in Left \/ fed < y,
         ArgsStreamed' = ArgsStreamed
  PROVE  HeldOnce'
<1>1. \A x, p, q : Holds(p, x)' /\ Holds(q, x)' => p = q
  BY DEF HeldOnce
<1>2. \A x, p : Holds(p, x)' => x \in Nat /\ x <= fed' /\ \A y \in Left' : x < y
  <2> SUFFICES ASSUME NEW x, NEW p, Holds(p, x)'
               PROVE  x \in Nat /\ x <= fed' /\ \A y \in Left' : x < y
    OBVIOUS
  <2>1. Holds(p, x)
    OBVIOUS
  <2>2. x \in Nat /\ x <= fed /\ \A y \in Left : x < y
    BY <2>1 DEF HeldOnce
  <2>3. x <= fed'
    BY <2>2
  <2>4. ASSUME NEW y \in Left' PROVE x < y
    <3>1. y \in Nat /\ (y \in Left \/ fed < y)
      OBVIOUS
    <3> QED
      BY <2>2, <3>1
  <2> QED
    BY <2>2, <2>3, <2>4
<1>3. \A x \in ArgsStreamed' : \E p \in ArgsPlaces : Holds(p, x)'
  BY DEF HeldOnce
<1> QED
  BY <1>1, <1>2, <1>3 DEF HeldOnce, ArgsPlaces

\* all pieces of place a move to place b;
LEMMA PlaceMoved ==
  ASSUME HeldOnce, NEW a, NEW b, b \in ArgsPlaces,
         \A x, p : Holds(p, x)' <=> (Holds(p, x) /\ p # a) \/ (p = b /\ Holds(a, x)),
         UNCHANGED fed, Left' = Left, ArgsStreamed' = ArgsStreamed
  PROVE  HeldOnce'
<1>1. \A x, p, q : Holds(p, x)' /\ Holds(q, x)' => p = q
  BY DEF HeldOnce
<1>2. \A x, p : Holds(p, x)' => x \in Nat /\ x <= fed' /\ \A y \in Left' : x < y
  BY DEF HeldOnce
<1>3. ASSUME NEW x \in ArgsStreamed' PROVE \E p \in ArgsPlaces : Holds(p, x)'
  <2>1. PICK p \in ArgsPlaces : Holds(p, x)
    BY <1>3 DEF HeldOnce
  <2>2. CASE p = a
    BY <2>1, <2>2
  <2>3. CASE p # a
    BY <2>1, <2>3
  <2> QED
    BY <2>2, <2>3
<1> QED
  BY <1>1, <1>2, <1>3 DEF HeldOnce, ArgsPlaces

\* or the piece that is streamed enters place a.
LEMMA PieceAdded ==
  ASSUME TypeOK, Placed, HeldOnce, NEW a, NEW y, NEW t, NEW item, Streams(y, t, item),
         t # "args.delta" \/ a \in ArgsPlaces,
         \A x, p : Holds(p, x)' <=> Holds(p, x) \/ (p = a /\ x = y)
  PROVE  HeldOnce'
<1>1. /\ y \in Left /\ Left = Left' \cup {y} /\ (\A z \in Left' : y < z) /\ fed' = fed
      /\ log \in Seq(Event) /\ cur \in Pending
  BY DEF TypeOK, Streams
<1>2. y \in Nat /\ y <= fed
  BY <1>1, TokensType DEF Placed, Left
<1>3. \A p : ~Holds(p, y)
  BY <1>1, <1>2 DEF HeldOnce
<1>4. \A x, p, q : Holds(p, x)' /\ Holds(q, x)' => p = q
  BY <1>3 DEF HeldOnce
<1>5. \A x, p : Holds(p, x)' => x \in Nat /\ x <= fed' /\ \A z \in Left' : x < z
  BY <1>1, <1>2 DEF HeldOnce
<1>6. ArgsStreamed' = ArgsStreamed \cup (IF t = "args.delta" THEN {y} ELSE {})
  <2>1. StreamedIn({"args.delta"})'
          = StreamedIn({"args.delta"}) \cup (IF t \in {"args.delta"} THEN {y} ELSE {})
    BY <1>1, StreamedMore
  <2> QED
    BY <2>1 DEF ArgsStreamed
<1>7. \A x \in ArgsStreamed' : \E p \in ArgsPlaces : Holds(p, x)'
  BY <1>6 DEF HeldOnce
<1> QED
  BY <1>4, <1>5, <1>7 DEF HeldOnce, ArgsPlaces

LEMMA AppendGrows ==
  ASSUME NEW S, NEW s \in Seq(S), NEW x
  PROVE  /\ Len(s) \in Nat /\ DOMAIN s = 1 .. Len(s)
         /\ Len(Append(s, x)) = Len(s) + 1
         /\ DOMAIN Append(s, x) = DOMAIN s \cup {Len(s) + 1}
         /\ Append(s, x)[Len(s) + 1] = x
         /\ \A n \in DOMAIN s : Append(s, x)[n] = s[n]
         /\ Range(Append(s, x)) = Range(s) \cup {x}
<1>1. /\ Len(s) \in Nat /\ DOMAIN s = 1 .. Len(s)
      /\ Len(Append(s, x)) = Len(s) + 1
      /\ DOMAIN Append(s, x) = 1 .. (Len(s) + 1)
      /\ Append(s, x)[Len(s) + 1] = x
      /\ \A n \in DOMAIN s : Append(s, x)[n] = s[n]
  OBVIOUS
<1>2. DOMAIN Append(s, x) = DOMAIN s \cup {Len(s) + 1}
  BY <1>1
<1>3. Range(Append(s, x)) = Range(s) \cup {x}
  BY <1>1, <1>2 DEF Range
<1> QED
  BY <1>1, <1>2, <1>3

\* The arguments of a call after the fragment that opened it,
LEMMA FirstArgs ==
  ASSUME TypeOK, NEW n \in DOMAIN calls, NEW x \in Nat,
         calls' = [calls EXCEPT ![n].args = Append(@, x)]
  PROVE  /\ DOMAIN calls' = DOMAIN calls
         /\ \A m \in DOMAIN calls : m # n => calls'[m] = calls[m]
         /\ Range(calls'[n].args) = Range(calls[n].args) \cup {x}
<1>1. calls[n] \in CallState /\ calls[n].args \in Seq(Nat) /\ calls \in Seq(CallState)
  BY CallType DEF TypeOK
<1>2. calls[n] = [item |-> calls[n].item, key |-> calls[n].key, idx |-> calls[n].idx,
                  call |-> calls[n].call, args |-> calls[n].args]
  BY <1>1 DEF CallState
<1>3. Range(Append(calls[n].args, x)) = Range(calls[n].args) \cup {x}
  BY <1>1, AppendGrows
<1> DEFINE more == Append(calls[n].args, x)
<1>4. /\ DOMAIN calls' = DOMAIN calls
      /\ \A m \in DOMAIN calls : m # n => calls'[m] = calls[m]
      /\ calls'[n] = [calls[n] EXCEPT !.args = more]
  BY <1>1
<1> HIDE DEF more
<1>5. calls'[n].args = more
  BY <1>2, <1>4
<1> QED
  BY <1>3, <1>4, <1>5 DEF more

\* and after a further one.
LEMMA FurtherArgs ==
  ASSUME TypeOK, NEW n \in DOMAIN calls, NEW id \in Int, NEW x \in Nat,
         calls' = [calls EXCEPT ![n].call = id, ![n].args = IF x # 0 THEN Append(@, x) ELSE @]
  PROVE  /\ DOMAIN calls' = DOMAIN calls
         /\ \A m \in DOMAIN calls : m # n => calls'[m] = calls[m]
         /\ x # 0 => Range(calls'[n].args) = Range(calls[n].args) \cup {x}
         /\ x = 0 => calls'[n].args = calls[n].args
<1>1. calls[n] \in CallState /\ calls[n].args \in Seq(Nat) /\ calls \in Seq(CallState)
  BY CallType DEF TypeOK
<1>2. calls[n] = [item |-> calls[n].item, key |-> calls[n].key, idx |-> calls[n].idx,
                  call |-> calls[n].call, args |-> calls[n].args]
  BY <1>1 DEF CallState
<1>3. Range(Append(calls[n].args, x)) = Range(calls[n].args) \cup {x}
  BY <1>1, AppendGrows
<1> DEFINE more == IF x # 0 THEN Append(calls[n].args, x) ELSE calls[n].args
<1>4. /\ DOMAIN calls' = DOMAIN calls
      /\ \A m \in DOMAIN calls : m # n => calls'[m] = calls[m]
      /\ calls'[n] = [calls[n] EXCEPT !.call = id, !.args = more]
  BY <1>1
<1> HIDE DEF more
<1>5. calls'[n].args = more
  BY <1>2, <1>4
<1> QED
  BY <1>3, <1>4, <1>5 DEF more

\* A step that streams nothing and puts nothing anywhere, but may drop the message.
LEMMA HeldAsBefore ==
  ASSUME TypeInv, HeldOnce, Quiet,
         \A x, p : Holds(p, x)' => Holds(p, x),
         \A x : \A p \in ArgsPlaces : Holds(p, x) => Holds(p, x)'
  PROVE  HeldOnce'
<1>1. /\ log \in Seq(Event) /\ fed \in Nat /\ fed' = fed /\ Left' = Left /\ cur \in Pending
  BY DEF TypeInv, TypeOK, Quiet
<1>2. ArgsStreamed' = ArgsStreamed
  BY <1>1, StreamedSame DEF ArgsStreamed, DeltaTypes
<1>3. \A y \in Left' : y \in Nat
  BY <1>1, TokensType DEF Left
<1> QED
  BY <1>1, <1>2, <1>3, PlacesKept

LEMMA HeldInit == Init => Placed /\ HeldOnce /\ Settled
<1> SUFFICES ASSUME Init PROVE HeldOnce /\ Settled
  BY PlacedInit
<1>1. log = <<>> /\ output = <<>> /\ calls = <<>> /\ current = None /\ Spent
  BY DEF Init, Spent
<1>2. ArgsStreamed = {} /\ \A x, p : ~Holds(p, x)
  BY <1>1 DEF ArgsStreamed, StreamedIn, Holds
<1> QED
  BY <1>1, <1>2 DEF HeldOnce, Settled

LEMMA SettledStep ==
  ASSUME TypeInv, Placed, Settled, [Next]_vars
  PROVE  Settled'
<1>0. /\ open \subseteq 1 .. runs /\ calls \in Seq(CallState) /\ log \in Seq(Event)
      /\ Spent' <=> cur' = Nothing
      /\ Placed' /\ Control
  BY PlacedStep DEF TypeInv, TypeOK, Spent
<1> DEFINE Rest == pc' \in Receiving /\ open' = {} => Spent' /\ calls' = <<>>
<1>1. ASSUME pc' # "end", Rest PROVE Settled'
  BY <1>0, <1>1 DEF Placed, Settled, Completed
<1>2. CASE Created \/ InProgress \/ AddPart
  BY <1>1, <1>2 DEF Created, InProgress, AddPart, graph, items, Settled, Receiving, Spent
<1>3. CASE ClosePart \/ CloseMessage \/ CloseArgs \/ CloseCall
  BY <1>1, <1>3 DEF ClosePart, CloseMessage, CloseArgs, CloseCall, Receiving
<1>4. CASE ModelStart
  <2>1. open' # {} /\ pc' = "stream"
    BY <1>4 DEF ModelStart, Waiting
  <2> QED
    BY <1>1, <2>1
<1>5. CASE \E r \in open, k \in Chunks : ModelStream(r, k)
  BY <1>1, <1>5 DEF ModelStream, Waiting
<1>6. CASE EmitReasoning \/ OpenMessage \/ EmitText
  <2>1. ~Spent /\ pc \in Receiving
    BY <1>6 DEF EmitReasoning, OpenMessage, EmitText, Spent, Nothing, Receiving
  <2>2. open # {}
    BY <2>1 DEF Settled
  <2> QED
    BY <1>1, <1>6, <2>2 DEF EmitReasoning, OpenMessage, EmitText, graph
<1>7. CASE StartCall \/ EmitArgs \/ \E n \in DOMAIN calls : ContinueCall(n)
  <2>1. cur.frags # <<>> /\ pc \in {"stream", "args"}
    BY <1>0, <1>7 DEF StartCall, EmitArgs, ContinueCall, AtFragment, Control
  <2>2. open # {}
    <3>1. Nothing.frags = <<>>
      BY DEF Nothing
    <3> QED
      BY <2>1, <3>1 DEF Settled, Spent, Receiving
  <2>3. CASE StartCall
    BY <1>1, <2>2, <2>3 DEF StartCall, AtFragment, graph
  <2>4. CASE EmitArgs \/ \E n \in DOMAIN calls : ContinueCall(n)
    BY <1>1, <2>2, <2>4 DEF EmitArgs, ContinueCall, AtFragment, graph
  <2> QED
    BY <1>7, <2>3, <2>4
<1>8. CASE \E r \in open : ModelEndWithText(r) \/ ModelEndWithoutText(r)
  BY <1>1, <1>8 DEF ModelEndWithText, ModelEndWithoutText, Receiving
<1>9. CASE ClearCalls
  BY <1>0, <1>1, <1>9 DEF ClearCalls, Control, Spent
<1>10. CASE ToolStart
  BY <1>1, <1>10 DEF ToolStart, Waiting, Settled, Spent, Receiving
<1>11. CASE \E r \in MayEnd, named \in BOOLEAN : ToolEnd(r, named)
  BY <1>1, <1>11 DEF ToolEnd, Waiting, Settled, Spent, Receiving
<1>12. CASE \E r \in running : ToolError(r)
  BY <1>1, <1>12 DEF ToolError, Waiting, items, Settled, Spent, Receiving
<1>13. CASE Complete \/ GraphRaises
  <2>1. PICK t \in {"completed", "failed"} :
          /\ log' = Append(log, [Plain(t) EXCEPT !.output = output])
          /\ t = "completed" => Complete
    BY <1>13 DEF Complete, GraphRaises, Yield
  <2> DEFINE e == [Plain(t) EXCEPT !.output = output]
  <2>2. e.type = t /\ e.output = output
    BY DEF Plain, About
  <2>3. /\ pc = "stream" /\ pc' = "end" /\ UNCHANGED <<calls, output>>
        /\ t = "completed" => open = {}
    BY <1>13, <2>1 DEF Complete, GraphRaises, items, Waiting
  <2> HIDE DEF e
  <2>4. /\ DOMAIN log' = DOMAIN log \cup {Len(log) + 1} /\ log'[Len(log) + 1] = e
        /\ \A i \in DOMAIN log : log'[i] = log[i]
    BY <1>0, <2>1, LogGrows DEF e
  <2>5. \A i \in DOMAIN log : log[i].type # "completed"
    BY <2>3 DEF Placed, Completed
  <2>6. t = "completed" => calls = <<>>
    BY <2>3 DEF Settled, Receiving
  <2> QED
    BY <2>2, <2>3, <2>4, <2>5, <2>6 DEF Settled, Receiving
<1>14. CASE Disconnect
  BY <1>1, <1>14 DEF Disconnect, Receiving
<1>15. CASE UNCHANGED vars
  BY <1>15 DEF vars, graph, items, Settled, Spent
<1> QED
  BY <1>2, <1>3, <1>4, <1>5, <1>6, <1>7, <1>8, <1>9, <1>10, <1>11, <1>12, <1>13, <1>14, <1>15
     DEF Next, Emit

\* The steps that change what is held: a piece that is streamed, an item that is
\* closed, the message that is dropped.
LEMMA TextHeld ==
  ASSUME TypeInv, Placed, HeldOnce, EmitText
  PROVE  HeldOnce'
<1>1. Streams(cur.text, "text.delta", current.item)
  BY TextTaken
<1>2. /\ current # None /\ current.text \in Seq(Nat) /\ cur.text \in Nat
      /\ UNCHANGED <<output, calls, closed>>
      /\ current' = [current EXCEPT !.text = Append(@, cur.text)]
  BY CurrentType, TakeOutType DEF EmitText, TypeInv, Control
<1>3. current' # None /\ current'.text = Append(current.text, cur.text)
  <2>1. /\ [current EXCEPT !.text = Append(@, cur.text)]
             = [item |-> current.item, idx |-> current.idx,
                text |-> Append(current.text, cur.text)]
        /\ [current EXCEPT !.text = Append(@, cur.text)] \in MessageState
    BY <1>2, CurrentStepType DEF TypeInv
  <2> QED
    BY <1>2, <2>1, NoMessageAssumption
<1>4. Range(Append(current.text, cur.text)) = Range(current.text) \cup {cur.text}
  BY <1>2, AppendGrows
<1>5. \A x, p : Holds(p, x)' <=> Holds(p, x) \/ (p = <<"msg", 0>> /\ x = cur.text)
  BY <1>2, <1>3, <1>4 DEF Holds
<1>6. "text.delta" # "args.delta"
  OBVIOUS
<1> QED
  BY <1>1, <1>5, <1>6, PieceAdded DEF TypeInv

LEMMA ArgsHeld ==
  ASSUME TypeInv, Placed, HeldOnce, NEW n \in DOMAIN calls, closed < n,
         Streams(Head(cur.frags).args, "args.delta", calls[n].item), Head(cur.frags).args # 0,
         UNCHANGED <<output, closed, current>>, DOMAIN calls' = DOMAIN calls,
         \A m \in DOMAIN calls : m # n => calls'[m] = calls[m],
         Range(calls'[n].args) = Range(calls[n].args) \cup {Head(cur.frags).args}
  PROVE  HeldOnce'
<1> DEFINE y == Head(cur.frags).args
<1>1. \A x, p : Holds(p, x)' <=> Holds(p, x) \/ (p = <<"call", n>> /\ x = y)
  <2> HIDE DEF y
  <2>1. Range(calls'[n].args) = Range(calls[n].args) \cup {y}
    BY DEF y
  <2> QED
    BY <2>1 DEF Holds
<1>2. <<"call", n>> \in ArgsPlaces
  BY CallType DEF ArgsPlaces, TypeInv
<1> QED
  BY <1>1, <1>2, PieceAdded DEF TypeInv

LEMMA FragmentHeld ==
  ASSUME TypeInv, Placed, HeldOnce, EmitArgs \/ \E n \in DOMAIN calls : ContinueCall(n)
  PROVE  HeldOnce'
<1> DEFINE y == Head(cur.frags).args
<1>1. /\ calls \in Seq(CallState) /\ Len(calls) \in Nat /\ DOMAIN calls = 1 .. Len(calls)
      /\ cur.frags # <<>> /\ closed = 0 /\ y \in Nat
  <2>1. cur.frags # <<>> /\ closed = 0
    BY DEF TypeInv, Control, EmitArgs, ContinueCall, AtFragment
  <2> QED
    BY <2>1, FragmentType DEF TypeInv, TypeOK
<1>2. CASE EmitArgs
  <2>1. Len(calls) \in DOMAIN calls /\ closed < Len(calls) /\ y # 0
    BY <1>1, <1>2 DEF EmitArgs, TypeInv, Control, Placed
  <2>2. /\ calls' = [calls EXCEPT ![Len(calls)].args = Append(@, y)]
        /\ UNCHANGED <<output, closed, current>>
    BY <1>2 DEF EmitArgs
  <2>3. Streams(y, "args.delta", calls[Len(calls)].item)
    BY <1>2, ArgsTaken
  <2> HIDE DEF y
  <2>4. /\ DOMAIN calls' = DOMAIN calls
        /\ \A m \in DOMAIN calls : m # Len(calls) => calls'[m] = calls[m]
        /\ Range(calls'[Len(calls)].args) = Range(calls[Len(calls)].args) \cup {y}
    BY <1>1, <2>1, <2>2, FirstArgs DEF TypeInv
  <2> QED
    BY <2>1, <2>2, <2>3, <2>4, ArgsHeld DEF y
<1>3. ASSUME NEW n \in DOMAIN calls, ContinueCall(n) PROVE HeldOnce'
  <2> DEFINE id == IdOf(Head(cur.frags), calls[n].call)
  <2>1. /\ calls' = [calls EXCEPT ![n].call = id, ![n].args = IF y # 0 THEN Append(@, y) ELSE @]
        /\ UNCHANGED <<output, closed, current>>
    BY <1>3 DEF ContinueCall
  <2>2. id \in Int /\ closed < n
    BY <1>1, FragmentType, CallType DEF TypeInv
  <2>3. y # 0 => Streams(y, "args.delta", calls[n].item)
    BY <1>3, ContinueTaken
  <2>4. y = 0 => Quiet
    BY <1>3, ContinueTaken
  <2> HIDE DEF y, id
  <2>5. /\ DOMAIN calls' = DOMAIN calls
        /\ \A m \in DOMAIN calls : m # n => calls'[m] = calls[m]
        /\ y # 0 => Range(calls'[n].args) = Range(calls[n].args) \cup {y}
        /\ y = 0 => calls'[n].args = calls[n].args
    BY <1>1, <2>1, <2>2, FurtherArgs DEF TypeInv
  <2>6. CASE y # 0
    BY <2>1, <2>2, <2>3, <2>5, <2>6, ArgsHeld DEF y
  <2>7. CASE y = 0
    <3>1. \A x, p : Holds(p, x)' <=> Holds(p, x)
      BY <2>1, <2>5, <2>7 DEF Holds
    <3> QED
      BY <2>4, <2>7, <3>1, HeldAsBefore
  <2> QED
    BY <2>6, <2>7
<1> QED
  BY <1>2, <1>3


\* An item is closed: what place a held is in the body put into the output list.
LEMMA ItemHeld ==
  ASSUME TypeInv, HeldOnce, Quiet, UNCHANGED calls,
         NEW a, NEW o, output' = Append(output, o),
         \A x : x \in Range(o.body) <=> Holds(a, x),
         \A n \in DOMAIN output : a # <<"out", n>>,
         \A n \in DOMAIN calls : closed' < n <=> closed < n /\ a # <<"call", n>>,
         current' # None => current' = current /\ a # <<"msg", 0>>,
         current' = None => current = None \/ a = <<"msg", 0>>
  PROVE  HeldOnce'
<1> DEFINE last == Len(output) + 1
           b == <<"out", last>>
<1>1. output \in Seq(OutputItem) /\ log \in Seq(Event)
  BY DEF TypeInv, TypeOK
<1>2. /\ Len(output) \in Nat /\ DOMAIN output = 1 .. Len(output)
      /\ DOMAIN output' = DOMAIN output \cup {last} /\ output'[last] = o
      /\ \A n \in DOMAIN output : output'[n] = output[n]
  BY <1>1, AppendGrows
<1>3. last \notin DOMAIN output /\ b \in ArgsPlaces
  BY <1>2 DEF ArgsPlaces
<1> HIDE DEF last
<1>4. \A x, p : Holds(p, x)' <=> (Holds(p, x) /\ p # a) \/ (p = b /\ Holds(a, x))
  <2> SUFFICES ASSUME NEW x, NEW p
               PROVE  Holds(p, x)' <=> (Holds(p, x) /\ p # a) \/ (p = b /\ Holds(a, x))
    OBVIOUS
  <2> DEFINE Out(q) == \E n \in DOMAIN output : q = <<"out", n>> /\ x \in Range(output[n].body)
             Call(q) == \E n \in DOMAIN calls :
                          q = <<"call", n>> /\ closed < n /\ x \in Range(calls[n].args)
             Msg(q) == q = <<"msg", 0>> /\ current # None /\ x \in Range(current.text)
  <2>1. Out(p)' <=> Out(p) \/ (p = b /\ Holds(a, x))
    BY <1>2
  <2>2. Call(p)' <=> Call(p) /\ p # a
    OBVIOUS
  <2>3. Msg(p)' <=> Msg(p) /\ p # a
    OBVIOUS
  <2>4. Out(p) => p # a
    OBVIOUS
  <2>5. Holds(p, x) <=> Out(p) \/ Call(p) \/ Msg(p)
    BY DEF Holds
  <2>6. Holds(p, x)' <=> Out(p)' \/ Call(p)' \/ Msg(p)'
    BY DEF Holds
  <2> QED
    BY <2>1, <2>2, <2>3, <2>4, <2>5, <2>6
<1>5. ArgsStreamed' = ArgsStreamed /\ Left' = Left /\ fed' = fed
  BY <1>1, StreamedSame DEF ArgsStreamed, DeltaTypes, Quiet
<1> HIDE DEF b
<1> QED
  BY <1>3, <1>4, <1>5, PlaceMoved

LEMMA HeldStep ==
  ASSUME TypeInv, Placed, HeldOnce, [Next]_vars
  PROVE  HeldOnce'
<1>0. /\ calls \in Seq(CallState) /\ log \in Seq(Event) /\ output \in Seq(OutputItem)
      /\ fed \in Nat /\ cur \in Pending /\ Control /\ TypeOK
  BY DEF TypeInv, TypeOK
<1>1. Range(<<>>) = {}
  BY DEF Range
\* The lists and tables stay, and of the message at most the text goes.
<1>2. ASSUME Quiet, UNCHANGED <<output, calls, closed>>,
             current' # None => \/ current # None /\ current'.text = current.text
                                \/ current'.text = <<>>
      PROVE  HeldOnce'
  <2>1. \A x, p : Holds(p, x)' => Holds(p, x)
    BY <1>1, <1>2 DEF Holds
  <2>2. \A x : \A p \in ArgsPlaces : Holds(p, x) => Holds(p, x)'
    BY <1>2 DEF Holds, ArgsPlaces
  <2> QED
    BY <1>2, <2>1, <2>2, HeldAsBefore
\* The steps on the chunk.
<1>3. ASSUME NEW r \in open, NEW k \in Chunks, ModelStream(r, k) PROVE HeldOnce'
  <2>1. /\ UNCHANGED <<log, output, calls, closed, current>>
        /\ fed' \in Nat /\ fed <= fed'
        /\ \A y \in Left' : y \in Nat /\ fed < y
    BY <1>3, ChunkTaken DEF ModelStream
  <2>2. ArgsStreamed' = ArgsStreamed /\ \A x, p : Holds(p, x)' <=> Holds(p, x)
    BY <2>1 DEF ArgsStreamed, StreamedIn, Holds
  <2> QED
    BY <1>0, <2>1, <2>2, PlacesKept
<1>4. CASE EmitReasoning
  <2>1. PICK item : Streams(cur.reasoning, "reasoning.delta", item)
    BY <1>4, ReasoningTaken
  <2>2. UNCHANGED <<output, calls, closed, current>> /\ fed' = fed
    BY <1>4 DEF EmitReasoning, graph
  <2>3. StreamedIn({"args.delta"})' = StreamedIn({"args.delta"})
    <3>1. StreamedIn({"args.delta"})'
            = StreamedIn({"args.delta"})
                \cup (IF "reasoning.delta" \in {"args.delta"} THEN {cur.reasoning} ELSE {})
      BY <1>0, <2>1, StreamedMore
    <3> QED
      BY <3>1
  <2>4. ArgsStreamed' = ArgsStreamed /\ \A x, p : Holds(p, x)' <=> Holds(p, x)
    BY <2>2, <2>3 DEF ArgsStreamed, Holds
  <2>5. \A y \in Left' : y \in Left /\ y \in Nat
    BY <1>0, <2>1, TokensType DEF Streams, Left
  <2> QED
    BY <1>0, <2>2, <2>4, <2>5, PlacesKept
<1>5. CASE StartCall
  <2>1. PICK c : calls' = Append(calls, c) /\ c.args = <<>>
    BY <1>5 DEF StartCall
  <2>2. /\ DOMAIN calls' = DOMAIN calls \cup {Len(calls) + 1} /\ calls'[Len(calls) + 1] = c
        /\ \A n \in DOMAIN calls : calls'[n] = calls[n]
    BY <1>0, <2>1, AppendGrows
  <2>3. UNCHANGED <<output, closed, current>>
    BY <1>5 DEF StartCall
  <2>4. \A x, p : Holds(p, x)' <=> Holds(p, x)
    BY <1>1, <2>1, <2>2, <2>3 DEF Holds
  <2> QED
    BY <1>5, <2>4, StartTaken, HeldAsBefore
\* All others stream nothing.
<1>6. ASSUME Quiet,
             Created \/ InProgress \/ AddPart \/ ClosePart \/ CloseArgs \/ ToolStart
               \/ (\E r \in running : ToolError(r)) \/ Complete \/ GraphRaises \/ Disconnect
               \/ UNCHANGED vars
      PROVE  HeldOnce'
  <2>1. UNCHANGED <<output, calls, closed, current>>
    BY <1>6 DEF Created, InProgress, AddPart, ClosePart, CloseArgs, ToolStart, ToolError, Complete,
       GraphRaises, Disconnect, vars, items
  <2> QED
    BY <1>2, <1>6, <2>1
<1>7. ASSUME Quiet, ModelStart PROVE HeldOnce'
  BY <1>2, <1>7 DEF ModelStart
<1>8. ASSUME Quiet, OpenMessage PROVE HeldOnce'
  <2>1. /\ current # None /\ nextIndex \in Nat
        /\ current' = [current EXCEPT !.idx = nextIndex]
        /\ UNCHANGED <<output, calls, closed>>
    BY <1>0, <1>8 DEF OpenMessage, Control, TypeOK
  <2>2. current'.text = current.text
    BY <1>0, <2>1, CurrentStepType
  <2> QED
    BY <1>2, <1>8, <2>1, <2>2
<1>9. ASSUME Quiet, NEW r \in open, ModelEndWithText(r) \/ ModelEndWithoutText(r) PROVE HeldOnce'
  BY <1>2, <1>9 DEF ModelEndWithText, ModelEndWithoutText, items
<1>10. ASSUME Quiet, CloseMessage PROVE HeldOnce'
  <2> DEFINE e == OfMessage("item.done", current.text)
             o == [item |-> e.item, call |-> e.call, body |-> e.body]
  <2>1. output' = Append(output, o) /\ o.body = current.text
    BY <1>10 DEF CloseMessage, Completes, OfMessage, About
  <2>2. current # None /\ current' = None /\ UNCHANGED <<calls, closed>>
    BY <1>0, <1>10 DEF CloseMessage, Control, Opened
  <2> HIDE DEF o
  <2>3. \A x : x \in Range(o.body) <=> Holds(<<"msg", 0>>, x)
    BY <2>1, <2>2 DEF Holds
  <2> QED
    BY <1>10, <2>1, <2>2, <2>3, ItemHeld
<1>11. ASSUME Quiet, CloseCall PROVE HeldOnce'
  <2> DEFINE n == closed + 1
             e == OfCall("item.done", calls[n], calls[n].args)
             o == [item |-> e.item, call |-> e.call, body |-> e.body]
  <2>1. output' = Append(output, o) /\ o.body = calls[n].args
    BY <1>11 DEF CloseCall, Completes, OfCall, About
  <2>2. /\ n \in DOMAIN calls /\ closed < n /\ closed' = n /\ UNCHANGED <<calls, current>>
        /\ \A m \in DOMAIN calls : n < m <=> closed < m /\ m # n
    <3>1. /\ closed \in Nat /\ closed < Len(calls) /\ Len(calls) \in Nat
          /\ DOMAIN calls = 1 .. Len(calls)
      BY <1>0, <1>11 DEF CloseCall, Control, TypeOK
    <3>2. closed' = closed + 1 /\ UNCHANGED <<calls, current>>
      BY <1>11 DEF CloseCall
    <3> QED
      BY <3>1, <3>2
  <2> HIDE DEF o, n
  <2>3. \A x : x \in Range(o.body) <=> Holds(<<"call", n>>, x)
    BY <2>1, <2>2 DEF Holds
  <2> QED
    BY <1>11, <2>1, <2>2, <2>3, ItemHeld
<1>12. ASSUME Quiet, ClearCalls PROVE HeldOnce'
  <2>1. \A n \in DOMAIN calls : ~(closed < n)
    BY <1>0, <1>12 DEF ClearCalls
  <2>2. calls' = <<>> /\ UNCHANGED <<output, current>>
    BY <1>12 DEF ClearCalls
  <2>3. \A x, p : Holds(p, x)' <=> Holds(p, x)
    BY <2>1, <2>2 DEF Holds
  <2> QED
    BY <1>12, <2>3, HeldAsBefore
<1>13. ASSUME Quiet, NEW r \in MayEnd, NEW named \in BOOLEAN, ToolEnd(r, named) PROVE HeldOnce'
  <2>1. PICK o : output' = Append(output, o) /\ o.body = <<>>
    BY <1>13 DEF ToolEnd, Completes, About
  <2>2. /\ DOMAIN output' = DOMAIN output \cup {Len(output) + 1} /\ output'[Len(output) + 1] = o
        /\ \A n \in DOMAIN output : output'[n] = output[n]
    BY <1>0, <2>1, AppendGrows
  <2>3. UNCHANGED <<calls, closed, current>>
    BY <1>13 DEF ToolEnd
  <2>4. \A x, p : Holds(p, x)' <=> Holds(p, x)
    BY <1>1, <2>1, <2>2, <2>3 DEF Holds
  <2> QED
    BY <1>13, <2>4, HeldAsBefore
<1>14. CASE ~OnChunk
  <2>1. Quiet
    BY <1>14, OthersQuiet
  <2> QED
    BY <1>6, <1>7, <1>8, <1>9, <1>10, <1>11, <1>12, <1>13, <1>14, <2>1 DEF Next, Emit, OnChunk
<1> QED
  BY <1>3, <1>4, <1>5, <1>14, TextHeld, FragmentHeld DEF OnChunk

\* ArgsOnce: whichever model run ends first, each piece of arguments that was streamed
\* is in exactly one item of a completed response.
THEOREM ArgumentsInOneItem == Spec => []ArgsOnce
<1>1. TypeInv /\ Placed /\ HeldOnce /\ Settled /\ [Next]_vars
        => (Placed /\ HeldOnce /\ Settled)'
  BY PlacedStep, HeldStep, SettledStep
<1>2. ASSUME TypeInv, HeldOnce, Settled PROVE ArgsOnce
  <2> SUFFICES ASSUME NEW i \in DOMAIN log, NEW k \in DOMAIN log,
                      log[i].type = "completed", log[k].type = "args.delta"
               PROVE  \E j \in DOMAIN log[i].output : \A h \in DOMAIN log[i].output :
                        (\E n \in DOMAIN log[i].output[h].body :
                            log[i].output[h].body[n] = log[k].body[1]) <=> h = j
    BY DEF ArgsOnce
  <2> DEFINE x == log[k].body[1]
  <2>1. calls = <<>> /\ log[i].output = output
    BY <1>2 DEF Settled
  <2>2. x \in ArgsStreamed
    BY DEF ArgsStreamed, StreamedIn
  <2> HIDE DEF x
  <2>3. PICK p \in ArgsPlaces : Holds(p, x)
    BY <1>2, <2>2 DEF HeldOnce
  <2>4. \A h \in DOMAIN output : x \in Range(output[h].body) => Holds(<<"out", h>>, x)
    BY DEF Holds
  <2>5. \E j \in DOMAIN output : p = <<"out", j>> /\ x \in Range(output[j].body)
    BY <2>1, <2>3 DEF Holds, ArgsPlaces
  <2>6. \E j \in DOMAIN output : \A h \in DOMAIN output : x \in Range(output[h].body) <=> h = j
    BY <1>2, <2>3, <2>4, <2>5 DEF HeldOnce
  <2> QED
    BY <2>1, <2>6 DEF Range, x
<1> QED
  BY <1>1, <1>2, HeldInit, TypeInit, TypeStep, PTL DEF Spec

-----------------------------------------------------------------------------
(* The sink holds the texts, as long as model runs follow one another.     *)

TextOf(e) == IF e.type = "text.delta" THEN e.body ELSE <<>>

LEMMA TextsMore ==
  ASSUME log \in Seq(Event), log' \in Seq(Event), NEW e, Yield(e)
  PROVE  /\ Texts \in Seq(Nat) /\ TextOf(e) \in Seq(Nat)
         /\ Texts' = Texts \o TextOf(e)
<1>1. PICK l, ss, tt : /\ l = Len(log) /\ ss = [i \in DOMAIN log |-> TextOf(log[i])]
                       /\ tt = [i \in DOMAIN log' |-> TextOf(log'[i])]
  OBVIOUS
<1>2. Texts = Concat(ss) /\ Texts' = Concat(tt)
  BY <1>1 DEF Texts, TextOf
<1>3. /\ l \in Nat /\ DOMAIN log = 1 .. l /\ DOMAIN log' = 1 .. (l + 1)
      /\ log'[l + 1] = e /\ \A i \in 1 .. l : log'[i] = log[i]
  BY <1>1 DEF Yield
<1>4. e \in Event /\ \A i \in 1 .. l : log[i] \in Event
  BY <1>1, <1>3
<1>5. \A d \in Event : TextOf(d) \in Seq(Nat)
  BY DEF Event, TextOf
<1>6. PICK Q : Q = Seq(Nat)
  OBVIOUS
<1>7. ss \in [1 .. l -> Q] /\ TextOf(e) \in Q
  BY <1>1, <1>3, <1>4, <1>5, <1>6
<1>8. ss \in Seq(Q) /\ Len(ss) = l
  BY <1>3, <1>7
<1>9. tt = Append(ss, TextOf(e))
  <2>1. /\ Append(ss, TextOf(e)) \in Seq(Q) /\ DOMAIN Append(ss, TextOf(e)) = 1 .. (l + 1)
        /\ Append(ss, TextOf(e))[l + 1] = TextOf(e)
        /\ \A i \in 1 .. l : Append(ss, TextOf(e))[i] = ss[i]
    BY <1>3, <1>7, <1>8
  <2>2. PICK u : u = Append(ss, TextOf(e))
    OBVIOUS
  <2>3. \A i \in 1 .. (l + 1) : i = l + 1 \/ i \in 1 .. l
    BY <1>3
  <2>4. \A i \in 1 .. (l + 1) : u[i] = tt[i]
    BY <1>1, <1>3, <2>1, <2>2, <2>3
  <2>5. u = [i \in 1 .. (l + 1) |-> u[i]] /\ tt = [i \in 1 .. (l + 1) |-> tt[i]]
    BY <1>1, <1>3, <2>1, <2>2
  <2> QED
    BY <2>2, <2>4, <2>5
<1>10. ss \in Seq(Seq(Nat)) /\ TextOf(e) \in Seq(Nat)
  BY <1>6, <1>7, <1>8
<1>11. Concat(Append(ss, TextOf(e))) = Concat(ss) \o TextOf(e)
  BY <1>10, ConcatAppend
<1>12. Concat(ss) \in Seq(Nat)
  BY <1>10, ConcatPlaces
<1> QED
  BY <1>2, <1>9, <1>10, <1>11, <1>12

\* The text of the current message that the sink has not yet been given.
Owed == IF current = None \/ pc \in {"close_part", "close_message"} THEN <<>> ELSE current.text

\* The text streamed is that in the sink and then what is owed; a message not opened
\* has none; and a completed response has no current message.
Sunk ==
  /\ pc # "gone" => Texts = Concat(sink) \o Owed
  /\ current # None /\ ~Opened => current.text = <<>>
  /\ Completed => current = None

LEMMA SunkInit == Init => Sunk
<1> SUFFICES ASSUME Init PROVE Sunk
  OBVIOUS
<1>1. log = <<>> /\ sink = <<>> /\ current = None
  BY DEF Init
<1>2. [i \in DOMAIN log |-> IF log[i].type = "text.delta" THEN log[i].body ELSE <<>>] = <<>>
  BY <1>1
<1>3. Concat(<<>>) = <<>>
  <2>1. <<>> \in Seq(Nat)
    OBVIOUS
  <2> QED
    BY <2>1, ConcatShort
<1>4. Texts = <<>> /\ Concat(sink) = <<>> /\ Owed = <<>> /\ ~Completed
  BY <1>1, <1>2, <1>3 DEF Texts, Owed, Completed
<1>5. <<>> \o <<>> = <<>>
  OBVIOUS
<1> QED
  BY <1>1, <1>4, <1>5 DEF Sunk

\* A step that puts no text anywhere.
LEMMA NoTextSunk ==
  ASSUME Sunk, Texts' = Texts, UNCHANGED sink, Completed' => current' = None,
         pc' = "gone" \/ (pc # "gone" /\ Owed' = Owed),
         current' = None \/ (current' = current /\ (Opened' <=> Opened)) \/ Opened'
           \/ current'.text = <<>>
  PROVE  Sunk'
  BY DEF Sunk

LEMMA SunkStep ==
  ASSUME Sequential, TypeInv, OneRun, Placed, Sunk, [Next]_vars
  PROVE  Sunk'
<1>0. /\ log \in Seq(Event) /\ sink \in Seq(Seq(Nat)) /\ TypeOK /\ Control
      /\ Placed' /\ log' \in Seq(Event)
  BY PlacedStep, TypeStep DEF TypeInv, TypeOK
<1>1. pc' # "end" => ~Completed'
  BY <1>0 DEF Placed
\* An event that is no text changes no text.
<1>2. ASSUME UNCHANGED log \/ \E e : Yield(e) /\ e.type # "text.delta" PROVE Texts' = Texts
  <2>1. CASE UNCHANGED log
    BY <2>1 DEF Texts
  <2>2. CASE \E e : Yield(e) /\ e.type # "text.delta"
    <3>1. PICK e : Yield(e) /\ e.type # "text.delta"
      BY <2>2
    <3>2. Texts \in Seq(Nat) /\ Texts' = Texts \o TextOf(e) /\ TextOf(e) = <<>>
      BY <1>0, <3>1, TextsMore DEF TextOf
    <3> QED
      BY <3>2, ConcatEmptySeq
  <2> QED
    BY <1>2, <2>1, <2>2
<1>3. Quiet => Texts' = Texts
  BY <1>2 DEF Quiet, DeltaTypes
\* The current message stays as it is, and so does what is owed.
<1>4. ASSUME Texts' = Texts, UNCHANGED <<sink, current>>, pc # "gone", pc' # "end",
             pc' \in {"close_part", "close_message"} <=> pc \in {"close_part", "close_message"}
      PROVE  Sunk'
  <2>1. Owed' = Owed /\ (Opened' <=> Opened)
    BY <1>4 DEF Owed, Opened
  <2> QED
    BY <1>1, <1>4, <2>1, NoTextSunk
<1>5. ASSUME NEW r \in open, NEW k \in Chunks, ModelStream(r, k) PROVE Sunk'
  BY <1>2, <1>4, <1>5 DEF ModelStream, Waiting
<1>6. CASE EmitReasoning
  <2>1. \E e : Yield(e) /\ e.type # "text.delta"
    BY <1>6 DEF EmitReasoning, About
  <2> QED
    BY <1>2, <1>4, <1>6, <2>1 DEF EmitReasoning
<1>7. CASE EmitArgs
  <2>1. \E e : Yield(e) /\ e.type # "text.delta"
    BY <1>7 DEF EmitArgs, ArgsDelta, About
  <2> QED
    BY <1>2, <1>4, <1>7, <2>1 DEF EmitArgs
<1>8. CASE EmitText
  <2>1. /\ current # None /\ current.text \in Seq(Nat) /\ cur.text \in Nat
        /\ sink' = sink /\ pc = "stream" /\ pc' = "stream"
        /\ current' = [current EXCEPT !.text = Append(@, cur.text)] /\ current.idx # -1
    BY <1>0, <1>8, CurrentType, TakeOutType DEF EmitText, Control
  <2>2. /\ current' # None /\ current'.text = Append(current.text, cur.text)
        /\ current'.idx = current.idx
    <3>1. /\ [current EXCEPT !.text = Append(@, cur.text)]
               = [item |-> current.item, idx |-> current.idx,
                  text |-> Append(current.text, cur.text)]
          /\ [current EXCEPT !.text = Append(@, cur.text)] \in MessageState
      BY <1>0, <2>1, CurrentStepType
    <3> QED
      BY <2>1, <3>1, NoMessageAssumption
  <2>3. Texts' = Texts \o <<cur.text>>
    <3>1. Yield(OfMessage("text.delta", <<cur.text>>))
      BY <1>8 DEF EmitText
    <3>2. TextOf(OfMessage("text.delta", <<cur.text>>)) = <<cur.text>>
      BY DEF TextOf, OfMessage, About
    <3> QED
      BY <1>0, <3>1, <3>2, TextsMore
  <2>4. Owed = current.text /\ Owed' = Append(current.text, cur.text) /\ Opened'
    BY <2>1, <2>2 DEF Owed, Opened
  <2>5. Texts = Concat(sink) \o current.text /\ Concat(sink) \in Seq(Nat)
    BY <1>0, <2>1, <2>4, ConcatPlaces DEF Sunk
  <2>6. PICK s, t, x : s = Concat(sink) /\ t = current.text /\ x = <<cur.text>>
    OBVIOUS
  <2>7. (s \o t) \o x = s \o (t \o x) /\ Append(t, cur.text) = t \o x
    <3>1. s \in Seq(Nat) /\ t \in Seq(Nat) /\ x \in Seq(Nat)
      BY <2>1, <2>5, <2>6
    <3>2. Append(t, cur.text) = t \o <<cur.text>>
      BY <2>1, <3>1, AppendIsConcat
    <3>3. (s \o t) \o x = s \o (t \o x)
      BY <3>1, ConcatAssociative, SMTT(30)
    <3> QED
      BY <2>6, <3>2, <3>3
  <2>8. Texts' = Concat(sink)' \o Owed'
    BY <2>1, <2>3, <2>4, <2>5, <2>6, <2>7
  <2> QED
    BY <1>1, <2>1, <2>4, <2>8 DEF Sunk
<1>9. CASE StartCall
  <2>1. \E e : Yield(e) /\ e.type # "text.delta"
    BY <1>9 DEF StartCall, OfCall, About
  <2> QED
    BY <1>2, <1>4, <1>9, <2>1 DEF StartCall, AtFragment
<1>10. ASSUME NEW n \in DOMAIN calls, ContinueCall(n) PROVE Sunk'
  <2>1. UNCHANGED log \/ \E e : Yield(e) /\ e.type # "text.delta"
    BY <1>10 DEF ContinueCall, ArgsDelta, About
  <2> QED
    BY <1>2, <1>4, <1>10, <2>1 DEF ContinueCall, AtFragment
\* All others stream nothing.
<1>11. ASSUME Quiet,
              Created \/ InProgress \/ AddPart \/ ClosePart \/ CloseArgs \/ CloseCall \/ ClearCalls
                \/ ToolStart \/ (\E r \in MayEnd, named \in BOOLEAN : ToolEnd(r, named))
                \/ (\E r \in running : ToolError(r))
       PROVE  Sunk'
  <2>1. /\ UNCHANGED <<sink, current>> /\ pc # "gone" /\ pc' # "end"
        /\ pc' \in {"close_part", "close_message"} <=> pc \in {"close_part", "close_message"}
    BY <1>11 DEF Created, InProgress, AddPart, ClosePart, CloseArgs, CloseCall, ClearCalls,
       ToolStart, ToolEnd, ToolError, Waiting, items
  <2> QED
    BY <1>3, <1>4, <1>11, <2>1
<1>12. ASSUME Quiet, ModelStart PROVE Sunk'
  <2>1. current = None
    BY <1>0, <1>12, AloneAtStart DEF ModelStart, Waiting, OneRun, Receiving
  <2>2. /\ current'.text = <<>> /\ sink' = sink /\ pc = "stream" /\ pc' = "stream"
    BY <1>12 DEF ModelStart, Waiting
  <2>3. Owed' = Owed
    BY <2>1, <2>2 DEF Owed
  <2> QED
    BY <1>1, <1>3, <1>12, <2>2, <2>3, NoTextSunk
<1>13. ASSUME Quiet, OpenMessage PROVE Sunk'
  <2>1. /\ current # None /\ nextIndex \in Nat /\ sink' = sink /\ pc = "stream" /\ pc' = "part"
        /\ current' = [current EXCEPT !.idx = nextIndex]
    BY <1>0, <1>13 DEF OpenMessage, Control, TypeOK
  <2>2. current'.text = current.text /\ current'.idx = nextIndex /\ current' # None
    <3>1. /\ [current EXCEPT !.idx = nextIndex]
               = [item |-> current.item, idx |-> nextIndex, text |-> current.text]
          /\ [current EXCEPT !.idx = nextIndex] \in MessageState
      BY <1>0, <2>1, CurrentStepType
    <3> QED
      BY <2>1, <3>1, NoMessageAssumption
  <2>3. Owed' = Owed /\ Opened'
    BY <2>1, <2>2 DEF Owed, Opened
  <2> QED
    BY <1>1, <1>3, <1>13, <2>1, <2>3, NoTextSunk
<1>14. ASSUME Quiet, NEW r \in open, ModelEndWithText(r) PROVE Sunk'
  <2>1. /\ sink' = Append(sink, current.text) /\ current' = current /\ Opened
        /\ pc = "stream" /\ pc' = "close_part"
    BY <1>14 DEF ModelEndWithText, IntoSink, items, Waiting
  <2>2. current # None /\ current.text \in Seq(Nat)
    BY <1>0, <2>1, CurrentType DEF Opened
  <2>3. Owed = current.text /\ Owed' = <<>> /\ Opened'
    BY <2>1, <2>2 DEF Owed, Opened
  <2>4. Concat(sink') = Concat(sink) \o current.text
    BY <1>0, <2>1, <2>2, ConcatAppend
  <2>5. Texts = Concat(sink') /\ Concat(sink) \in Seq(Nat)
    BY <1>0, <2>1, <2>3, <2>4, ConcatPlaces DEF Sunk
  <2>6. Concat(sink') \in Seq(Nat)
    BY <2>2, <2>4, <2>5
  <2>7. Concat(sink') \o <<>> = Concat(sink')
    BY <2>6, ConcatEmptySeq
  <2> QED
    BY <1>1, <1>3, <1>14, <2>1, <2>3, <2>5, <2>7 DEF Sunk
<1>15. ASSUME Quiet, NEW r \in open, ModelEndWithoutText(r) PROVE Sunk'
  <2>1. sink' = sink /\ current' = None /\ ~Opened /\ pc = "stream" /\ pc' = "closing"
    BY <1>15 DEF ModelEndWithoutText, Waiting
  <2>2. Owed = <<>> /\ Owed' = <<>>
    BY <2>1 DEF Sunk, Owed
  <2> QED
    BY <1>1, <1>3, <1>15, <2>1, <2>2, NoTextSunk
<1>16. ASSUME Quiet, CloseMessage PROVE Sunk'
  <2>1. sink' = sink /\ current' = None /\ pc = "close_message" /\ pc' = "closing"
    BY <1>16 DEF CloseMessage
  <2>2. Owed = <<>> /\ Owed' = <<>>
    BY <2>1 DEF Owed
  <2> QED
    BY <1>1, <1>3, <1>16, <2>1, <2>2, NoTextSunk
<1>17. ASSUME Quiet, Complete \/ GraphRaises PROVE Sunk'
  <2>1. UNCHANGED <<sink, current>> /\ pc = "stream" /\ pc' = "end"
    BY <1>17 DEF Complete, GraphRaises, items, Waiting
  <2>2. Owed' = Owed /\ (Opened' <=> Opened)
    BY <2>1 DEF Owed, Opened
  <2>3. CASE Complete
    <3>1. current = None
      BY <2>1, <2>3 DEF Complete, OneRun, Receiving
    <3>2. Texts' = Texts
      BY <1>3, <1>17
    <3> QED
      BY <2>1, <2>2, <3>1, <3>2, NoTextSunk
  <2>4. CASE GraphRaises
    <3>1. \E e : Yield(e) /\ e.type # "completed"
      <4>1. [Plain("failed") EXCEPT !.output = output].type = "failed"
        BY DEF Plain, About
      <4> QED
        BY <2>4, <4>1 DEF GraphRaises
    <3>2. ~Completed'
      BY <1>0, <2>1, <3>1, NotCompleted
    <3> QED
      BY <1>3, <1>17, <2>1, <2>2, <3>2, NoTextSunk
  <2> QED
    BY <1>17, <2>3, <2>4
<1>18. CASE Disconnect
  <2>1. UNCHANGED <<sink, current, log>> /\ pc' = "gone"
    BY <1>18 DEF Disconnect, items
  <2>2. Opened' <=> Opened
    BY <2>1 DEF Opened
  <2> QED
    BY <1>1, <1>2, <2>1, <2>2, NoTextSunk
<1>19. CASE UNCHANGED vars
  <2>1. UNCHANGED <<log, sink, current, pc>>
    BY <1>19 DEF vars, items
  <2>2. Texts' = Texts /\ Owed' = Owed /\ (Completed' <=> Completed) /\ (Opened' <=> Opened)
    BY <1>2, <2>1 DEF Owed, Completed, Opened
  <2> QED
    BY <2>1, <2>2 DEF Sunk
<1>20. CASE ~OnChunk
  <2>1. Quiet
    BY <1>20, OthersQuiet
  <2> QED
    BY <1>11, <1>12, <1>13, <1>14, <1>15, <1>16, <1>17, <1>18, <1>19, <1>20, <2>1
       DEF Next, Emit, OnChunk
<1> QED
  BY <1>5, <1>6, <1>7, <1>8, <1>9, <1>10, <1>20 DEF OnChunk

\* SinkComplete: while model runs follow one another, the texts in the sink of a
\* completed response, one after the other, are the text that was streamed.
THEOREM SequentialSinkComplete ==
  ASSUME Sequential
  PROVE  Spec => []SinkComplete
<1>1. TypeInv /\ OneRun /\ Placed /\ Sunk /\ [Next]_vars => (OneRun /\ Placed /\ Sunk)'
  BY OneRunStep, PlacedStep, SunkStep
<1>2. TypeInv /\ Placed /\ Sunk => SinkComplete
  <2> SUFFICES ASSUME TypeInv, Placed, Sunk, Completed PROVE Concat(sink) = Texts
    BY DEF SinkComplete
  <2>1. pc # "gone" /\ current = None /\ sink \in Seq(Seq(Nat))
    BY DEF Placed, Sunk, TypeInv, TypeOK
  <2>2. Texts = Concat(sink) \o <<>>
    BY <2>1 DEF Sunk, Owed
  <2>3. Concat(sink) \in Seq(Nat)
    BY <2>1, ConcatPlaces
  <2> QED
    BY <2>2, <2>3, ConcatEmptySeq
<1> QED
  BY <1>1, <1>2, TypeInit, TypeStep, OneRunInit, PlacedInit, SunkInit, PTL DEF Spec

-----------------------------------------------------------------------------
(* Which call a piece goes to, as long as model runs follow one another.   *)
(* A spot is where in the run a piece was delivered.                       *)

Spots == {y \in Nat \X Nat : y[1] \in DOMAIN source /\ y[2] \in DOMAIN source[y[1]].chunk.frags}
PieceAt(y) == source[y[1]].chunk.frags[y[2]]
RunAt(y) == source[y[1]].run
NameAt(y) == IF PieceAt(y).origin = 0 THEN <<0, PieceAt(y).args>>
                                       ELSE <<RunAt(y), PieceAt(y).origin>>

ArgDeltas == {i \in DOMAIN log : log[i].type = "args.delta"}
CameFrom(i, y) == y \in Spots /\ PieceAt(y).args = log[i].body[1] /\ log[i].body[1] # 0

\* Each token was delivered once.
Delivered ==
  /\ \E S : source \in Seq(S)
  /\ \A m \in DOMAIN source :
       /\ source[m].run \in 1 .. runs /\ source[m].chunk.frags \in Seq(TokenFrag)
       /\ \A x \in TokensOf(source[m].chunk) : x \in Nat /\ x <= fed
       /\ \A j, k \in DOMAIN source[m].chunk.frags :
            (/\ source[m].chunk.frags[j].args = source[m].chunk.frags[k].args
             /\ source[m].chunk.frags[j].args # 0) => j = k
  /\ \A m, n \in DOMAIN source :
       \A x : x \in TokensOf(source[m].chunk) /\ x \in TokensOf(source[n].chunk) => m = n

\* What is left of a chunk was delivered by the run that is open.
FromRun ==
  \A j \in DOMAIN cur.frags :
    /\ Like(cur.frags[j], Pieces)
    /\ \E y \in Spots : PieceAt(y) = cur.frags[j] /\ RunAt(y) \in open

\* No two calls have one key or one item, and a made-up key is the call's own.
KeysApart ==
  /\ \A m, n \in DOMAIN calls :
       calls[m].key = calls[n].key \/ calls[m].item = calls[n].item => m = n
  /\ \A n \in DOMAIN calls : /\ calls[n].item[2] <= made
                             /\ calls[n].key[1] = "anon" => calls[n].key[2] = calls[n].item[2]
  /\ pc = "args" => calls[Len(calls)].key = KeyOf(Head(cur.frags), calls[Len(calls)].item[2])

\* The arguments streamed for a call of the table come from pieces of the open run with
\* the key of that call; and all of the open run went to calls of the table.
Fits(i, n, r) ==
  \E y : /\ CameFrom(i, y) /\ RunAt(y) = r /\ Like(PieceAt(y), Pieces)
         /\ calls[n].key = KeyOf(PieceAt(y), calls[n].item[2])
Traced ==
  /\ \A i \in ArgDeltas : log[i].item \in Item /\ log[i].item[2] <= made /\ \E y : CameFrom(i, y)
  /\ \A i \in ArgDeltas, n \in DOMAIN calls, r \in open :
       log[i].item = calls[n].item => Fits(i, n, r)
  /\ \A i \in ArgDeltas, y \in Spots :
       CameFrom(i, y) /\ RunAt(y) \in open => \E n \in DOMAIN calls : log[i].item = calls[n].item
  /\ pc = "args" => \A i \in ArgDeltas : log[i].item # calls[Len(calls)].item
Grouped ==
  \A i, k \in ArgDeltas : \A y, z \in Spots :
    CameFrom(i, y) /\ CameFrom(k, z) => (log[i].item = log[k].item <=> NameAt(y) = NameAt(z))

CallsInv == Delivered /\ FromRun /\ KeysApart /\ Traced /\ Grouped

LEMMA SpotsApart ==
  ASSUME Delivered, NEW y \in Spots, NEW z \in Spots,
         PieceAt(y).args = PieceAt(z).args, PieceAt(y).args # 0
  PROVE  y = z
<1>1. PICK m, j, n, k : m = y[1] /\ j = y[2] /\ n = z[1] /\ k = z[2]
  OBVIOUS
<1>2. y = <<m, j>> /\ z = <<n, k>>
  BY <1>1 DEF Spots
<1>3. /\ m \in DOMAIN source /\ j \in DOMAIN source[m].chunk.frags
      /\ n \in DOMAIN source /\ k \in DOMAIN source[n].chunk.frags
  BY <1>1 DEF Spots
<1>4. PICK x : x = source[m].chunk.frags[j].args /\ x = source[n].chunk.frags[k].args /\ x # 0
  BY <1>1 DEF PieceAt
<1>5. x \in TokensOf(source[m].chunk) /\ x \in TokensOf(source[n].chunk)
  BY <1>3, <1>4 DEF TokensOf
<1>6. m = n
  BY <1>3, <1>5 DEF Delivered
<1>7. j = k
  BY <1>3, <1>4, <1>6 DEF Delivered
<1> QED
  BY <1>2, <1>6, <1>7

LEMMA SpotTypes ==
  ASSUME TypeOK, Delivered, NEW y \in Spots
  PROVE  /\ PieceAt(y) \in TokenFrag /\ PieceAt(y).args \in Nat /\ PieceAt(y).args <= fed
         /\ RunAt(y) \in 1 .. runs
<1>1. PICK m, j, c : m = y[1] /\ j = y[2] /\ c = source[m].chunk
  OBVIOUS
<1>2. m \in DOMAIN source /\ j \in DOMAIN c.frags
  BY <1>1 DEF Spots
<1>3. source[m].run \in 1 .. runs /\ c.frags \in Seq(TokenFrag)
  BY <1>1, <1>2 DEF Delivered
<1>4. c.frags[j] \in TokenFrag
  BY <1>2, <1>3
<1>5. c.frags[j].args \in Nat
  BY <1>4 DEF TokenFrag
<1>6. c.frags[j].args # 0 => c.frags[j].args <= fed
  <2>1. c.frags[j].args # 0 => c.frags[j].args \in TokensOf(c)
    BY <1>2 DEF TokensOf
  <2> QED
    BY <1>1, <1>2, <2>1 DEF Delivered
<1>7. PICK x : x = c.frags[j].args /\ x \in Nat /\ (x # 0 => x <= fed)
  BY <1>5, <1>6
<1>8. x <= fed
  BY <1>7 DEF TypeOK
<1> QED
  BY <1>1, <1>3, <1>4, <1>7, <1>8 DEF PieceAt, RunAt

\* The call a token belongs to is told by where it is.
LEMMA CallNamed ==
  ASSUME Delivered, NEW y \in Spots, NEW x, x = PieceAt(y).args, x # 0
  PROVE  CallOf(x) = NameAt(y)
<1>1. PICK m, j : m = y[1] /\ j = y[2]
  OBVIOUS
<1>2. /\ m \in DOMAIN source /\ j \in DOMAIN source[m].chunk.frags
      /\ x = source[m].chunk.frags[j].args
  BY <1>1 DEF Spots, PieceAt
<1>3. x \in TokensOf(source[m].chunk)
  BY <1>2 DEF TokensOf
<1>4. m = CHOOSE n \in DOMAIN source : x \in TokensOf(source[n].chunk)
  BY <1>2, <1>3 DEF Delivered
<1>5. PICK frags : frags = source[m].chunk.frags
  OBVIOUS
<1>6. j = CHOOSE i \in DOMAIN frags : frags[i].args = x
  BY <1>2, <1>5 DEF Delivered
<1>7. CallOf(x) = IF frags[j].origin = 0 THEN <<0, x>> ELSE <<source[m].run, frags[j].origin>>
  BY <1>4, <1>5, <1>6 DEF CallOf
<1> QED
  BY <1>1, <1>2, <1>5, <1>7 DEF NameAt, PieceAt, RunAt

LEMMA ReassembledHere == ASSUME CallsInv PROVE CallsReassembled
<1> SUFFICES ASSUME NEW i \in ArgDeltas, NEW k \in ArgDeltas
             PROVE  (log[i].item = log[k].item) <=> (CallOf(log[i].body[1]) = CallOf(log[k].body[1]))
  BY DEF CallsReassembled, ArgDeltas
<1>1. PICK y : CameFrom(i, y)
  BY DEF CallsInv, Traced
<1>2. PICK z : CameFrom(k, z)
  BY DEF CallsInv, Traced
<1>3. y \in Spots /\ z \in Spots
  BY <1>1, <1>2 DEF CameFrom
<1>4. log[i].item = log[k].item <=> NameAt(y) = NameAt(z)
  BY <1>1, <1>2, <1>3 DEF CallsInv, Grouped
<1>5. CallOf(log[i].body[1]) = NameAt(y)
  BY <1>1, CallNamed DEF CallsInv, CameFrom
<1>6. CallOf(log[k].body[1]) = NameAt(z)
  BY <1>2, CallNamed DEF CallsInv, CameFrom
<1> QED
  BY <1>4, <1>5, <1>6

\* Two steps that stream no arguments and deliver nothing: the calls stay, and no run
\* starts; or there is no call any more, and the run that is open is new.
SameDeltas == ArgDeltas' = ArgDeltas /\ \A i \in ArgDeltas : log'[i] = log[i]

LEMMA NoArgsDelta ==
  ASSUME log \in Seq(Event), UNCHANGED log \/ \E e : Yield(e) /\ e.type # "args.delta"
  PROVE  SameDeltas
<1>1. CASE UNCHANGED log
  BY <1>1 DEF SameDeltas, ArgDeltas
<1>2. CASE \E e : Yield(e) /\ e.type # "args.delta"
  <2>1. PICK e : Yield(e) /\ e.type # "args.delta"
    BY <1>2
  <2>2. /\ DOMAIN log' = DOMAIN log \cup {Len(log) + 1} /\ log'[Len(log) + 1] = e
        /\ \A i \in DOMAIN log : log'[i] = log[i]
    BY <2>1, LogGrows DEF Yield
  <2> QED
    BY <2>1, <2>2 DEF SameDeltas, ArgDeltas
<1> QED
  BY <1>1, <1>2

LEMMA SameSpots ==
  ASSUME UNCHANGED source
  PROVE  /\ Spots' = Spots
         /\ \A y : PieceAt(y)' = PieceAt(y) /\ RunAt(y)' = RunAt(y) /\ NameAt(y)' = NameAt(y)
  BY DEF Spots, PieceAt, RunAt, NameAt

LEMMA SameOrigins ==
  ASSUME UNCHANGED source, SameDeltas
  PROVE  \A i \in ArgDeltas : \A y : CameFrom(i, y)' <=> CameFrom(i, y)
  BY SameSpots DEF CameFrom, SameDeltas

\* The pieces left are some of those that were.
LEMMA PiecesLeft ==
  ASSUME FromRun, UNCHANGED source, open' = open \/ cur'.frags = <<>>,
         \A j \in DOMAIN cur'.frags : \E i \in DOMAIN cur.frags : cur'.frags[j] = cur.frags[i]
  PROVE  FromRun'
<1> SUFFICES ASSUME NEW j \in DOMAIN cur'.frags
             PROVE  /\ Like(cur'.frags[j], Pieces)
                    /\ \E y \in Spots' : PieceAt(y)' = cur'.frags[j] /\ RunAt(y)' \in open'
  BY DEF FromRun, Like, Pieces, Accepts
<1>1. PICK i \in DOMAIN cur.frags : cur'.frags[j] = cur.frags[i]
  OBVIOUS
<1>2. Like(cur.frags[i], Pieces) /\ \E y \in Spots : PieceAt(y) = cur.frags[i] /\ RunAt(y) \in open
  BY <1>1 DEF FromRun
<1>3. PICK y \in Spots : PieceAt(y) = cur.frags[i] /\ RunAt(y) \in open
  BY <1>2
<1>4. y \in Spots' /\ PieceAt(y)' = PieceAt(y) /\ RunAt(y)' = RunAt(y)
  BY <1>3, SameSpots
<1>5. open' = open
  OBVIOUS
<1>6. \E x \in Spots' : PieceAt(x)' = cur'.frags[j] /\ RunAt(x)' \in open'
  <2>1. PieceAt(y)' = cur'.frags[j] /\ RunAt(y)' \in open'
    BY <1>1, <1>3, <1>4, <1>5
  <2> QED
    BY <1>4, <2>1
<1>7. Like(cur'.frags[j], Pieces)
  BY <1>1, <1>2
<1> QED
  BY <1>6, <1>7

\* The calls keep their items and keys.
SameCalls ==
  /\ Len(calls') = Len(calls) /\ DOMAIN calls' = DOMAIN calls
  /\ \A n \in DOMAIN calls : calls'[n].item = calls[n].item /\ calls'[n].key = calls[n].key

LEMMA KeysStay ==
  ASSUME TypeInv, KeysApart, SameCalls, made' \in Nat, made <= made',
         pc' = "args" => pc = "args" /\ cur'.frags = cur.frags
  PROVE  KeysApart'
<1>0. /\ made \in Nat /\ \A n \in DOMAIN calls : calls[n].item \in Item
      /\ calls # <<>> => Len(calls) \in DOMAIN calls
  <2>1. made \in Nat /\ calls \in Seq(CallState) /\ \A n \in DOMAIN calls : calls[n].item \in Item
    BY CallType DEF TypeInv, TypeOK
  <2> QED
    BY <2>1
<1>1. \A n \in DOMAIN calls : calls'[n].item[2] <= made'
  <2>1. \A n \in DOMAIN calls : calls[n].item[2] <= made'
    BY <1>0 DEF KeysApart, Item
  <2> QED
    BY <2>1 DEF SameCalls
<1>2. /\ \A m, n \in DOMAIN calls' :
           calls'[m].key = calls'[n].key \/ calls'[m].item = calls'[n].item => m = n
      /\ \A n \in DOMAIN calls' : calls'[n].key[1] = "anon" => calls'[n].key[2] = calls'[n].item[2]
  BY DEF KeysApart, SameCalls
<1>3. CASE pc' = "args"
  <2>1. PICK n : n = Len(calls)
    OBVIOUS
  <2>2. cur'.frags = cur.frags /\ calls[n].key = KeyOf(Head(cur.frags), calls[n].item[2]) /\ Len(calls') = n
    BY <1>3, <2>1 DEF KeysApart, SameCalls
  <2>3. n \in DOMAIN calls
    BY <1>0, <1>3, <2>1 DEF TypeInv, Control
  <2>4. calls'[n].key = calls[n].key /\ calls'[n].item = calls[n].item
    BY <2>3 DEF SameCalls
  <2>5. calls'[Len(calls')].key = KeyOf(Head(cur'.frags), calls'[Len(calls')].item[2])
    BY <2>2, <2>4
  <2> QED
    BY <1>1, <1>2, <2>5 DEF KeysApart, SameCalls, KeyOf
<1> QED
  BY <1>1, <1>2, <1>3 DEF KeysApart, SameCalls, KeyOf

\* What was streamed keeps its origin, and so its call.
SameOrigin(i) ==
  \A y : CameFrom(i, y) => /\ CameFrom(i, y)' /\ PieceAt(y)' = PieceAt(y)
                           /\ RunAt(y)' = RunAt(y) /\ NameAt(y)' = NameAt(y)

LEMMA FitsStay ==
  ASSUME NEW i, NEW n, NEW r, Fits(i, n, r), SameOrigin(i),
         calls'[n].item = calls[n].item, calls'[n].key = calls[n].key
  PROVE  Fits(i, n, r)'
<1>1. PICK y : /\ CameFrom(i, y) /\ RunAt(y) = r /\ Like(PieceAt(y), Pieces)
               /\ calls[n].key = KeyOf(PieceAt(y), calls[n].item[2])
  BY DEF Fits
<1>2. PICK p, m : p = PieceAt(y) /\ m = calls[n].item[2] /\ p = PieceAt(y)' /\ m = calls'[n].item[2]
  BY <1>1 DEF SameOrigin
<1>3. CameFrom(i, y)' /\ RunAt(y)' = r
  BY <1>1 DEF SameOrigin
<1>4. Like(PieceAt(y)', Pieces)
  BY <1>1, <1>2
<1>5. calls'[n].key = KeyOf(PieceAt(y)', calls'[n].item[2])
  BY <1>1, <1>2
<1> QED
  BY <1>3, <1>4, <1>5 DEF Fits, Like, Pieces, Accepts, KeyOf

LEMMA CallsStay ==
  ASSUME TypeInv, CallsInv, SameDeltas, UNCHANGED <<source, fed, runs>>, SameCalls,
         made' \in Nat, made <= made',
         open' = open \/ (open' \subseteq open /\ cur'.frags = <<>>),
         \A j \in DOMAIN cur'.frags : \E i \in DOMAIN cur.frags : cur'.frags[j] = cur.frags[i],
         pc' = "args" => pc = "args" /\ cur'.frags = cur.frags
  PROVE  CallsInv'
<1>0. made \in Nat
  BY DEF TypeInv, TypeOK
<1>1. Delivered'
  BY DEF CallsInv, Delivered
<1>2. FromRun'
  BY PiecesLeft DEF CallsInv
<1>3. KeysApart'
  BY KeysStay DEF CallsInv
<1>4. \A i \in ArgDeltas : \A n \in DOMAIN calls : \A r : Fits(i, n, r) => Fits(i, n, r)'
  BY FitsStay, SameOrigins, SameSpots DEF SameCalls, SameOrigin
<1>5. Traced'
  <2>1. \A i \in ArgDeltas : log[i].item[2] <= made'
    BY <1>0 DEF CallsInv, Traced, Item
  <2>2. open' \subseteq open
    OBVIOUS
  <2>3. ASSUME pc' = "args", NEW i \in ArgDeltas PROVE log[i].item # calls'[Len(calls')].item
    <3>1. pc = "args" /\ log[i].item # calls[Len(calls)].item /\ Len(calls) \in DOMAIN calls
      BY <2>3 DEF CallsInv, Traced, TypeInv, TypeOK, Control
    <3> QED
      BY <3>1 DEF SameCalls
  <2>4. \A i \in ArgDeltas, n \in DOMAIN calls', r \in open' : log[i].item = calls'[n].item => Fits(i, n, r)'
    BY <1>4, <2>2 DEF CallsInv, Traced, SameCalls
  <2>5. \A i \in ArgDeltas, y \in Spots :
          CameFrom(i, y)' /\ RunAt(y)' \in open' => \E n \in DOMAIN calls' : log[i].item = calls'[n].item
    BY <2>2, SameOrigins, SameSpots DEF CallsInv, Traced, SameCalls
  <2>6. \A i \in ArgDeltas : log[i].item \in Item /\ \E y : CameFrom(i, y)'
    BY SameOrigins DEF CallsInv, Traced
  <2> QED
    BY <2>1, <2>3, <2>4, <2>5, <2>6, SameSpots DEF Traced, SameDeltas
<1>6. Grouped'
  BY SameOrigins, SameSpots DEF CallsInv, Grouped, SameDeltas
<1> QED
  BY <1>1, <1>2, <1>3, <1>5, <1>6 DEF CallsInv

LEMMA CallsGone ==
  ASSUME TypeOK, CallsInv, SameDeltas, UNCHANGED <<source, fed>>, runs' \in Nat, runs <= runs',
         made' \in Nat, made <= made',
         calls' = <<>>, cur'.frags = <<>>, pc' # "args", \A r \in open' : r \notin 1 .. runs
  PROVE  CallsInv'
<1>0. made \in Nat /\ runs \in Nat
  BY DEF TypeOK
<1>1. Delivered'
  <2>1. \A n \in 1 .. runs : n \in 1 .. runs'
    BY <1>0
  <2> QED
    BY <2>1 DEF CallsInv, Delivered
<1>2. FromRun' /\ KeysApart'
  BY DEF FromRun, KeysApart
<1>3. Traced'
  <2>1. \A i \in ArgDeltas : log[i].item[2] <= made'
    BY <1>0 DEF CallsInv, Traced, Item
  <2>2. \A y \in Spots : RunAt(y) \notin open'
    BY SpotTypes DEF CallsInv
  <2> QED
    BY <2>1, <2>2, SameOrigins, SameSpots DEF CallsInv, Traced, SameDeltas
<1>4. Grouped'
  BY SameOrigins, SameSpots DEF CallsInv, Grouped, SameDeltas
<1> QED
  BY <1>1, <1>2, <1>3, <1>4 DEF CallsInv

LEMMA CallsInit == Init => CallsInv
<1> SUFFICES ASSUME Init PROVE CallsInv
  OBVIOUS
<1>1. source = <<>> /\ log = <<>> /\ calls = <<>> /\ cur.frags = <<>> /\ pc = "start"
  BY DEF Init, Nothing
<1>2. Spots = {} /\ ArgDeltas = {}
  BY <1>1 DEF Spots, ArgDeltas
<1>3. source \in Seq({})
  BY <1>1
<1> QED
  BY <1>1, <1>2, <1>3 DEF CallsInv, Delivered, FromRun, KeysApart, Traced, Grouped

\* A chunk that is delivered adds spots, with tokens that are all new.
LEMMA ChunkSpots ==
  ASSUME TypeInv, Placed, CallsInv, NEW r \in open, NEW k \in Chunks, ModelStream(r, k),
         NEW c, c = Fill(k, fed)
  PROVE  /\ Delivered'
         /\ c.frags \in Seq(TokenFrag) /\ DOMAIN c.frags = DOMAIN k.frags
         /\ \A j \in DOMAIN c.frags :
              \E y \in Spots' : PieceAt(y)' = c.frags[j] /\ RunAt(y)' = r
         /\ \A y \in Spots : /\ y \in Spots' /\ PieceAt(y)' = PieceAt(y)
                             /\ RunAt(y)' = RunAt(y) /\ NameAt(y)' = NameAt(y)
         /\ \A y \in Spots' : y \in Spots \/ PieceAt(y)'.args = 0 \/ fed < PieceAt(y)'.args
<1>1. /\ fed \in Nat /\ k \in ChunkKind({k.node}) /\ runs' = runs
  BY EventChunksAssumption DEF TypeInv, TypeOK, ModelStream
<1>2. /\ Contents(c) \in Pending /\ InOrder(Contents(c)) /\ c.frags = Contents(c).frags
      /\ k.frags \in Seq(Fragment)
  BY <1>1, FillOrder DEF ChunkKind
<1>3. /\ source' = Append(source, [run |-> r, chunk |-> c])
      /\ fed' \in Nat /\ fed <= fed'
      /\ \A x \in TokensOf(c) : x \in Nat /\ fed < x /\ x <= fed'
  BY ChunkTaken
<1>4. c.frags \in Seq(TokenFrag) /\ DOMAIN c.frags = DOMAIN k.frags
  BY <1>2 DEF Pending, Fill
<1>5. PICK S : source \in Seq(S)
  BY DEF CallsInv, Delivered
<1>6. PICK l, d : l = Len(source) + 1 /\ d = [run |-> r, chunk |-> c]
  OBVIOUS
<1>7. d.run = r /\ d.chunk = c
  BY <1>6
<1>8. /\ DOMAIN source' = DOMAIN source \cup {l} /\ source'[l] = d /\ l \in Nat
      /\ \A m \in DOMAIN source : source'[m] = source[m]
      /\ \A m \in DOMAIN source : m \in Nat
  BY <1>3, <1>5, <1>6, AppendGrows
<1>9. \E T : source' \in Seq(T)
  BY <1>3, <1>5, AskedMore
<1>10. r \in 1 .. runs
  BY DEF TypeInv, TypeOK
<1>11. \A i, j \in DOMAIN c.frags : c.frags[i].args = c.frags[j].args /\ c.frags[i].args # 0 => i = j
  <2>1. \A i \in DOMAIN c.frags : i \in Nat /\ c.frags[i].args \in Nat
    BY <1>2, <1>4, FragmentFields
  <2>2. \A i, j \in DOMAIN c.frags :
          (i < j /\ c.frags[i].args # 0 /\ c.frags[j].args # 0) => c.frags[i].args < c.frags[j].args
    BY <1>2 DEF InOrder
  <2> QED
    BY <2>1, <2>2
<1>12. \A m \in DOMAIN source : \A x \in TokensOf(source[m].chunk) : x \in Nat /\ x <= fed
  BY DEF CallsInv, Delivered
<1>13. Delivered'
  <2>1. ASSUME NEW m \in DOMAIN source', NEW e, e = source'[m]
        PROVE  /\ e.run \in 1 .. runs' /\ e.chunk.frags \in Seq(TokenFrag)
               /\ \A x \in TokensOf(e.chunk) : x \in Nat /\ x <= fed'
               /\ \A i, j \in DOMAIN e.chunk.frags :
                    e.chunk.frags[i].args = e.chunk.frags[j].args /\ e.chunk.frags[i].args # 0 => i = j
    <3>1. CASE m = l
      <4>1. e.run = r /\ e.chunk = c
        BY <1>7, <1>8, <2>1, <3>1
      <4>2. \A x \in TokensOf(c) : x \in Nat /\ x <= fed'
        BY <1>3
      <4> QED
        BY <1>1, <1>4, <1>10, <1>11, <4>1, <4>2
    <3>2. CASE m \in DOMAIN source
      <4>1. e = source[m]
        BY <1>8, <2>1, <3>2
      <4>2. /\ e.run \in 1 .. runs /\ e.chunk.frags \in Seq(TokenFrag)
            /\ \A i, j \in DOMAIN e.chunk.frags :
                 e.chunk.frags[i].args = e.chunk.frags[j].args /\ e.chunk.frags[i].args # 0 => i = j
        BY <3>2, <4>1 DEF CallsInv, Delivered
      <4>3. \A x \in TokensOf(e.chunk) : x \in Nat /\ x <= fed
        BY <1>12, <3>2, <4>1
      <4>4. \A x \in Nat : x <= fed => x <= fed'
        BY <1>1, <1>3
      <4> QED
        BY <1>1, <4>2, <4>3, <4>4
    <3> QED
      BY <1>8, <3>1, <3>2
  <2>2. ASSUME NEW m \in DOMAIN source', NEW n \in DOMAIN source', NEW x,
               x \in TokensOf(source'[m].chunk), x \in TokensOf(source'[n].chunk)
        PROVE  m = n
    <3>1. \A i \in DOMAIN source : ~(x \in TokensOf(source[i].chunk) /\ x \in TokensOf(c))
      BY <1>1, <1>3, <1>12
    <3>2. \A i, j \in DOMAIN source :
            x \in TokensOf(source[i].chunk) /\ x \in TokensOf(source[j].chunk) => i = j
      BY DEF CallsInv, Delivered
    <3> QED
      BY <1>7, <1>8, <2>2, <3>1, <3>2
  <2> QED
    BY <1>9, <2>1, <2>2 DEF Delivered
<1>14. \A y : y \in Spots' <=> /\ y \in Nat \X Nat /\ y[1] \in DOMAIN source'
                               /\ y[2] \in DOMAIN source'[y[1]].chunk.frags
  BY DEF Spots
<1>15. \A y : y \in Spots <=> /\ y \in Nat \X Nat /\ y[1] \in DOMAIN source
                              /\ y[2] \in DOMAIN source[y[1]].chunk.frags
  BY DEF Spots
<1>16. ASSUME NEW j \in DOMAIN c.frags
       PROVE  \E y \in Spots' : PieceAt(y)' = c.frags[j] /\ RunAt(y)' = r
  <2>1. PICK y : y = <<l, j>>
    OBVIOUS
  <2>2. j \in Nat /\ y \in Nat \X Nat /\ y[1] = l /\ y[2] = j
    BY <1>4, <1>8, <2>1
  <2>3. y \in Spots' /\ PieceAt(y)' = c.frags[j] /\ RunAt(y)' = r
    BY <1>7, <1>8, <1>14, <2>2 DEF PieceAt, RunAt
  <2> QED
    BY <2>3
<1>17. ASSUME NEW y \in Spots
       PROVE  y \in Spots' /\ PieceAt(y)' = PieceAt(y) /\ RunAt(y)' = RunAt(y) /\ NameAt(y)' = NameAt(y)
  BY <1>8, <1>14, <1>15, <1>17 DEF PieceAt, RunAt, NameAt
<1>18. ASSUME NEW y \in Spots', y \notin Spots
       PROVE  PieceAt(y)'.args = 0 \/ fed < PieceAt(y)'.args
  <2>1. y[1] = l /\ y[2] \in DOMAIN c.frags
    BY <1>7, <1>8, <1>14, <1>15, <1>18
  <2>2. PieceAt(y)' = c.frags[y[2]]
    BY <1>7, <1>8, <2>1 DEF PieceAt
  <2>3. c.frags[y[2]].args # 0 => c.frags[y[2]].args \in TokensOf(c)
    BY <2>1 DEF TokensOf
  <2> QED
    BY <1>3, <2>2, <2>3
<1> QED
  BY <1>4, <1>6, <1>13, <1>16, <1>17, <1>18

LEMMA ChunkCalls ==
  ASSUME TypeInv, Placed, CallsInv, NEW r \in open, NEW k \in Chunks, ModelStream(r, k)
  PROVE  CallsInv'
<1>1. PICK c : c = Fill(k, fed)
  OBVIOUS
<1>2. /\ Delivered'
      /\ c.frags \in Seq(TokenFrag) /\ DOMAIN c.frags = DOMAIN k.frags
      /\ \A j \in DOMAIN c.frags :
           \E y \in Spots' : PieceAt(y)' = c.frags[j] /\ RunAt(y)' = r
      /\ \A y \in Spots : /\ y \in Spots' /\ PieceAt(y)' = PieceAt(y)
                          /\ RunAt(y)' = RunAt(y) /\ NameAt(y)' = NameAt(y)
      /\ \A y \in Spots' : y \in Spots \/ PieceAt(y)'.args = 0 \/ fed < PieceAt(y)'.args
  BY <1>1, ChunkSpots
<1>3. /\ UNCHANGED <<log, calls, made, open, runs>> /\ pc' = "stream" /\ fed \in Nat
      /\ ~Accepts(k) => cur'.frags = <<>>
      /\ Accepts(k) => cur'.frags = c.frags
  BY <1>1 DEF ModelStream, Waiting, Nothing, Contents, TypeInv, TypeOK
<1>4. FromRun'
  <2> SUFFICES ASSUME NEW j \in DOMAIN cur'.frags
               PROVE  /\ Like(cur'.frags[j], Pieces)
                    /\ \E y \in Spots' : PieceAt(y)' = cur'.frags[j] /\ RunAt(y)' \in open'
    BY DEF FromRun, Like, Pieces, Accepts
  <2>1. Accepts(k) /\ cur'.frags = c.frags /\ j \in DOMAIN c.frags
    BY <1>3
  <2>2. PICK y \in Spots' : PieceAt(y)' = c.frags[j] /\ RunAt(y)' = r
    BY <1>2, <2>1
  <2>3. Like(c.frags[j], Pieces)
    <3>1. k.frags[j] \in Pieces
      BY <1>2, <2>1 DEF Pieces
    <3>2. /\ c.frags[j].origin = k.frags[j].origin /\ c.frags[j].index = k.frags[j].index
          /\ c.frags[j].id = k.frags[j].id
      BY <1>1, <1>2, <2>1 DEF Fill
    <3> QED
      BY <3>1, <3>2 DEF Like
  <2>4. PieceAt(y)' = cur'.frags[j] /\ RunAt(y)' \in open'
    BY <1>3, <2>1, <2>2
  <2>5. \E x \in Spots' : PieceAt(x)' = cur'.frags[j] /\ RunAt(x)' \in open'
    BY <2>2, <2>4
  <2> QED
    BY <2>1, <2>3, <2>5
<1>5. KeysApart'
  BY <1>3 DEF CallsInv, KeysApart
<1>6. SameDeltas
  BY <1>3 DEF SameDeltas, ArgDeltas
<1>7. \A i \in ArgDeltas : \A y : CameFrom(i, y)' => CameFrom(i, y)
  <2> SUFFICES ASSUME NEW i \in ArgDeltas, NEW y, CameFrom(i, y)' PROVE CameFrom(i, y)
    OBVIOUS
  <2>1. PICK x : x = log[i].body[1]
    OBVIOUS
  <2>2. y \in Spots' /\ PieceAt(y)'.args = x /\ x # 0
    BY <1>3, <2>1 DEF CameFrom
  <2>3. PICK z : CameFrom(i, z)
    BY DEF CallsInv, Traced
  <2>4. z \in Spots /\ PieceAt(z).args = x
    BY <2>1, <2>3 DEF CameFrom
  <2>5. x \in Nat /\ x <= fed
    BY <2>4, SpotTypes DEF CallsInv, TypeInv
  <2>6. y \in Spots
    BY <1>2, <1>3, <2>2, <2>5
  <2> QED
    BY <1>2, <2>1, <2>2, <2>6 DEF CameFrom
<1>8. \A i \in ArgDeltas : SameOrigin(i)
  <2> SUFFICES ASSUME NEW i \in ArgDeltas, NEW y, CameFrom(i, y)
               PROVE  /\ CameFrom(i, y)' /\ PieceAt(y)' = PieceAt(y)
                      /\ RunAt(y)' = RunAt(y) /\ NameAt(y)' = NameAt(y)
    BY DEF SameOrigin
  <2>1. y \in Spots
    BY DEF CameFrom
  <2>2. /\ y \in Spots' /\ PieceAt(y)' = PieceAt(y)
        /\ RunAt(y)' = RunAt(y) /\ NameAt(y)' = NameAt(y)
    BY <1>2, <2>1
  <2>3. CameFrom(i, y)'
    BY <1>3, <2>2 DEF CameFrom
  <2> QED
    BY <2>2, <2>3
<1>9. Traced'
  <2>1. \A i \in ArgDeltas : \A n \in DOMAIN calls : \A s : Fits(i, n, s) => Fits(i, n, s)'
    BY <1>3, <1>8, FitsStay
  <2>2. ASSUME NEW i \in ArgDeltas, NEW y \in Spots', CameFrom(i, y)', RunAt(y)' \in open'
        PROVE  \E n \in DOMAIN calls' : log[i].item = calls'[n].item
    <3>1. CameFrom(i, y) /\ RunAt(y) \in open /\ y \in Spots
      BY <1>3, <1>7, <1>8, <2>2 DEF CameFrom, SameOrigin
    <3> QED
      BY <1>3, <3>1 DEF CallsInv, Traced
  <2>3. \A i \in ArgDeltas : \E y : CameFrom(i, y)'
    BY <1>8 DEF CallsInv, Traced, SameOrigin
  <2> QED
    BY <1>3, <1>6, <2>1, <2>2, <2>3 DEF CallsInv, Traced, SameDeltas
<1>10. Grouped'
  <2> SUFFICES ASSUME NEW i \in ArgDeltas, NEW j \in ArgDeltas, NEW y, NEW z,
                      CameFrom(i, y)', CameFrom(j, z)'
               PROVE  log[i].item = log[j].item <=> NameAt(y)' = NameAt(z)'
    BY <1>3, <1>6 DEF Grouped, SameDeltas
  <2>1. CameFrom(i, y) /\ CameFrom(j, z)
    BY <1>7
  <2>2. NameAt(y)' = NameAt(y) /\ NameAt(z)' = NameAt(z) /\ y \in Spots /\ z \in Spots
    BY <1>8, <2>1 DEF SameOrigin, CameFrom
  <2>3. log[i].item = log[j].item <=> NameAt(y) = NameAt(z)
    BY <2>1, <2>2 DEF CallsInv, Grouped
  <2> QED
    BY <2>2, <2>3
<1> QED
  BY <1>2, <1>4, <1>5, <1>9, <1>10 DEF CallsInv

\* The piece at the head was delivered by the run that is open, and popping it leaves
\* pieces that were there.
LEMMA HeadSpot ==
  ASSUME TypeOK, CallsInv, cur.frags # <<>>, NEW f, f = Head(cur.frags)
  PROVE  /\ f \in TokenFrag /\ Like(f, Pieces)
         /\ \E y \in Spots : PieceAt(y) = f /\ RunAt(y) \in open
         /\ PopFragment => \A j \in DOMAIN cur'.frags : \E i \in DOMAIN cur.frags : cur'.frags[j] = cur.frags[i]
<1>1. cur.frags \in Seq(TokenFrag) /\ cur \in Pending
  BY DEF TypeOK, Pending
<1>2. 1 \in DOMAIN cur.frags /\ f = cur.frags[1] /\ f \in TokenFrag
  BY <1>1
<1>3. Like(f, Pieces) /\ \E y \in Spots : PieceAt(y) = f /\ RunAt(y) \in open
  BY <1>2 DEF CallsInv, FromRun
<1>4. ASSUME PopFragment, NEW j \in DOMAIN cur'.frags
      PROVE  \E i \in DOMAIN cur.frags : cur'.frags[j] = cur.frags[i]
  <2>1. cur'.frags = Tail(cur.frags)
    BY <1>1, <1>4 DEF PopFragment, Pending
  <2>2. j + 1 \in DOMAIN cur.frags /\ cur'.frags[j] = cur.frags[j + 1]
    BY <1>1, <1>4, <2>1
  <2> QED
    BY <2>2
<1> QED
  BY <1>2, <1>3, <1>4

\* A call that is opened has a key and an item of its own, and no arguments yet.
LEMMA OpenedCall ==
  ASSUME TypeInv, Placed, CallsInv, StartCall
  PROVE  CallsInv'
<1>1. PICK f, c : /\ f = Head(cur.frags)
                  /\ c = [item |-> <<"fc", made + 1>>, key |-> OwnKey(f), idx |-> nextIndex,
                          call |-> IdOf(f, -(made + 1)), args |-> <<>>]
  OBVIOUS
<1>2. c.item = <<"fc", made + 1>> /\ c.key = KeyOf(f, made + 1)
  BY <1>1 DEF OwnKey
<1>2a. /\ made \in Nat
       /\ c = [item |-> <<"fc", made + 1>>, key |-> OwnKey(Head(cur.frags)), idx |-> nextIndex,
               call |-> IdOf(Head(cur.frags), -(made + 1)), args |-> <<>>]
  BY <1>1 DEF TypeInv, TypeOK
<1>3. /\ pc = "stream" /\ cur.frags # <<>> /\ UNCHANGED <<source, fed, runs, open>>
      /\ calls' = Append(calls, c) /\ made' = made + 1 /\ made \in Nat
      /\ \/ pc' = "args" /\ cur' = cur
         \/ pc' = "stream" /\ PopFragment
      /\ Yield(OfCall("item.added", c, <<>>))
      /\ \A n \in DOMAIN calls : calls[n].key # c.key
  BY <1>2a DEF StartCall, AtFragment, graph, KnownKey
<1>4. /\ DOMAIN calls' = DOMAIN calls \cup {Len(calls) + 1} /\ calls'[Len(calls) + 1] = c
      /\ \A n \in DOMAIN calls : calls'[n] = calls[n]
      /\ Len(calls') = Len(calls) + 1
  <2>1. calls \in Seq(CallState)
    BY DEF TypeInv, TypeOK
  <2>2. calls' = Append(calls, c)
    BY <1>3
  <2> QED
    BY <2>1, <2>2, AppendGrows, SMTT(30)
<1>5. \A n \in DOMAIN calls : /\ calls[n].item \in Item /\ calls[n].item[2] \in Nat
                              /\ calls[n].item[2] <= made /\ n # Len(calls) + 1
  <2>1. /\ DOMAIN calls = 1 .. Len(calls) /\ Len(calls) \in Nat
        /\ \A n \in DOMAIN calls : calls[n].item \in Item
    BY CallType DEF TypeInv, TypeOK
  <2>2. \A n \in DOMAIN calls : n # Len(calls) + 1
    BY <2>1
  <2> QED
    BY <2>1, <2>2 DEF CallsInv, KeysApart, Item
<1>6. SameDeltas
  <2>1. OfCall("item.added", c, <<>>).type # "args.delta"
    BY DEF OfCall, About
  <2> QED
    BY <1>3, <2>1, NoArgsDelta DEF TypeInv, TypeOK
<1>7. Delivered'
  BY <1>3 DEF CallsInv, Delivered
<1>8. FromRun'
  <2>1. \A j \in DOMAIN cur'.frags : \E i \in DOMAIN cur.frags : cur'.frags[j] = cur.frags[i]
    BY <1>3, HeadSpot DEF TypeInv
  <2> QED
    BY <1>3, <2>1, PiecesLeft DEF CallsInv
<1>9. KeysApart'
  <2>1. ASSUME NEW m \in DOMAIN calls', NEW n \in DOMAIN calls',
               calls'[m].key = calls'[n].key \/ calls'[m].item = calls'[n].item
        PROVE  m = n
    <3>1. \A i \in DOMAIN calls : calls[i].key # c.key /\ calls[i].item # c.item
      BY <1>2, <1>3, <1>5
    <3>2. \A i, j \in DOMAIN calls : calls[i].key = calls[j].key \/ calls[i].item = calls[j].item => i = j
      BY DEF CallsInv, KeysApart
    <3> QED
      BY <1>4, <2>1, <3>1, <3>2
  <2>2. c.item[2] <= made' /\ (c.key[1] = "anon" => c.key[2] = c.item[2])
    BY <1>2, <1>3 DEF KeyOf
  <2>3. \A n \in DOMAIN calls : /\ calls[n].item[2] <= made'
                                /\ calls[n].key[1] = "anon" => calls[n].key[2] = calls[n].item[2]
    BY <1>3, <1>5 DEF CallsInv, KeysApart
  <2>4. \A n \in DOMAIN calls' :
          /\ calls'[n].item[2] <= made'
          /\ calls'[n].key[1] = "anon" => calls'[n].key[2] = calls'[n].item[2]
    BY <1>4, <2>2, <2>3
  <2>5. pc' = "args" => calls'[Len(calls')].key = KeyOf(Head(cur'.frags), calls'[Len(calls')].item[2])
    <3>1. pc' = "args" => Head(cur'.frags) = f
      BY <1>1, <1>3
    <3>2. calls'[Len(calls')] = c
      BY <1>4
    <3> QED
      BY <1>2, <3>1, <3>2
  <2> QED
    BY <2>1, <2>4, <2>5 DEF KeysApart, KeyOf
<1>10. \A i \in ArgDeltas : log[i].item \in Item /\ log[i].item[2] <= made /\ SameOrigin(i)
  BY <1>3, <1>6, SameOrigins, SameSpots DEF CallsInv, Traced, SameOrigin
<1>11. \A i \in ArgDeltas : log[i].item # c.item /\ log[i].item[2] <= made'
  BY <1>2, <1>3, <1>10 DEF Item
<1>12. Traced'
  <2>1. ASSUME NEW i \in ArgDeltas, NEW n \in DOMAIN calls', NEW r \in open', log[i].item = calls'[n].item
        PROVE  Fits(i, n, r)'
    <3>1. n \in DOMAIN calls /\ calls'[n] = calls[n]
      BY <1>4, <1>11, <2>1
    <3>2. Fits(i, n, r)
      BY <1>3, <2>1, <3>1 DEF CallsInv, Traced
    <3> QED
      BY <1>10, <3>1, <3>2, FitsStay
  <2>2. ASSUME NEW i \in ArgDeltas, NEW y \in Spots, CameFrom(i, y)', RunAt(y)' \in open'
        PROVE  \E n \in DOMAIN calls' : log[i].item = calls'[n].item
    <3>1. CameFrom(i, y) /\ RunAt(y) \in open
      BY <1>3, <1>6, <2>2, SameOrigins, SameSpots
    <3>2. \E n \in DOMAIN calls : log[i].item = calls[n].item
      BY <3>1 DEF CallsInv, Traced
    <3> QED
      BY <1>4, <3>2
  <2>3. \A i \in ArgDeltas : \E y : CameFrom(i, y)'
    BY <1>10 DEF CallsInv, Traced, SameOrigin
  <2>4. \A i \in ArgDeltas : log[i].item # calls'[Len(calls')].item
    BY <1>4, <1>11
  <2>5. Spots' = Spots
    BY <1>3, SameSpots
  <2> QED
    BY <1>6, <1>10, <1>11, <2>1, <2>2, <2>3, <2>4, <2>5 DEF Traced, SameDeltas
<1>13. Grouped'
  BY <1>3, <1>6, SameOrigins, SameSpots DEF CallsInv, Grouped, SameDeltas
<1> QED
  BY <1>7, <1>8, <1>9, <1>12, <1>13 DEF CallsInv

\* x, the arguments of the piece f at the head, is streamed for call n, whose key is
\* that of f: it is the first of the call, or f says which call it is of.
LEMMA DeltaAdded ==
  ASSUME TypeInv, OneRun, HeldOnce, CallsInv, cur.frags # <<>>, PopFragment, pc' # "args",
         SameCalls, UNCHANGED <<source, fed, runs, open, made>>, NEW n \in DOMAIN calls,
         NEW f, f = Head(cur.frags), NEW x, x = f.args, x # 0, Streams(x, "args.delta", calls[n].item),
         calls[n].key = KeyOf(f, calls[n].item[2]), Coherent,
         f.origin # 0 \/ \A i \in ArgDeltas : log[i].item # calls[n].item
  PROVE  CallsInv'
<1>1. PICK it : it = calls[n].item /\ it \in Item /\ it[2] <= made
  BY CallType DEF CallsInv, KeysApart, TypeInv
<1>2. PICK h \in Spots : PieceAt(h) = f /\ RunAt(h) \in open
  BY HeadSpot DEF TypeInv
<1>3. PICK r : r = RunAt(h) /\ r \in open /\ r \in 1 .. runs /\ \A s \in open : s = r
  <2>1. RunAt(h) \in 1 .. runs
    BY SpotTypes DEF CallsInv, TypeInv
  <2> QED
    BY <1>2, <2>1 DEF OneRun
<1>4. Like(f, Pieces)
  BY HeadSpot DEF TypeInv
<1>5. PICK l : /\ l = Len(log) + 1 /\ DOMAIN log' = DOMAIN log \cup {l} /\ l \notin DOMAIN log
               /\ log'[l].type = "args.delta" /\ log'[l].item = it /\ log'[l].body = <<x>>
               /\ \A i \in DOMAIN log : log'[i] = log[i]
  <2>1. PICK e : Yield(e) /\ e.type = "args.delta" /\ e.item = calls[n].item /\ e.body = <<x>>
    BY DEF Streams
  <2>2. /\ Len(log) \in Nat /\ DOMAIN log = 1 .. Len(log)
        /\ DOMAIN log' = DOMAIN log \cup {Len(log) + 1} /\ log'[Len(log) + 1] = e
        /\ \A i \in DOMAIN log : log'[i] = log[i]
    BY <2>1, LogGrows DEF Yield, TypeInv, TypeOK
  <2>3. Len(log) + 1 \notin DOMAIN log
    BY <2>2
  <2> QED
    BY <1>1, <2>1, <2>2, <2>3
<1>6. ArgDeltas' = ArgDeltas \cup {l} /\ log'[l].body[1] = x /\ l \notin ArgDeltas
  BY <1>5 DEF ArgDeltas
<1>7. \A i \in ArgDeltas : log'[i] = log[i] /\ \A y : CameFrom(i, y)' <=> CameFrom(i, y)
  BY <1>5, SameSpots DEF CameFrom, ArgDeltas
<1>8. \A y : CameFrom(l, y)' <=> y = h
  <2>1. \A y : CameFrom(l, y)' <=> y \in Spots /\ PieceAt(y).args = x
    BY <1>6, SameSpots DEF CameFrom
  <2>2. \A y \in Spots : PieceAt(y).args = x => y = h
    BY <1>2, SpotsApart DEF CallsInv
  <2> QED
    BY <1>2, <2>1, <2>2
\* x is streamed only now.
<1>9. \A i \in ArgDeltas : log[i].body[1] # x
  <2>1. ASSUME x \in ArgsStreamed PROVE FALSE
    <3>1. PICK p : Holds(p, x)
      BY <2>1 DEF HeldOnce
    <3>2. x \in Nat /\ x \in Left /\ x < x
      BY <3>1 DEF HeldOnce, Streams
    <3> QED
      BY <3>2
  <2> QED
    BY <2>1 DEF ArgDeltas, ArgsStreamed, StreamedIn
\* A delta of the same item came from a piece of the same call,
<1>10. ASSUME NEW i \in ArgDeltas, NEW y, CameFrom(i, y), log[i].item = it
       PROVE  NameAt(y) = NameAt(h)
  <2>1. f.origin # 0
    BY <1>1, <1>10
  <2>2. PICK z : /\ CameFrom(i, z) /\ RunAt(z) = r /\ Like(PieceAt(z), Pieces)
                 /\ calls[n].key = KeyOf(PieceAt(z), it[2])
    BY <1>1, <1>3, <1>10 DEF CallsInv, Traced, Fits
  <2>3. z = y
    BY <1>10, <2>2, SpotsApart DEF CameFrom, CallsInv
  <2>4. PICK g : g = PieceAt(y) /\ Like(g, Pieces) /\ KeyOf(f, it[2]) = KeyOf(g, it[2])
    BY <1>1, <2>2, <2>3
  <2>5. f.origin = g.origin
    BY <1>4, <2>1, <2>4, PiecesTell DEF Coherent
  <2> QED
    BY <1>2, <1>3, <2>1, <2>2, <2>3, <2>4, <2>5 DEF NameAt
\* and a piece of the same call was streamed for the same item.
<1>11. ASSUME NEW i \in ArgDeltas, NEW y, CameFrom(i, y), NameAt(y) = NameAt(h)
       PROVE  log[i].item = it
  <2>0. y \in Spots /\ PieceAt(y).args # x /\ RunAt(y) \in 1 .. runs /\ RunAt(y) # 0 /\ r # 0
    <3>1. y \in Spots /\ PieceAt(y).args # x
      BY <1>9, <1>11 DEF CameFrom
    <3>2. RunAt(y) \in 1 .. runs
      BY <3>1, SpotTypes DEF CallsInv, TypeInv
    <3> QED
      BY <1>3, <3>1, <3>2
  <2>1. NameAt(h) = IF f.origin = 0 THEN <<0, x>> ELSE <<r, f.origin>>
    BY <1>2, <1>3 DEF NameAt
  <2>2. PICK g : g = PieceAt(y) /\ f.origin # 0 /\ g.origin = f.origin /\ RunAt(y) = r
    BY <1>11, <2>0, <2>1 DEF NameAt
  <2>3. PICK m \in DOMAIN calls : log[i].item = calls[m].item
    BY <1>3, <1>11, <2>0, <2>2 DEF CallsInv, Traced
  <2>4. PICK z : /\ CameFrom(i, z) /\ Like(PieceAt(z), Pieces)
                 /\ calls[m].key = KeyOf(PieceAt(z), calls[m].item[2])
    BY <1>3, <2>3 DEF CallsInv, Traced, Fits
  <2>5. z = y
    BY <1>11, <2>4, SpotsApart DEF CameFrom, CallsInv
  <2>6. PICK k : k = calls[m].item[2] /\ Like(g, Pieces) /\ calls[m].key = KeyOf(g, k)
    BY <2>2, <2>4, <2>5
  <2>7. KeyOf(f, it[2]) = KeyOf(g, k)
    BY <1>4, <2>2, <2>6, PiecesTell DEF Coherent
  <2>8. m = n
    BY <1>1, <2>6, <2>7 DEF CallsInv, KeysApart
  <2> QED
    BY <1>1, <2>3, <2>8
<1>12. Delivered'
  BY DEF CallsInv, Delivered
<1>13. FromRun' /\ KeysApart'
  <2>1. \A j \in DOMAIN cur'.frags : \E i \in DOMAIN cur.frags : cur'.frags[j] = cur.frags[i]
    BY HeadSpot DEF TypeInv
  <2>2. FromRun'
    BY <2>1, PiecesLeft DEF CallsInv
  <2>3. made \in Nat /\ made <= made'
    BY DEF TypeInv, TypeOK
  <2> QED
    BY <2>2, <2>3, KeysStay DEF CallsInv
<1>14. \A i \in ArgDeltas : SameOrigin(i)
  BY <1>7, SameSpots DEF SameOrigin
<1>15. Fits(l, n, r)'
  <2>1. CameFrom(l, h)' /\ RunAt(h)' = r /\ PieceAt(h)' = f
    BY <1>2, <1>3, <1>8, SameSpots
  <2>2. calls'[n].key = KeyOf(f, calls'[n].item[2])
    BY DEF SameCalls
  <2>3. Like(PieceAt(h)', Pieces) /\ calls'[n].key = KeyOf(PieceAt(h)', calls'[n].item[2])
    BY <1>4, <2>1, <2>2
  <2> QED
    BY <2>1, <2>3 DEF Fits, Like, Pieces, Accepts, KeyOf
<1>16. Traced'
  <2>1. ASSUME NEW i \in ArgDeltas', NEW m \in DOMAIN calls', NEW s \in open', log'[i].item = calls'[m].item
        PROVE  Fits(i, m, s)'
    <3>1. /\ m \in DOMAIN calls /\ calls'[m].item = calls[m].item /\ calls'[m].key = calls[m].key
          /\ s = r /\ s \in open
      BY <1>3, <2>1 DEF SameCalls
    <3>2. CASE i = l
      <4>1. m = n
        BY <1>1, <1>5, <2>1, <3>1, <3>2 DEF CallsInv, KeysApart
      <4> QED
        BY <1>15, <3>1, <3>2, <4>1
    <3>3. CASE i \in ArgDeltas
      <4>1. Fits(i, m, s)
        BY <1>7, <2>1, <3>1, <3>3 DEF CallsInv, Traced
      <4> QED
        BY <1>14, <3>1, <3>3, <4>1, FitsStay
    <3> QED
      BY <1>6, <3>2, <3>3
  <2>2. ASSUME NEW i \in ArgDeltas', NEW y \in Spots', CameFrom(i, y)', RunAt(y)' \in open'
        PROVE  \E m \in DOMAIN calls' : log'[i].item = calls'[m].item
    <3>1. CASE i = l
      BY <1>1, <1>5, <3>1 DEF SameCalls
    <3>2. CASE i \in ArgDeltas
      <4>1. CameFrom(i, y) /\ RunAt(y) \in open /\ y \in Spots
        BY <1>7, <2>2, <3>2, SameSpots
      <4>2. PICK m \in DOMAIN calls : log[i].item = calls[m].item
        BY <3>2, <4>1 DEF CallsInv, Traced
      <4> QED
        BY <1>7, <3>2, <4>2 DEF SameCalls
    <3> QED
      BY <1>6, <3>1, <3>2
  <2>3. ASSUME NEW i \in ArgDeltas'
        PROVE  log'[i].item \in Item /\ log'[i].item[2] <= made' /\ \E y : CameFrom(i, y)'
    <3>1. CASE i = l
      BY <1>1, <1>5, <1>8, <3>1
    <3>2. CASE i \in ArgDeltas
      BY <1>7, <3>2 DEF CallsInv, Traced
    <3> QED
      BY <1>6, <3>1, <3>2
  <2> QED
    BY <2>1, <2>2, <2>3 DEF Traced
<1>17. Grouped'
  <2> SUFFICES ASSUME NEW i \in ArgDeltas', NEW k \in ArgDeltas', NEW y, NEW z,
                      CameFrom(i, y)', CameFrom(k, z)'
               PROVE  log'[i].item = log'[k].item <=> NameAt(y)' = NameAt(z)'
    BY DEF Grouped
  <2>1. NameAt(y)' = NameAt(y) /\ NameAt(z)' = NameAt(z)
    BY SameSpots
  <2>2. CASE i = l /\ k = l
    BY <1>8, <2>2
  <2>3. CASE i = l /\ k \in ArgDeltas
    BY <1>5, <1>7, <1>8, <1>10, <1>11, <2>1, <2>3
  <2>4. CASE i \in ArgDeltas /\ k = l
    BY <1>5, <1>7, <1>8, <1>10, <1>11, <2>1, <2>4
  <2>5. CASE i \in ArgDeltas /\ k \in ArgDeltas
    <3>1. CameFrom(i, y) /\ CameFrom(k, z) /\ y \in Spots /\ z \in Spots
      BY <1>7, <2>5 DEF CameFrom
    <3> QED
      BY <1>7, <2>1, <2>5, <3>1 DEF CallsInv, Grouped
  <2> QED
    BY <1>6, <2>2, <2>3, <2>4, <2>5
<1> QED
  BY <1>12, <1>13, <1>16, <1>17 DEF CallsInv

LEMMA FragmentCallsInv ==
  ASSUME TypeInv, OneRun, Placed, HeldOnce, CallsInv, Coherent,
         EmitArgs \/ \E n \in DOMAIN calls : ContinueCall(n)
  PROVE  CallsInv'
<1>1. SameCalls
  BY FragmentCalls DEF TypeInv, SameCalls
<1>2. CASE EmitArgs
  <2>1. PICK n, f, x : n = Len(calls) /\ f = Head(cur.frags) /\ x = f.args
    OBVIOUS
  <2>2. /\ pc = "args" /\ pc' # "args" /\ cur.frags # <<>> /\ PopFragment /\ x # 0
        /\ UNCHANGED <<source, fed, runs, open, made>> /\ n \in DOMAIN calls
    <3>1. Len(calls) \in DOMAIN calls
      BY <1>2 DEF EmitArgs, TypeInv, TypeOK, Control
    <3> QED
      BY <1>2, <2>1, <3>1 DEF EmitArgs, TypeInv, Control, Placed, graph
  <2>3. Streams(x, "args.delta", calls[n].item)
    BY <1>2, <2>1, ArgsTaken
  <2>4. calls[n].key = KeyOf(f, calls[n].item[2]) /\ \A i \in ArgDeltas : log[i].item # calls[n].item
    BY <2>1, <2>2 DEF CallsInv, KeysApart, Traced
  <2> QED
    BY <1>1, <2>1, <2>2, <2>3, <2>4, DeltaAdded
<1>3. ASSUME NEW n \in DOMAIN calls, ContinueCall(n) PROVE CallsInv'
  <2>1. PICK f, x : f = Head(cur.frags) /\ x = f.args
    OBVIOUS
  <2>2. /\ pc = "stream" /\ pc' = "stream" /\ cur.frags # <<>> /\ PopFragment
        /\ UNCHANGED <<source, fed, runs, open, made>> /\ calls[n].key = KeyOf(f, made + 1)
    BY <1>3, <2>1 DEF ContinueCall, AtFragment, graph, OwnKey
  <2>3. Like(f, Pieces)
    BY <2>1, <2>2, HeadSpot DEF TypeInv
  \* A key made up for f would be new.
  <2>4. f.origin # 0
    <3>1. f.origin = 0 => KeyOf(f, made + 1) = <<"anon", made + 1>>
      BY <2>3, PiecesTell DEF Coherent
    <3>2. f.origin = 0 => calls[n].item[2] = made + 1
      BY <2>2, <3>1 DEF CallsInv, KeysApart
    <3>3. calls[n].item[2] <= made /\ made \in Nat
      BY DEF CallsInv, KeysApart, TypeInv, TypeOK
    <3> QED
      BY <3>2, <3>3
  <2>5. calls[n].key = KeyOf(f, calls[n].item[2])
    <3>1. KeyOf(f, made + 1) = KeyOf(f, calls[n].item[2])
      BY <2>3, <2>4, PiecesTell DEF Coherent
    <3> QED
      BY <2>2, <3>1
  <2>6. CASE x # 0
    <3>1. Streams(x, "args.delta", calls[n].item)
      BY <1>3, <2>1, <2>6, ContinueTaken
    <3> QED
      BY <1>1, <2>1, <2>2, <2>4, <2>5, <2>6, <3>1, DeltaAdded
  <2>7. CASE x = 0
    <3>1. SameDeltas
      <4>1. log' = log
        BY <1>3, <2>1, <2>7, ContinueTaken
      <4> QED
        BY <4>1 DEF SameDeltas, ArgDeltas
    <3>2. \A j \in DOMAIN cur'.frags : \E i \in DOMAIN cur.frags : cur'.frags[j] = cur.frags[i]
      BY <2>1, <2>2, HeadSpot DEF TypeInv
    <3>3. made \in Nat /\ made <= made'
      BY <2>2 DEF TypeInv, TypeOK
    <3> QED
      BY <1>1, <2>2, <3>1, <3>2, <3>3, CallsStay
  <2> QED
    BY <2>6, <2>7
<1> QED
  BY <1>2, <1>3

LEMMA CallsStep ==
  ASSUME Sequential, Coherent, TypeInv, OneRun, Placed, HeldOnce, CallsInv, [Next]_vars
  PROVE  CallsInv'
<1>0. /\ TypeOK /\ log \in Seq(Event) /\ made \in Nat /\ runs \in Nat /\ open \subseteq 1 .. runs
      /\ cur \in Pending
  BY DEF TypeInv, TypeOK
\* The steps that leave the calls alone, and what is left of their pieces.
<1>1. ASSUME UNCHANGED log \/ \E e : Yield(e) /\ e.type # "args.delta",
             UNCHANGED <<source, fed, runs, calls>>, made' \in Nat, made <= made',
             open' = open \/ (open' \subseteq open /\ cur.frags = <<>>),
             cur'.frags = cur.frags, pc' # "args"
      PROVE  CallsInv'
  BY <1>0, <1>1, NoArgsDelta, CallsStay DEF SameCalls
<1>2. CASE EmitReasoning
  <2>1. \E e : Yield(e) /\ e.type # "args.delta"
    BY <1>2, ReasoningTaken DEF Streams
  <2>2. cur'.frags = cur.frags
    BY <1>0, <1>2 DEF EmitReasoning, Pending
  <2> QED
    BY <1>0, <1>1, <1>2, <2>1, <2>2 DEF EmitReasoning, graph
<1>3. CASE EmitText
  <2>1. \E e : Yield(e) /\ e.type # "args.delta"
    BY <1>3, TextTaken DEF Streams
  <2>2. cur'.frags = cur.frags
    BY <1>0, <1>3 DEF EmitText, Pending
  <2> QED
    BY <1>0, <1>1, <1>3, <2>1, <2>2 DEF EmitText, graph
<1>4. ASSUME Quiet PROVE UNCHANGED log \/ \E e : Yield(e) /\ e.type # "args.delta"
  BY <1>4 DEF Quiet, DeltaTypes
<1>5. ASSUME Quiet,
             Created \/ InProgress \/ OpenMessage \/ AddPart \/ ClosePart \/ CloseMessage \/ CloseArgs
               \/ CloseCall \/ (\E r \in running : ToolError(r)) \/ Complete \/ GraphRaises \/ Disconnect
      PROVE  CallsInv'
  <2>1. UNCHANGED <<source, fed, runs, calls, made, open, cur>> /\ pc' # "args"
    BY <1>5 DEF Created, InProgress, OpenMessage, AddPart, ClosePart, CloseMessage, CloseArgs, CloseCall,
       ToolError, Complete, GraphRaises, Disconnect, Waiting, graph, items
  <2> QED
    BY <1>0, <1>1, <1>4, <1>5, <2>1
<1>6. ASSUME Quiet, NEW r \in open, ModelEndWithText(r) \/ ModelEndWithoutText(r) PROVE CallsInv'
  <2>1. /\ UNCHANGED <<source, fed, runs, calls, made, cur>> /\ pc' # "args"
        /\ open' \subseteq open /\ cur.frags = <<>>
    BY <1>6 DEF ModelEndWithText, ModelEndWithoutText, Waiting, Spent, Nothing, items
  <2> QED
    BY <1>0, <1>1, <1>4, <1>6, <2>1
<1>7. ASSUME Quiet, ToolStart \/ \E r \in MayEnd, named \in BOOLEAN : ToolEnd(r, named) PROVE CallsInv'
  <2>1. UNCHANGED <<source, fed, runs, calls, open, cur>> /\ pc' # "args" /\ made' \in {made, made + 1}
    BY <1>7 DEF ToolStart, ToolEnd, Waiting
  <2>2. made' \in Nat /\ made <= made'
    BY <1>0, <2>1
  <2> QED
    BY <1>1, <1>4, <1>7, <2>1, <2>2
\* A run that starts finds no call, and none is left when one has ended.
<1>8. ASSUME Quiet, ModelStart PROVE CallsInv'
  <2>1. open = {} /\ calls = <<>> /\ cur.frags = <<>>
    BY <1>0, <1>8, AloneAtStart DEF ModelStart, Waiting, OneRun, Receiving, Spent, Nothing
  <2>2. /\ UNCHANGED <<source, fed, calls, cur>> /\ runs' = runs + 1 /\ made' = made + 1
        /\ pc' # "args" /\ open' = {runs + 1}
    BY <1>8, <2>1 DEF ModelStart, Waiting
  <2>3. /\ runs' \in Nat /\ runs <= runs' /\ made' \in Nat /\ made <= made'
        /\ \A r \in open' : r \notin 1 .. runs
    BY <1>0, <2>2
  <2> QED
    BY <1>0, <1>4, <1>8, <2>1, <2>2, <2>3, NoArgsDelta, CallsGone
<1>9. ASSUME Quiet, ClearCalls PROVE CallsInv'
  <2>1. open = {} /\ cur.frags = <<>>
    BY <1>9 DEF ClearCalls, OneRun, Closing, TypeInv, Control, Spent, Nothing
  <2>2. /\ UNCHANGED <<source, fed, runs, made, open, cur>> /\ calls' = <<>> /\ pc' # "args"
    BY <1>9 DEF ClearCalls, graph
  <2> QED
    BY <1>0, <1>4, <1>9, <2>1, <2>2, NoArgsDelta, CallsGone
<1>10. CASE UNCHANGED vars
  <2>1. UNCHANGED <<log, source, fed, runs, calls, made, open, cur, pc>>
    BY <1>10 DEF vars, graph, items
  <2>2. SameDeltas /\ SameCalls
    BY <2>1 DEF SameDeltas, ArgDeltas, SameCalls
  <2> QED
    BY <1>0, <2>1, <2>2, CallsStay
<1>11. CASE ~OnChunk
  <2>1. Quiet
    BY <1>11, OthersQuiet
  <2> QED
    BY <1>5, <1>6, <1>7, <1>8, <1>9, <1>10, <1>11, <2>1 DEF Next, Emit, OnChunk
<1> QED
  BY <1>2, <1>3, <1>11, ChunkCalls, OpenedCall, FragmentCallsInv DEF OnChunk

\* CallsReassembled: while model runs follow one another and their providers can be
\* followed, argument deltas are put into the same function_call item exactly when they
\* are of the same call of the same run (responses.py 715-726, 828).
THEOREM SequentialCallsReassembled ==
  ASSUME Sequential, Coherent
  PROVE  Spec => []CallsReassembled
<1>1. TypeInv /\ OneRun /\ Placed /\ HeldOnce /\ CallsInv /\ [Next]_vars
        => (OneRun /\ Placed /\ HeldOnce /\ CallsInv)'
  BY OneRunStep, PlacedStep, HeldStep, CallsStep
<1> QED
  BY <1>1, ReassembledHere, HeldInit, CallsInit, OneRunInit, TypeInit, TypeStep, PTL DEF Spec

=============================================================================
