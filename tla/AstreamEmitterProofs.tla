------------------------ MODULE AstreamEmitterProofs ------------------------
(***************************************************************************)
(* Proofs about AstreamEmitter, for any kinds of chunk, any list of nodes  *)
(* and runs of any length: its types, and that it implements               *)
(* ResponseStream: whatever the graph delivers and wherever the client     *)
(* leaves, the events yielded are a stream the protocol allows.            *)
(***************************************************************************)
EXTENDS AstreamEmitter, SequenceTheorems, TLAPS

-----------------------------------------------------------------------------
(* Type correctness.                                                       *)

\* What the locations of the generator imply about its loops: a call is open
\* while its first arguments are owed, and the closing loops stay in range.
Control ==
  /\ pc = "part" => message.idx # -1
  /\ pc = "args" => cur.frags # <<>> /\ calls # <<>>
  /\ pc \in {"start", "begun", "stream", "part", "args"} => closed = 0
  /\ pc = "close_call" => closed < Len(calls)
  /\ pc \in {"close_part", "close_message", "complete"}
       => closed = Len(calls) /\ message.idx # -1

TypeInv == TypeOK /\ Control

\* A fragment's key is a key.
LEMMA KeyType ==
  ASSUME TypeOK, NEW f \in TokenFrag
  PROVE  OwnKey(f) \in Key
  BY DEF TypeOK, OwnKey, KeyOf, Key, TokenFrag

\* A delivered chunk holds tokens.
LEMMA FillType ==
  ASSUME fed \in Nat, NEW k \in Chunks
  PROVE  /\ Contents(Fill(k, fed)) \in Pending
         /\ Len(k.frags) \in Nat
<1>1. k \in ChunkKind({k.node})
  BY ChunksAssumption
<1>2. k.frags \in Seq(Fragment)
  BY <1>1 DEF ChunkKind
<1>3. Len(k.frags) \in Nat /\ DOMAIN k.frags = 1 .. Len(k.frags)
  BY <1>2
<1>4. \A j \in DOMAIN k.frags : k.frags[j] \in Fragment
  BY <1>2
<1>5. Fill(k, fed).frags \in [1 .. Len(k.frags) -> TokenFrag]
  BY <1>3, <1>4 DEF Fill, Fragment, TokenFrag
<1>6. Fill(k, fed).frags \in Seq(TokenFrag)
  BY <1>3, <1>5
<1>7. Fill(k, fed).reasoning \in Nat /\ Fill(k, fed).text \in Nat
  BY DEF Fill
<1> QED
  BY <1>3, <1>6, <1>7 DEF Contents, Pending

\* What a call in the list looks like.
LEMMA CallType ==
  ASSUME TypeOK, NEW n \in DOMAIN calls
  PROVE  /\ n \in Nat \ {0} /\ calls[n] \in CallState
         /\ calls[n].idx \in Nat /\ calls[n].call \in Int /\ calls[n].args \in Seq(Nat)
<1>1. calls \in Seq(CallState)
  BY DEF TypeOK
<1>2. n \in Nat \ {0} /\ calls[n] \in CallState
  BY <1>1
<1> QED
  BY <1>2 DEF CallState

\* The fragment the emitter stands at, and what its chunk becomes without it.
LEMMA HeadType ==
  ASSUME TypeOK, cur.frags # <<>>
  PROVE  /\ Head(cur.frags) \in TokenFrag
         /\ [cur EXCEPT !.frags = Tail(@)]
              \in Pending
<1>1. cur \in Pending
  BY DEF TypeOK
<1>2. cur.frags \in Seq(TokenFrag)
  BY <1>1 DEF Pending
<1>3. Head(cur.frags) \in TokenFrag /\ Tail(cur.frags) \in Seq(TokenFrag)
  BY <1>2
<1> QED
  BY <1>1, <1>3 DEF Pending

\* The chunk with its reasoning or its text taken out.
LEMMA TakeOutType ==
  ASSUME TypeOK
  PROVE  /\ [cur EXCEPT !.reasoning = 0]
              \in Pending
         /\ [cur EXCEPT !.text = 0]
              \in Pending
<1>1. cur \in Pending
  BY DEF TypeOK
<1>2. cur.reasoning \in Nat /\ cur.text \in Nat /\ cur.frags \in Seq(TokenFrag)
  BY <1>1 DEF Pending
<1>3. [cur EXCEPT !.reasoning = 0] = [reasoning |-> 0, text |-> cur.text, frags |-> cur.frags]
  BY <1>1 DEF Pending
<1>4. [cur EXCEPT !.text = 0] = [reasoning |-> cur.reasoning, text |-> 0, frags |-> cur.frags]
  BY <1>1 DEF Pending
<1> QED
  BY <1>2, <1>3, <1>4 DEF Pending

\* The message with its output index set or its text extended.
LEMMA MessageStepType ==
  ASSUME TypeOK, NEW x \in Nat
  PROVE  /\ [message EXCEPT !.idx = x] \in [idx : Int, text : Seq(Nat)]
         /\ [message EXCEPT !.text = Append(@, x)] \in [idx : Int, text : Seq(Nat)]
<1>1. message \in [idx : Int, text : Seq(Nat)]
  BY DEF TypeOK
<1>2. message.text \in Seq(Nat)
  BY <1>1
<1>3. Append(message.text, x) \in Seq(Nat)
  BY <1>2
<1> QED
  BY <1>1, <1>3, SMTT(30)

\* A call whose id is replaced, or whose arguments are extended, is one still.
LEMMA CallStepType ==
  ASSUME TypeOK, NEW n \in DOMAIN calls, NEW id \in Int, NEW x \in Nat
  PROVE  /\ [calls EXCEPT ![n].call = id] \in Seq(CallState)
         /\ Len([calls EXCEPT ![n].call = id]) = Len(calls)
         /\ [calls EXCEPT ![n].args = Append(@, x)] \in Seq(CallState)
         /\ Len([calls EXCEPT ![n].args = Append(@, x)]) = Len(calls)
         /\ [calls EXCEPT ![n].call = id, ![n].args = Append(@, x)] \in Seq(CallState)
         /\ Len([calls EXCEPT ![n].call = id, ![n].args = Append(@, x)]) = Len(calls)
<1> DEFINE c1 == [calls[n] EXCEPT !.call = id]
           c2 == [calls[n] EXCEPT !.args = Append(@, x)]
           c3 == [calls[n] EXCEPT !.call = id, !.args = Append(@, x)]
<1>1. calls \in Seq(CallState) /\ n \in 1 .. Len(calls)
  BY DEF TypeOK
<1>2. calls[n] \in CallState /\ Append(calls[n].args, x) \in Seq(Nat)
  BY CallType
<1>3. c1 \in CallState /\ c2 \in CallState /\ c3 \in CallState
  BY <1>2 DEF CallState
<1>4. /\ [calls EXCEPT ![n].call = id] = [calls EXCEPT ![n] = c1]
      /\ [calls EXCEPT ![n].args = Append(@, x)] = [calls EXCEPT ![n] = c2]
      /\ [calls EXCEPT ![n].call = id, ![n].args = Append(@, x)] = [calls EXCEPT ![n] = c3]
  BY <1>1
<1> HIDE DEF c1, c2, c3
<1>5. \A c \in CallState : /\ [calls EXCEPT ![n] = c] \in Seq(CallState)
                           /\ Len([calls EXCEPT ![n] = c]) = Len(calls)
  BY <1>1, ExceptSeq
<1> QED
  BY <1>3, <1>4, <1>5

\* The completed event carries the output list.
LEMMA CompletedType ==
  ASSUME output \in Seq(OutputItem)
  PROVE  [Plain("completed") EXCEPT !.output = output] \in Event
<1>1. [Plain("completed") EXCEPT !.output = output]
        = [type |-> "completed", item |-> None, idx |-> None, call |-> None,
           body |-> <<>>, output |-> output]
  BY DEF Plain, About
<1>2. "completed" \in EventType
  BY DEF EventType
<1>3. None \in Nat \cup {None} /\ None \in Int \cup {None} /\ <<>> \in Seq(Nat)
  OBVIOUS
<1> QED
  BY <1>1, <1>2, <1>3 DEF Event

LEMMA TypeInit == Init => TypeInv
  BY DEF Init, TypeInv, TypeOK, Control, Nothing, Pending

LEMMA TypeStep == TypeInv /\ [Next]_vars => TypeInv'
<1> SUFFICES ASSUME TypeInv, [Next]_vars PROVE TypeInv'
  OBVIOUS
<1> USE DEF TypeInv
<1>0. /\ log \in Seq(Event) /\ output \in Seq(OutputItem) /\ calls \in Seq(CallState)
      /\ cur \in Pending
      /\ message \in [idx : Int, text : Seq(Nat)]
      /\ nextIndex \in Nat /\ fed \in Nat
      /\ message.idx \in Int /\ message.text \in Seq(Nat)
      /\ cur.reasoning \in Nat /\ cur.text \in Nat /\ cur.frags \in Seq(TokenFrag)
  BY DEF TypeOK, Pending
<1>1. CASE Created
  <2>1. Plain("created") \in Event
    BY DEF Plain, About, Event, EventType, DeltaTypes
  <2>8. TypeOK'
    BY <1>0, <1>1, <2>1 DEF Created, Yield, TypeOK
  <2>9. Control'
    BY <1>0, <1>1, <2>1 DEF Created, Yield, Control
  <2> QED
    BY <2>8, <2>9
<1>2. CASE InProgress
  <2>1. Plain("in_progress") \in Event
    BY DEF Plain, About, Event, EventType, DeltaTypes
  <2>8. TypeOK'
    BY <1>0, <1>2, <2>1 DEF InProgress, Yield, TypeOK
  <2>9. Control'
    BY <1>0, <1>2, <2>1 DEF InProgress, Yield, Control
  <2> QED
    BY <2>8, <2>9
<1>3. ASSUME NEW k \in Chunks, NextChunk(k) PROVE TypeInv'
  <2>1. Nothing \in Pending
    BY DEF Nothing, Pending
  <2>2. Contents(Fill(k, fed)) \in Pending
        /\ Len(k.frags) \in Nat
    BY <1>0, FillType
  <2>3. cur' = Contents(Fill(k, fed)) \/ cur' = Nothing
    BY <1>3 DEF NextChunk
  <2>4. cur' \in Pending
    BY <2>1, <2>2, <2>3
  <2>5. fed' \in Nat
    <3> DEFINE n == Len(k.frags)
    <3>1. fed' = fed + 2 + n
      BY <1>3 DEF NextChunk
    <3>2. fed \in Nat /\ n \in Nat
      BY <1>0, <2>2
    <3> HIDE DEF n
    <3> QED
      BY <3>1, <3>2
  <2>8. TypeOK'
    BY <1>0, <1>3, <2>4, <2>5 DEF NextChunk, TypeOK
  <2>9. Control'
    BY <1>0, <1>3, <2>4 DEF NextChunk, Control
  <2> QED
    BY <2>8, <2>9
<1>4. CASE EmitReasoning
  <2>1. About("reasoning.delta", 0, None, None, <<cur.reasoning>>) \in Event
    BY <1>0 DEF About, Event, EventType, DeltaTypes
  <2>8. TypeOK'
    BY <1>0, <1>4, <2>1, TakeOutType DEF EmitReasoning, Yield, TypeOK
  <2>9. Control'
    BY <1>0, <1>4, <2>1 DEF EmitReasoning, Yield, Control
  <2> QED
    BY <2>8, <2>9
<1>5. CASE OpenMessage
  <2>1. About("item.added", 0, nextIndex, None, <<>>) \in Event
    BY <1>0 DEF About, Event, EventType, DeltaTypes
  <2>2. message' \in [idx : Int, text : Seq(Nat)]
    BY <1>0, <1>5, MessageStepType DEF OpenMessage
  <2>8. TypeOK'
    BY <1>0, <1>5, <2>1, <2>2 DEF OpenMessage, Yield, TypeOK
  <2>9. Control'
    BY <1>0, <1>5, <2>1 DEF OpenMessage, Yield, Control
  <2> QED
    BY <2>8, <2>9
<1>6. CASE AddPart
  <2>1. OfMessage("part.added", <<>>) \in Event
    BY <1>0 DEF OfMessage, About, Event, EventType, DeltaTypes
  <2>8. TypeOK'
    BY <1>0, <1>6, <2>1 DEF AddPart, Yield, TypeOK
  <2>9. Control'
    BY <1>0, <1>6, <2>1 DEF AddPart, Yield, Control
  <2> QED
    BY <2>8, <2>9
<1>7. CASE EmitText
  <2>1. OfMessage("text.delta", <<cur.text>>) \in Event
    BY <1>0 DEF OfMessage, About, Event, EventType, DeltaTypes
  <2>2. message' \in [idx : Int, text : Seq(Nat)]
    BY <1>0, <1>7, MessageStepType DEF EmitText
  <2>3. cur' \in Pending
    BY <1>7, TakeOutType DEF EmitText
  <2>8. TypeOK'
    BY <1>0, <1>7, <2>1, <2>2, <2>3 DEF EmitText, Yield, TypeOK
  <2>9. Control'
    BY <1>0, <1>7, <2>1 DEF EmitText, Yield, Control
  <2> QED
    BY <2>8, <2>9
<1>8. CASE StartCall
  <2> DEFINE f == Head(cur.frags)
             c == [key |-> OwnKey(f), idx |-> nextIndex,
                   call |-> IdOf(f, -(Len(calls) + 1)), args |-> <<>>]
  <2>1. f \in TokenFrag
    BY <1>8, HeadType DEF StartCall, AtFragment
  <2>2. c \in CallState /\ c.idx \in Nat /\ c.call \in Int
    BY <1>0, <2>1, KeyType, SMTT(30) DEF CallState, IdOf, TokenFrag
  <2>3. OfCall("item.added", Len(calls) + 1, c, <<>>) \in Event
    BY <1>0, <2>2 DEF OfCall, About, Event, EventType, DeltaTypes
  <2>4. calls' = Append(calls, c)
        /\ log' = Append(log, OfCall("item.added", Len(calls) + 1, c, <<>>))
    BY <1>8 DEF StartCall, Yield
  <2> HIDE DEF c
  <2>5. calls' \in Seq(CallState) /\ log' \in Seq(Event)
        /\ Len(calls') = Len(calls) + 1 /\ calls' # <<>>
    <3>1. calls' \in Seq(CallState) /\ Len(calls') = Len(calls) + 1
      BY <1>0, <2>2, <2>4, AppendProperties
    <3>2. log' \in Seq(Event)
      BY <1>0, <2>3, <2>4, AppendProperties
    <3> QED
      BY <1>0, <3>1, <3>2
  <2>7. closed' \in 0 .. Len(calls')
    BY <1>0, <1>8, <2>5 DEF StartCall, TypeOK
  <2>6. cur' \in Pending
    BY <1>0, <1>8, HeadType DEF StartCall, AtFragment, PopFragment
  <2>8. TypeOK'
    BY <1>0, <1>8, <2>5, <2>6, <2>7 DEF StartCall, AtFragment, TypeOK
  <2>9. Control'
    BY <1>0, <1>8, <2>5, <2>6 DEF StartCall, AtFragment, PopFragment, Control
  <2> QED
    BY <2>8, <2>9
<1>9. CASE EmitArgs
  <2> DEFINE f == Head(cur.frags)
             n == Len(calls)
  <2>1. f \in TokenFrag /\ cur.frags # <<>> /\ n \in DOMAIN calls
    BY <1>0, <1>9, HeadType DEF EmitArgs, Control
  <2>2. /\ calls' \in Seq(CallState) /\ Len(calls') = Len(calls)
    BY <1>0, <1>9, <2>1, CallStepType DEF EmitArgs, TokenFrag
  <2>3. ArgsDelta(n, f) \in Event
    BY <2>1, CallType DEF ArgsDelta, TokenFrag, About, Event, EventType, DeltaTypes
  <2>4. cur' \in Pending
    BY <1>9, <2>1, HeadType DEF EmitArgs, PopFragment
  <2>8. TypeOK'
    BY <1>0, <1>9, <2>2, <2>3, <2>4 DEF EmitArgs, Yield, TypeOK
  <2>9. Control'
    BY <1>0, <1>9, <2>2, <2>3, <2>4 DEF EmitArgs, Yield, Control
  <2> QED
    BY <2>8, <2>9
<1>10. ASSUME NEW n \in DOMAIN calls, ContinueCall(n) PROVE TypeInv'
  <2> DEFINE f == Head(cur.frags)
  <2>1. f \in TokenFrag /\ IdOf(f, calls[n].call) \in Int
    BY <1>10, CallType, HeadType DEF ContinueCall, AtFragment, IdOf, TokenFrag
  <2>2. /\ calls' \in Seq(CallState) /\ Len(calls') = Len(calls)
    <3> DEFINE id == IdOf(f, calls[n].call)
    <3>1. f.args \in Nat
      BY <2>1 DEF TokenFrag
    <3>2. \/ calls' = [calls EXCEPT ![n].call = id, ![n].args = Append(@, f.args)]
          \/ calls' = [calls EXCEPT ![n].call = id]
      BY <1>10 DEF ContinueCall
    <3> HIDE DEF id
    <3>3. id \in Int
      BY <2>1 DEF id
    <3>4. CASE calls' = [calls EXCEPT ![n].call = id, ![n].args = Append(@, f.args)]
      BY <3>1, <3>3, <3>4, CallStepType
    <3>5. CASE calls' = [calls EXCEPT ![n].call = id]
      BY <3>1, <3>3, <3>5, CallStepType
    <3> QED
      BY <3>2, <3>4, <3>5
  <2>3. ArgsDelta(n, f) \in Event
    BY <1>10, <2>1, CallType DEF ArgsDelta, TokenFrag, About, Event, EventType, DeltaTypes
  <2>4. log' \in Seq(Event)
    <3>1. log' = Append(log, ArgsDelta(n, f)) \/ log' = log
      BY <1>10 DEF ContinueCall, Yield
    <3>2. Append(log, ArgsDelta(n, f)) \in Seq(Event)
      BY <1>0, <2>3, AppendProperties
    <3> QED
      BY <1>0, <3>1, <3>2
  <2>5. cur' \in Pending
    BY <1>10, HeadType DEF ContinueCall, AtFragment, PopFragment
  <2>8. TypeOK'
    BY <1>0, <1>10, <2>2, <2>4, <2>5 DEF ContinueCall, AtFragment, TypeOK
  <2>9. Control'
    BY <1>0, <1>10, <2>2, <2>4, <2>5 DEF ContinueCall, AtFragment, Control
  <2> QED
    BY <2>8, <2>9
<1>11. CASE EndOfStream
  BY <1>0, <1>11 DEF EndOfStream, TypeOK, Control
<1>12. CASE GraphRaises
  <2>1. Plain("failed") \in Event
    BY DEF Plain, About, Event, EventType, DeltaTypes
  <2>8. TypeOK'
    BY <1>0, <1>12, <2>1 DEF GraphRaises, Yield, TypeOK
  <2>9. Control'
    BY <1>0, <1>12, <2>1 DEF GraphRaises, Yield, Control
  <2> QED
    BY <2>8, <2>9
<1>13. CASE CloseArgs
  <2>1. closed + 1 \in DOMAIN calls
    BY <1>0, <1>13 DEF CloseArgs, TypeOK
  <2>2. OfCall("args.done", closed + 1, calls[closed + 1], calls[closed + 1].args) \in Event
    BY <2>1, CallType DEF OfCall, About, Event, EventType, DeltaTypes
  <2>8. TypeOK'
    BY <1>0, <1>13, <2>2 DEF CloseArgs, Yield, TypeOK
  <2>9. Control'
    BY <1>0, <1>13, <2>2 DEF CloseArgs, Yield, Control
  <2> QED
    BY <2>8, <2>9
<1>14. CASE CloseCall
  <2>1. closed + 1 \in DOMAIN calls
    BY <1>0, <1>14 DEF CloseCall, TypeOK, Control
  <2>2. OfCall("item.done", closed + 1, calls[closed + 1], calls[closed + 1].args) \in Event
    BY <2>1, CallType DEF OfCall, About, Event, EventType, DeltaTypes
  <2>3. [item |-> closed + 1, call |-> calls[closed + 1].call,
         body |-> calls[closed + 1].args] \in OutputItem
    BY <2>1, CallType DEF OutputItem
  <2>4. closed' \in 0 .. Len(calls)
    BY <1>0, <1>14, <2>1 DEF CloseCall, TypeOK
  <2>8. TypeOK'
    BY <1>0, <1>14, <2>2, <2>3, <2>4 DEF CloseCall, Yield, TypeOK
  <2>9. Control'
    BY <1>0, <1>14, <2>2, <2>3, <2>4 DEF CloseCall, Yield, Control
  <2> QED
    BY <2>8, <2>9
<1>15. CASE CloseText
  <2>1. OfMessage("text.done", message.text) \in Event
    BY <1>0 DEF OfMessage, About, Event, EventType, DeltaTypes
  <2>8. TypeOK'
    BY <1>0, <1>15, <2>1 DEF CloseText, Yield, TypeOK
  <2>9. Control'
    BY <1>0, <1>15, <2>1 DEF CloseText, Yield, Control
  <2> QED
    BY <2>8, <2>9
<1>16. CASE ClosePart
  <2>1. OfMessage("part.done", message.text) \in Event
    BY <1>0 DEF OfMessage, About, Event, EventType, DeltaTypes
  <2>8. TypeOK'
    BY <1>0, <1>16, <2>1 DEF ClosePart, Yield, TypeOK
  <2>9. Control'
    BY <1>0, <1>16, <2>1 DEF ClosePart, Yield, Control
  <2> QED
    BY <2>8, <2>9
<1>17. CASE CloseMessage
  <2>1. OfMessage("item.done", message.text) \in Event
    BY <1>0 DEF OfMessage, About, Event, EventType, DeltaTypes
  <2>2. [item |-> 0, call |-> None, body |-> message.text] \in OutputItem
    BY <1>0 DEF OutputItem
  <2>8. TypeOK'
    BY <1>0, <1>17, <2>1, <2>2 DEF CloseMessage, Yield, TypeOK
  <2>9. Control'
    BY <1>0, <1>17, <2>1, <2>2 DEF CloseMessage, Yield, Control
  <2> QED
    BY <2>8, <2>9
<1>18. CASE Complete
  <2>1. [Plain("completed") EXCEPT !.output = output] \in Event
    BY <1>0, CompletedType
  <2>8. TypeOK'
    BY <1>0, <1>18, <2>1 DEF Complete, Yield, TypeOK
  <2>9. Control'
    BY <1>0, <1>18, <2>1 DEF Complete, Yield, Control
  <2> QED
    BY <2>8, <2>9
<1>19. CASE Disconnect
  BY <1>0, <1>19 DEF Disconnect, TypeOK, Control
<1>20. CASE UNCHANGED vars
  BY <1>0, <1>20 DEF vars, TypeOK, Control
<1> QED
  BY <1>1, <1>2, <1>3, <1>4, <1>5, <1>6, <1>7, <1>8, <1>9, <1>10, <1>11, <1>12, <1>13,
     <1>14, <1>15, <1>16, <1>17, <1>18, <1>19, <1>20 DEF Next, Emit

\* The emitter's variables always have their types, whatever the graph delivers:
\* no sequence of fragments leaves a call without an id or an output index.
THEOREM TypeCorrect == Spec => []TypeOK
<1>1. Spec => []TypeInv
  BY TypeInit, TypeStep, PTL DEF Spec
<1> QED
  BY <1>1, PTL DEF TypeInv

-----------------------------------------------------------------------------
(* What the emitter's variables know about the events already yielded.     *)
(* The protocol speaks of the log alone; the code never reads it and goes  *)
(* by its variables, so the proof needs the two to agree.                  *)

\* The stream can still grow.
Running == pc \notin {"end", "gone"}

ToldOfMessage ==
  /\ Stream!Seen(log, "item.added", 0) <=> message.idx # -1
  /\ message.idx # -1 => Stream!AddedAt(log, 0, message.idx)
  /\ Stream!Seen(log, "part.added", 0) <=> (message.idx # -1 /\ pc # "part")
  /\ Stream!Seen(log, "text.done", 0) <=> pc \in {"close_part", "close_message", "complete"}
  /\ Stream!Seen(log, "part.done", 0) <=> pc \in {"close_message", "complete"}
  /\ Stream!Seen(log, "item.done", 0) <=> pc = "complete"

ToldOfCalls ==
  \A n \in Nat \ {0} :
    /\ Stream!Seen(log, "item.added", n) <=> n <= Len(calls)
    /\ n <= Len(calls) => Stream!AddedAt(log, n, calls[n].idx)
    /\ Stream!Seen(log, "args.done", n)
         <=> (n <= closed \/ (pc = "close_call" /\ n = closed + 1))
    /\ Stream!Seen(log, "item.done", n) <=> n <= closed

\* Every announcement is of an item, and uses up one output index.
ToldOfIndices ==
  /\ \A i \in DOMAIN log : log[i].type = "item.added" => log[i].item \in Nat
  /\ \A k \in Nat : Stream!Placed(log, k) <=> k < nextIndex

\* completed_output holds the closed items, as they were reported done.
ToldOfOutput ==
  /\ Len(output) = IF pc = "complete" THEN closed + 1 ELSE closed
  /\ \A j \in 1 .. closed : output[j].item = j
  /\ pc = "complete" => output[closed + 1].item = 0
  /\ \A j \in DOMAIN output : Stream!DoneAs(log, output[j])

\* The two opening events come first, a terminal event last.
ToldOfEnds ==
  /\ pc = "start" => Len(log) = 0
  /\ pc = "begun" => Len(log) = 1
  /\ pc \notin {"start", "begun"} => Len(log) >= 2
  /\ ~Stream!Over(log)

Told ==
  Running => /\ ToldOfMessage /\ ToldOfCalls /\ ToldOfIndices
             /\ ToldOfOutput /\ ToldOfEnds

-----------------------------------------------------------------------------
(* What one more event changes.                                            *)

Grows(e) ==
  /\ log' = Append(log, e)
  /\ Len(log') = Len(log) + 1 /\ log'[Len(log')] = e
  /\ DOMAIN log' = 1 .. (Len(log) + 1) /\ DOMAIN log = 1 .. Len(log)
  /\ \A i \in DOMAIN log : log'[i] = log[i]
  /\ \A t, x : Stream!Seen(log', t, x)
                <=> Stream!Seen(log, t, x) \/ (e.type = t /\ e.item = x)
  /\ \A x, k : Stream!AddedAt(log', x, k)
                <=> \/ Stream!AddedAt(log, x, k)
                    \/ e.type = "item.added" /\ e.item = x /\ e.idx = k
  /\ \A k : Stream!Placed(log', k)
             <=> Stream!Placed(log, k) \/ (e.type = "item.added" /\ e.idx = k)
  /\ \A o : Stream!DoneAs(log', o)
             <=> \/ Stream!DoneAs(log, o)
                 \/ /\ e.type = "item.done" /\ e.item = o.item
                    /\ e.call = o.call /\ e.body = o.body
  /\ Stream!Over(log') <=> Stream!Over(log) \/ e.type \in {"completed", "failed"}

LEMMA Growth ==
  ASSUME log \in Seq(Event), NEW e, log' = Append(log, e)
  PROVE  Grows(e)
<1>1. /\ Len(log) \in Nat
      /\ Len(log') = Len(log) + 1 /\ log'[Len(log')] = e
      /\ DOMAIN log' = 1 .. (Len(log) + 1) /\ DOMAIN log = 1 .. Len(log)
      /\ \A i \in DOMAIN log : log'[i] = log[i]
  OBVIOUS
<1>2. \A i \in DOMAIN log' : i \in DOMAIN log \/ i = Len(log')
  BY <1>1
<1>3. Len(log') \in DOMAIN log' /\ \A i \in DOMAIN log : i \in DOMAIN log'
  BY <1>1
<1>4. \A t, x : Stream!Seen(log', t, x)
                <=> Stream!Seen(log, t, x) \/ (e.type = t /\ e.item = x)
  BY <1>1, <1>2, <1>3 DEF Stream!Seen
<1>5. \A x, k : Stream!AddedAt(log', x, k)
                <=> \/ Stream!AddedAt(log, x, k)
                    \/ e.type = "item.added" /\ e.item = x /\ e.idx = k
  BY <1>1, <1>2, <1>3 DEF Stream!AddedAt
<1>6. \A k : Stream!Placed(log', k)
             <=> Stream!Placed(log, k) \/ (e.type = "item.added" /\ e.idx = k)
  BY <1>1, <1>2, <1>3 DEF Stream!Placed
<1>7. \A o : Stream!DoneAs(log', o)
             <=> \/ Stream!DoneAs(log, o)
                 \/ /\ e.type = "item.done" /\ e.item = o.item
                    /\ e.call = o.call /\ e.body = o.body
  BY <1>1, <1>2, <1>3 DEF Stream!DoneAs
<1>8. Stream!Over(log') <=> Stream!Over(log) \/ e.type \in {"completed", "failed"}
  BY <1>1, <1>2, <1>3 DEF Stream!Over
<1> QED
  BY <1>1, <1>4, <1>5, <1>6, <1>7, <1>8 DEF Grows

\* A step that appends a legal event is a step of the protocol.
LEMMA LegalStep ==
  ASSUME NEW e, Grows(e), Stream!Legal(log, e)
  PROVE  Stream!Next
  BY DEF Grows, Stream!Next

-----------------------------------------------------------------------------
LEMMA ProtocolInit == Init => Stream!Init /\ Told
  BY DEF Init, Stream!Init, Told, ToldOfMessage, ToldOfCalls, ToldOfIndices, ToldOfOutput,
         ToldOfEnds, Stream!Seen, Stream!AddedAt, Stream!Placed, Stream!Over

\* Every step of the emitter is a step of the protocol or leaves the log alone,
\* and keeps the variables and the log in agreement.
LEMMA ProtocolStep ==
  TypeInv /\ Told /\ [Next]_vars => [Stream!Next]_log /\ Told'
<1> SUFFICES ASSUME TypeInv, Told, [Next]_vars
             PROVE  [Stream!Next]_log /\ Told'
  OBVIOUS
<1>0. /\ log \in Seq(Event) /\ output \in Seq(OutputItem) /\ calls \in Seq(CallState)
      /\ message.idx \in Int /\ nextIndex \in Nat /\ closed \in 0 .. Len(calls)
      /\ Len(log) \in Nat /\ Len(calls) \in Nat /\ Len(output) \in Nat
      /\ Control
      /\ Running => ToldOfMessage /\ ToldOfCalls /\ ToldOfIndices /\ ToldOfOutput /\ ToldOfEnds
      /\ Running <=> pc \notin {"end", "gone"}
  BY DEF TypeInv, TypeOK, Told, Running
<1>1. CASE Created
  <2> DEFINE e == Plain("created")
  <2>1. Grows(e)
    BY <1>0, <1>1, Growth DEF Created, Yield
  <2>2. e.type = "created"
    BY DEF Plain, About
  <2>3. Stream!Legal(log, e)
    BY <1>0, <1>1, <2>2 DEF Created, Stream!Legal, Stream!Begins, ToldOfEnds
  <2> HIDE DEF e
  <2>4. ToldOfMessage'
    BY <1>0, <1>1, <2>1, <2>2 DEF Created, Grows, ToldOfMessage
  <2>5. ToldOfCalls'
    BY <1>0, <1>1, <2>1, <2>2 DEF Created, Grows, ToldOfCalls
  <2>6. ToldOfIndices'
    BY <1>0, <1>1, <2>1, <2>2 DEF Created, Grows, ToldOfIndices
  <2>7. ToldOfOutput'
    BY <1>0, <1>1, <2>1, <2>2 DEF Created, Grows, ToldOfOutput
  <2>8. ToldOfEnds'
    BY <1>0, <1>1, <2>1, <2>2 DEF Created, Grows, ToldOfEnds
  <2> QED
    BY <2>1, <2>3, <2>4, <2>5, <2>6, <2>7, <2>8, LegalStep DEF Told
<1>2. CASE InProgress
  <2> DEFINE e == Plain("in_progress")
  <2>1. Grows(e)
    BY <1>0, <1>2, Growth DEF InProgress, Yield
  <2>2. e.type = "in_progress"
    BY DEF Plain, About
  <2>3. Stream!Legal(log, e)
    BY <1>0, <1>2, <2>2 DEF InProgress, Stream!Legal, Stream!Begins, ToldOfEnds
  <2> HIDE DEF e
  <2>4. ToldOfMessage'
    BY <1>0, <1>2, <2>1, <2>2 DEF InProgress, Grows, ToldOfMessage
  <2>5. ToldOfCalls'
    BY <1>0, <1>2, <2>1, <2>2 DEF InProgress, Grows, ToldOfCalls
  <2>6. ToldOfIndices'
    BY <1>0, <1>2, <2>1, <2>2 DEF InProgress, Grows, ToldOfIndices
  <2>7. ToldOfOutput'
    BY <1>0, <1>2, <2>1, <2>2 DEF InProgress, Grows, ToldOfOutput
  <2>8. ToldOfEnds'
    BY <1>0, <1>2, <2>1, <2>2 DEF InProgress, Grows, ToldOfEnds
  <2> QED
    BY <2>1, <2>3, <2>4, <2>5, <2>6, <2>7, <2>8, LegalStep DEF Told
<1>4. CASE EmitReasoning
  <2> DEFINE e == About("reasoning.delta", 0, None, None, <<cur.reasoning>>)
  <2>1. Grows(e)
    BY <1>0, <1>4, Growth DEF EmitReasoning, Yield
  <2>2. e.type = "reasoning.delta" /\ e.item = 0
    BY DEF About
  <2>3. Stream!Legal(log, e)
    BY <1>0, <1>4, <2>2 DEF EmitReasoning, Stream!Legal, Stream!Reasons, ToldOfMessage, ToldOfEnds
  <2> HIDE DEF e
  <2>4. ToldOfMessage'
    BY <1>0, <1>4, <2>1, <2>2 DEF EmitReasoning, Grows, ToldOfMessage
  <2>5. ToldOfCalls'
    BY <1>0, <1>4, <2>1, <2>2 DEF EmitReasoning, Grows, ToldOfCalls
  <2>6. ToldOfIndices'
    BY <1>0, <1>4, <2>1, <2>2 DEF EmitReasoning, Grows, ToldOfIndices
  <2>7. ToldOfOutput'
    BY <1>0, <1>4, <2>1, <2>2 DEF EmitReasoning, Grows, ToldOfOutput
  <2>8. ToldOfEnds'
    BY <1>0, <1>4, <2>1, <2>2 DEF EmitReasoning, Grows, ToldOfEnds
  <2> QED
    BY <2>1, <2>3, <2>4, <2>5, <2>6, <2>7, <2>8, LegalStep DEF Told
<1>6. CASE AddPart
  <2> DEFINE e == OfMessage("part.added", <<>>)
  <2>1. Grows(e)
    BY <1>0, <1>6, Growth DEF AddPart, Yield
  <2>2. e.type = "part.added" /\ e.item = 0 /\ e.idx = message.idx
    BY DEF OfMessage, About
  <2>3. Stream!Legal(log, e)
    BY <1>0, <1>6, <2>2 DEF AddPart, Stream!Legal, Stream!SpeaksOfMessage, Stream!OnOpenItem, ToldOfMessage, ToldOfEnds, Control
  <2> HIDE DEF e
  <2>4. ToldOfMessage'
    BY <1>0, <1>6, <2>1, <2>2 DEF AddPart, Grows, ToldOfMessage, Control
  <2>5. ToldOfCalls'
    BY <1>0, <1>6, <2>1, <2>2 DEF AddPart, Grows, ToldOfCalls
  <2>6. ToldOfIndices'
    BY <1>0, <1>6, <2>1, <2>2 DEF AddPart, Grows, ToldOfIndices
  <2>7. ToldOfOutput'
    BY <1>0, <1>6, <2>1, <2>2 DEF AddPart, Grows, ToldOfOutput
  <2>8. ToldOfEnds'
    BY <1>0, <1>6, <2>1, <2>2 DEF AddPart, Grows, ToldOfEnds
  <2> QED
    BY <2>1, <2>3, <2>4, <2>5, <2>6, <2>7, <2>8, LegalStep DEF Told
<1>7. CASE EmitText
  <2> DEFINE e == OfMessage("text.delta", <<cur.text>>)
  <2>1. Grows(e)
    BY <1>0, <1>7, Growth DEF EmitText, Yield
  <2>2. e.type = "text.delta" /\ e.item = 0 /\ e.idx = message.idx
    BY DEF OfMessage, About
  <2>3. Stream!Legal(log, e)
    BY <1>0, <1>7, <2>2 DEF EmitText, Stream!Legal, Stream!SpeaksOfMessage, Stream!OnOpenItem, ToldOfMessage, ToldOfEnds
  <2> HIDE DEF e
  <2>4. ToldOfMessage'
    BY <1>0, <1>7, <2>1, <2>2 DEF EmitText, Grows, ToldOfMessage
  <2>5. ToldOfCalls'
    BY <1>0, <1>7, <2>1, <2>2 DEF EmitText, Grows, ToldOfCalls
  <2>6. ToldOfIndices'
    BY <1>0, <1>7, <2>1, <2>2 DEF EmitText, Grows, ToldOfIndices
  <2>7. ToldOfOutput'
    BY <1>0, <1>7, <2>1, <2>2 DEF EmitText, Grows, ToldOfOutput
  <2>8. ToldOfEnds'
    BY <1>0, <1>7, <2>1, <2>2 DEF EmitText, Grows, ToldOfEnds
  <2> QED
    BY <2>1, <2>3, <2>4, <2>5, <2>6, <2>7, <2>8, LegalStep DEF Told
<1>3. ASSUME NEW k \in Chunks, NextChunk(k) PROVE [Stream!Next]_log /\ Told'
  BY <1>0, <1>3 DEF NextChunk, Told, Running, ToldOfMessage, ToldOfCalls, ToldOfIndices, ToldOfOutput, ToldOfEnds
<1>5. CASE OpenMessage
  <2> DEFINE e == About("item.added", 0, nextIndex, None, <<>>)
  <2>1. Grows(e)
    BY <1>0, <1>5, Growth DEF OpenMessage, Yield
  <2>2. e.type = "item.added" /\ e.item = 0 /\ e.idx = nextIndex
    BY DEF About
  <2> HIDE DEF e
  <2>3. Stream!Legal(log, e)
    BY <1>0, <1>5, <2>2 DEF OpenMessage, Stream!Legal, Stream!Announces, Stream!Items, ToldOfMessage, ToldOfIndices, ToldOfEnds
  <2>4. ToldOfMessage'
    BY <1>0, <1>5, <2>1, <2>2 DEF OpenMessage, Grows, ToldOfMessage
  <2>5. ToldOfCalls'
    BY <1>0, <1>5, <2>1, <2>2 DEF OpenMessage, Grows, ToldOfCalls
  <2>6. ToldOfIndices'
    BY <1>0, <1>5, <2>1, <2>2 DEF OpenMessage, Grows, ToldOfIndices
  <2>7. ToldOfOutput'
    BY <1>0, <1>5, <2>1, <2>2 DEF OpenMessage, Grows, ToldOfOutput
  <2>8. ToldOfEnds'
    BY <1>0, <1>5, <2>1, <2>2 DEF OpenMessage, Grows, ToldOfEnds
  <2> QED
    BY <2>1, <2>3, <2>4, <2>5, <2>6, <2>7, <2>8, LegalStep DEF Told
<1>12. CASE GraphRaises
  <2> DEFINE e == Plain("failed")
  <2>1. Grows(e)
    BY <1>0, <1>12, Growth DEF GraphRaises, Yield
  <2>2. e.type = "failed" /\ e.output = <<>>
    BY DEF Plain, About
  <2> HIDE DEF e
  <2>3. Stream!Legal(log, e)
    BY <1>0, <1>12, <2>2 DEF GraphRaises, Stream!Legal, Stream!Ends, ToldOfEnds
  <2>4. pc' = "end"
    BY <1>12 DEF GraphRaises
  <2> QED
    BY <2>1, <2>3, <2>4, LegalStep DEF Told, Running
<1>11. CASE EndOfStream
  BY <1>0, <1>11 DEF EndOfStream, Told, Running, ToldOfMessage, ToldOfCalls, ToldOfIndices, ToldOfOutput, ToldOfEnds
<1>13. CASE CloseArgs
  <2> DEFINE e == OfCall("args.done", closed + 1, calls[closed + 1], calls[closed + 1].args)
  <2>1. Grows(e)
    BY <1>0, <1>13, Growth DEF CloseArgs, Yield
  <2>2. e.type = "args.done" /\ e.item = closed + 1 /\ e.idx = calls[closed + 1].idx
    BY DEF OfCall, About
  <2> HIDE DEF e
  <2>3. Stream!Legal(log, e)
    BY <1>0, <1>13, <2>2 DEF CloseArgs, Stream!Legal, Stream!SpeaksOfCall, Stream!OnOpenItem, ToldOfCalls, ToldOfEnds
  <2>4. ToldOfMessage'
    BY <1>0, <1>13, <2>1, <2>2 DEF CloseArgs, Grows, ToldOfMessage
  <2>5. ToldOfCalls'
    BY <1>0, <1>13, <2>1, <2>2 DEF CloseArgs, Grows, ToldOfCalls
  <2>6. ToldOfIndices'
    BY <1>0, <1>13, <2>1, <2>2 DEF CloseArgs, Grows, ToldOfIndices
  <2>7. ToldOfOutput'
    BY <1>0, <1>13, <2>1, <2>2 DEF CloseArgs, Grows, ToldOfOutput
  <2>8. ToldOfEnds'
    BY <1>0, <1>13, <2>1, <2>2 DEF CloseArgs, Grows, ToldOfEnds
  <2> QED
    BY <2>1, <2>3, <2>4, <2>5, <2>6, <2>7, <2>8, LegalStep DEF Told
<1>14. CASE CloseCall
  <2> DEFINE e == OfCall("item.done", closed + 1, calls[closed + 1], calls[closed + 1].args)
  <2>1. Grows(e)
    BY <1>0, <1>14, Growth DEF CloseCall, Yield
  <2>2. /\ e.type = "item.done" /\ e.item = closed + 1 /\ e.idx = calls[closed + 1].idx
        /\ e.call = calls[closed + 1].call /\ e.body = calls[closed + 1].args
    BY DEF OfCall, About
  <2> HIDE DEF e
  <2>3. Stream!Legal(log, e)
    BY <1>0, <1>14, <2>2 DEF CloseCall, Stream!Legal, Stream!SpeaksOfCall, Stream!OnOpenItem, ToldOfCalls, ToldOfEnds, Control
  <2>4. ToldOfMessage'
    BY <1>0, <1>14, <2>1, <2>2 DEF CloseCall, Grows, ToldOfMessage
  <2>5. ToldOfCalls'
    BY <1>0, <1>14, <2>1, <2>2 DEF CloseCall, Grows, ToldOfCalls, Control
  <2>6. ToldOfIndices'
    BY <1>0, <1>14, <2>1, <2>2 DEF CloseCall, Grows, ToldOfIndices
  <2>7. ToldOfOutput'
    <3> DEFINE o == [item |-> closed + 1, call |-> calls[closed + 1].call,
                  body |-> calls[closed + 1].args]
    <3>1. output' = Append(output, o) /\ closed \in Nat
      BY <1>0, <1>14 DEF CloseCall
    <3>2. /\ o.item = closed + 1 /\ o.call = calls[closed + 1].call
          /\ o.body = calls[closed + 1].args
      OBVIOUS
    <3> HIDE DEF o
    <3>3. /\ Len(output') = Len(output) + 1 /\ output'[Len(output) + 1] = o
          /\ DOMAIN output' = 1 .. (Len(output) + 1) /\ DOMAIN output = 1 .. Len(output)
          /\ \A j \in 1 .. Len(output) : output'[j] = output[j]
      BY <1>0, <3>1
    <3>4. Stream!DoneAs(log', o)
      BY <2>1, <2>2, <3>2 DEF Grows
    <3>5. \A j \in DOMAIN output : Stream!DoneAs(log', output[j])
      BY <1>0, <1>14, <2>1 DEF CloseCall, Grows, ToldOfOutput
    <3> QED
      BY <1>0, <1>14, <3>2, <3>3, <3>4, <3>5 DEF CloseCall, ToldOfOutput
  <2>8. ToldOfEnds'
    BY <1>0, <1>14, <2>1, <2>2 DEF CloseCall, Grows, ToldOfEnds
  <2> QED
    BY <2>1, <2>3, <2>4, <2>5, <2>6, <2>7, <2>8, LegalStep DEF Told
<1>15. CASE CloseText
  <2> DEFINE e == OfMessage("text.done", message.text)
  <2>1. Grows(e)
    BY <1>0, <1>15, Growth DEF CloseText, Yield
  <2>2. e.type = "text.done" /\ e.item = 0 /\ e.idx = message.idx
    BY DEF OfMessage, About
  <2> HIDE DEF e
  <2>3. Stream!Legal(log, e)
    BY <1>0, <1>15, <2>2 DEF CloseText, Stream!Legal, Stream!SpeaksOfMessage, Stream!OnOpenItem, ToldOfMessage, ToldOfEnds, Control
  <2>4. ToldOfMessage'
    BY <1>0, <1>15, <2>1, <2>2 DEF CloseText, Grows, ToldOfMessage, Control
  <2>5. ToldOfCalls'
    BY <1>0, <1>15, <2>1, <2>2 DEF CloseText, Grows, ToldOfCalls
  <2>6. ToldOfIndices'
    BY <1>0, <1>15, <2>1, <2>2 DEF CloseText, Grows, ToldOfIndices
  <2>7. ToldOfOutput'
    BY <1>0, <1>15, <2>1, <2>2 DEF CloseText, Grows, ToldOfOutput
  <2>8. ToldOfEnds'
    BY <1>0, <1>15, <2>1, <2>2 DEF CloseText, Grows, ToldOfEnds
  <2> QED
    BY <2>1, <2>3, <2>4, <2>5, <2>6, <2>7, <2>8, LegalStep DEF Told
<1>16. CASE ClosePart
  <2> DEFINE e == OfMessage("part.done", message.text)
  <2>1. Grows(e)
    BY <1>0, <1>16, Growth DEF ClosePart, Yield
  <2>2. e.type = "part.done" /\ e.item = 0 /\ e.idx = message.idx
    BY DEF OfMessage, About
  <2> HIDE DEF e
  <2>3. Stream!Legal(log, e)
    BY <1>0, <1>16, <2>2 DEF ClosePart, Stream!Legal, Stream!SpeaksOfMessage, Stream!OnOpenItem, ToldOfMessage, ToldOfEnds, Control
  <2>4. ToldOfMessage'
    BY <1>0, <1>16, <2>1, <2>2 DEF ClosePart, Grows, ToldOfMessage, Control
  <2>5. ToldOfCalls'
    BY <1>0, <1>16, <2>1, <2>2 DEF ClosePart, Grows, ToldOfCalls
  <2>6. ToldOfIndices'
    BY <1>0, <1>16, <2>1, <2>2 DEF ClosePart, Grows, ToldOfIndices
  <2>7. ToldOfOutput'
    BY <1>0, <1>16, <2>1, <2>2 DEF ClosePart, Grows, ToldOfOutput
  <2>8. ToldOfEnds'
    BY <1>0, <1>16, <2>1, <2>2 DEF ClosePart, Grows, ToldOfEnds
  <2> QED
    BY <2>1, <2>3, <2>4, <2>5, <2>6, <2>7, <2>8, LegalStep DEF Told
<1>17. CASE CloseMessage
  <2> DEFINE e == OfMessage("item.done", message.text)
  <2>1. Grows(e)
    BY <1>0, <1>17, Growth DEF CloseMessage, Yield
  <2>2. /\ e.type = "item.done" /\ e.item = 0 /\ e.idx = message.idx
        /\ e.call = None /\ e.body = message.text
    BY DEF OfMessage, About
  <2> HIDE DEF e
  <2>3. Stream!Legal(log, e)
    BY <1>0, <1>17, <2>2 DEF CloseMessage, Stream!Legal, Stream!SpeaksOfMessage, Stream!OnOpenItem, ToldOfMessage, ToldOfEnds, Control
  <2>4. ToldOfMessage'
    BY <1>0, <1>17, <2>1, <2>2 DEF CloseMessage, Grows, ToldOfMessage, Control
  <2>5. ToldOfCalls'
    BY <1>0, <1>17, <2>1, <2>2 DEF CloseMessage, Grows, ToldOfCalls
  <2>6. ToldOfIndices'
    BY <1>0, <1>17, <2>1, <2>2 DEF CloseMessage, Grows, ToldOfIndices
  <2>7. ToldOfOutput'
    <3> DEFINE o == [item |-> 0, call |-> None, body |-> message.text]
    <3>1. output' = Append(output, o) /\ closed \in Nat
      BY <1>0, <1>17 DEF CloseMessage
    <3>2. o.item = 0 /\ o.call = None /\ o.body = message.text
      OBVIOUS
    <3> HIDE DEF o
    <3>3. /\ Len(output') = Len(output) + 1 /\ output'[Len(output) + 1] = o
          /\ DOMAIN output' = 1 .. (Len(output) + 1) /\ DOMAIN output = 1 .. Len(output)
          /\ \A j \in 1 .. Len(output) : output'[j] = output[j]
      BY <1>0, <3>1
    <3>4. Stream!DoneAs(log', o)
      BY <2>1, <2>2, <3>2 DEF Grows
    <3>5. \A j \in DOMAIN output : Stream!DoneAs(log', output[j])
      BY <1>0, <1>17, <2>1 DEF CloseMessage, Grows, ToldOfOutput
    <3> QED
      BY <1>0, <1>17, <3>2, <3>3, <3>4, <3>5 DEF CloseMessage, ToldOfOutput
  <2>8. ToldOfEnds'
    BY <1>0, <1>17, <2>1, <2>2 DEF CloseMessage, Grows, ToldOfEnds
  <2> QED
    BY <2>1, <2>3, <2>4, <2>5, <2>6, <2>7, <2>8, LegalStep DEF Told
<1>19. CASE Disconnect
  BY <1>0, <1>19 DEF Disconnect, Told, Running, ToldOfMessage, ToldOfCalls, ToldOfIndices, ToldOfOutput, ToldOfEnds
<1>20. CASE UNCHANGED vars
  BY <1>0, <1>20 DEF vars, Told, Running, ToldOfMessage, ToldOfCalls, ToldOfIndices, ToldOfOutput, ToldOfEnds
<1>8. CASE StartCall
  <2> DEFINE c == [key |-> OwnKey(Head(cur.frags)), idx |-> nextIndex,
                   call |-> IdOf(Head(cur.frags), -(Len(calls) + 1)), args |-> <<>>]
             e == OfCall("item.added", Len(calls) + 1, c, <<>>)
  <2>1. Grows(e) /\ calls' = Append(calls, c)
    BY <1>0, <1>8, Growth DEF StartCall, Yield
  <2>2. e.type = "item.added" /\ e.item = Len(calls) + 1 /\ e.idx = nextIndex
    BY DEF OfCall, About
  <2>10. c.idx = nextIndex
    OBVIOUS
  <2> HIDE DEF e, c
  <2>11. /\ Len(calls') = Len(calls) + 1 /\ calls'[Len(calls) + 1].idx = nextIndex
         /\ \A n \in 1 .. Len(calls) : calls'[n] = calls[n]
    BY <1>0, <2>1, <2>10
  <2>12. /\ pc = "stream" /\ pc' \in {"stream", "args"}
         /\ nextIndex' = nextIndex + 1
         /\ UNCHANGED <<message, closed, output>>
    BY <1>8 DEF StartCall, AtFragment
  <2>3. Stream!Legal(log, e)
    BY <1>0, <2>2, <2>12 DEF Stream!Legal, Stream!Announces, Stream!Items, ToldOfCalls,
       ToldOfIndices, ToldOfEnds
  <2>4. ToldOfMessage'
    BY <1>0, <2>1, <2>2, <2>11, <2>12 DEF Grows, ToldOfMessage
  <2>5. ToldOfCalls'
    BY <1>0, <2>1, <2>2, <2>11, <2>12 DEF Grows, ToldOfCalls
  <2>6. ToldOfIndices'
    BY <1>0, <2>1, <2>2, <2>11, <2>12 DEF Grows, ToldOfIndices
  <2>7. ToldOfOutput'
    BY <1>0, <2>1, <2>2, <2>11, <2>12 DEF Grows, ToldOfOutput
  <2>8. ToldOfEnds'
    BY <1>0, <2>1, <2>2, <2>11, <2>12 DEF Grows, ToldOfEnds
  <2> QED
    BY <2>1, <2>3, <2>4, <2>5, <2>6, <2>7, <2>8, LegalStep DEF Told
<1>9. CASE EmitArgs
  <2> DEFINE n == Len(calls)
             e == ArgsDelta(n, Head(cur.frags))
  <2>1. Grows(e)
    BY <1>0, <1>9, Growth DEF EmitArgs, Yield
  <2>2. e.type = "args.delta" /\ e.item = n /\ e.idx = calls[n].idx
    BY DEF ArgsDelta, About
  <2> HIDE DEF e
  <2>10. n \in DOMAIN calls
    BY <1>0, <1>9 DEF EmitArgs, Control
  <2>11. Len(calls') = Len(calls) /\ \A m \in DOMAIN calls : calls'[m].idx = calls[m].idx
    BY <1>0, <1>9, <2>10, CallType DEF EmitArgs, CallState
  <2>12. /\ pc = "args" /\ pc' = "stream"
         /\ UNCHANGED <<message, nextIndex, closed, output>>
    BY <1>9 DEF EmitArgs
  <2>3. Stream!Legal(log, e)
    BY <1>0, <2>2, <2>10, <2>12 DEF Control, Stream!Legal, Stream!SpeaksOfCall,
       Stream!OnOpenItem, ToldOfCalls, ToldOfEnds
  <2>4. ToldOfMessage'
    BY <1>0, <2>1, <2>2, <2>11, <2>12 DEF Grows, ToldOfMessage
  <2>5. ToldOfCalls'
    BY <1>0, <2>1, <2>2, <2>11, <2>12 DEF Grows, ToldOfCalls
  <2>6. ToldOfIndices'
    BY <1>0, <2>1, <2>2, <2>11, <2>12 DEF Grows, ToldOfIndices
  <2>7. ToldOfOutput'
    BY <1>0, <2>1, <2>2, <2>11, <2>12 DEF Grows, ToldOfOutput
  <2>8. ToldOfEnds'
    BY <1>0, <2>1, <2>2, <2>11, <2>12 DEF Grows, ToldOfEnds
  <2> QED
    BY <2>1, <2>3, <2>4, <2>5, <2>6, <2>7, <2>8, LegalStep DEF Told
<1>10. ASSUME NEW n \in DOMAIN calls, ContinueCall(n)
       PROVE  [Stream!Next]_log /\ Told'
  <2> DEFINE f == Head(cur.frags)
             e == ArgsDelta(n, f)
  <2>10. /\ DOMAIN calls = 1 .. Len(calls)
         /\ \A m \in DOMAIN calls : calls[m] \in CallState
    BY <1>0, CallType
  <2>11. /\ Len(calls') = Len(calls)
         /\ \A m \in Nat \ {0} : m <= Len(calls) => calls'[m].idx = calls[m].idx
    <3>1. CASE calls' = [calls EXCEPT ![n].call = IdOf(f, @), ![n].args = Append(@, f.args)]
      <4>1. DOMAIN calls' = DOMAIN calls /\ Len(calls') = Len(calls)
        BY <1>0, <2>10, <3>1
      <4>2. \A m \in DOMAIN calls : m # n => calls'[m] = calls[m]
        BY <3>1
      <4>3. calls'[n] = [calls[n] EXCEPT !.call = IdOf(f, @), !.args = Append(@, f.args)]
        BY <3>1
      <4>4. calls'[n].idx = calls[n].idx
        BY <2>10, <4>3 DEF CallState
      <4> QED
        BY <1>0, <2>10, <4>1, <4>2, <4>4
    <3>2. CASE calls' = [calls EXCEPT ![n].call = IdOf(f, @)]
      BY <1>0, <2>10, <3>2 DEF CallState
    <3> QED
      BY <1>10, <3>1, <3>2 DEF ContinueCall
  <2>12. /\ pc = "stream" /\ pc' = "stream"
         /\ UNCHANGED <<message, nextIndex, closed, output>>
    BY <1>10 DEF ContinueCall, AtFragment
  <2>13. CASE log' = log
    <3>1. ToldOfMessage' /\ ToldOfIndices' /\ ToldOfOutput' /\ ToldOfEnds'
      BY <1>0, <2>12, <2>13 DEF ToldOfMessage, ToldOfIndices, ToldOfOutput, ToldOfEnds
    <3>2. ToldOfCalls'
      BY <1>0, <2>11, <2>12, <2>13 DEF ToldOfCalls
    <3> QED
      BY <2>13, <3>1, <3>2 DEF Told
  <2>14. CASE log' = Append(log, e)
    <3>1. Grows(e)
      BY <1>0, <2>14, Growth
    <3>2. e.type = "args.delta" /\ e.item = n /\ e.idx = calls[n].idx
      BY DEF ArgsDelta, About
    <3> HIDE DEF e
    <3>3. Stream!Legal(log, e)
      BY <1>0, <2>12, <3>2 DEF Control, Stream!Legal, Stream!SpeaksOfCall,
         Stream!OnOpenItem, ToldOfCalls, ToldOfEnds
    <3>4. ToldOfMessage'
      BY <1>0, <2>11, <2>12, <3>1, <3>2 DEF Grows, ToldOfMessage
    <3>5. ToldOfCalls'
      BY <1>0, <2>11, <2>12, <3>1, <3>2 DEF Grows, ToldOfCalls
    <3>6. ToldOfIndices'
      BY <1>0, <2>11, <2>12, <3>1, <3>2 DEF Grows, ToldOfIndices
    <3>7. ToldOfOutput'
      BY <1>0, <2>11, <2>12, <3>1, <3>2 DEF Grows, ToldOfOutput
    <3>8. ToldOfEnds'
      BY <1>0, <2>11, <2>12, <3>1, <3>2 DEF Grows, ToldOfEnds
    <3> QED
      BY <3>1, <3>3, <3>4, <3>5, <3>6, <3>7, <3>8, LegalStep DEF Told
  <2> QED
    BY <1>10, <2>13, <2>14 DEF ContinueCall, Yield
<1>18. CASE Complete
  <2> DEFINE e == [Plain("completed") EXCEPT !.output = output]
  <2>1. Grows(e) /\ pc' = "end" /\ Running /\ closed = Len(calls)
    BY <1>0, <1>18, Growth DEF Complete, Yield, Control
  <2>2. e.type = "completed" /\ e.output = output
    BY DEF Plain, About
  <2> HIDE DEF e
  <2>3. \A i \in DOMAIN log : log[i].type = "item.added"
          => \E j \in DOMAIN output : output[j].item = log[i].item
    <3> SUFFICES ASSUME NEW i \in DOMAIN log, log[i].type = "item.added"
                 PROVE  \E j \in DOMAIN output : output[j].item = log[i].item
      OBVIOUS
    <3>1. log[i].item \in Nat /\ Stream!Seen(log, "item.added", log[i].item)
      BY <1>0, <2>1 DEF ToldOfIndices, Stream!Seen
    <3>2. CASE log[i].item = 0
      <4>1. pc = "complete"
        BY <1>0, <1>18, <2>1, <3>1, <3>2 DEF Complete, ToldOfMessage
      <4> QED
        BY <1>0, <2>1, <3>2, <4>1 DEF ToldOfOutput
    <3>3. CASE log[i].item # 0
      <4>1. log[i].item \in 1 .. closed
        BY <1>0, <2>1, <3>1, <3>3 DEF ToldOfCalls
      <4>2. log[i].item \in DOMAIN output
        BY <1>0, <2>1, <4>1 DEF ToldOfOutput
      <4> QED
        BY <1>0, <2>1, <4>1, <4>2 DEF ToldOfOutput
    <3> QED
      BY <3>2, <3>3
  <2>4. \A j, k \in DOMAIN output : output[j].item = output[k].item => j = k
    <3>1. DOMAIN output = 1 .. Len(output) /\ closed \in Nat
      BY <1>0
    <3>2. CASE pc = "complete"
      <4>1. /\ Len(output) = closed + 1 /\ output[closed + 1].item = 0
            /\ \A j \in 1 .. closed : output[j].item = j
        BY <1>0, <2>1, <3>2 DEF ToldOfOutput
      <4>2. \A j \in 1 .. (closed + 1) :
              output[j].item = IF j = closed + 1 THEN 0 ELSE j
        BY <3>1, <4>1
      <4> QED
        BY <3>1, <4>1, <4>2
    <3>3. CASE pc # "complete"
      BY <1>0, <2>1, <3>1, <3>3 DEF ToldOfOutput
    <3> QED
      BY <3>2, <3>3
  <2>5. \A j \in DOMAIN output : Stream!DoneAs(log, output[j])
    BY <1>0, <2>1 DEF ToldOfOutput
  <2>6. Stream!Legal(log, e)
    BY <1>0, <1>18, <2>1, <2>2, <2>3, <2>4, <2>5
       DEF Complete, Stream!Legal, Stream!Ends, ToldOfEnds
  <2> QED
    BY <2>1, <2>6, LegalStep DEF Told, Running
<1> QED
  BY <1>1, <1>2, <1>3, <1>4, <1>5, <1>6, <1>7, <1>8, <1>9, <1>10, <1>11, <1>12, <1>13,
     <1>14, <1>15, <1>16, <1>17, <1>18, <1>19, <1>20 DEF Next, Emit

\* Every stream the emitter produces is one the Responses protocol allows, for
\* every graph, node list and moment the client leaves at: items are announced
\* once, at dense output indices, spoken of only while open, all closed before
\* the response is reported completed, and repeated there as they were closed.
THEOREM EmitterImplementsProtocol == Spec => Protocol
<1>1. Init => Stream!Init /\ TypeInv /\ Told
  BY ProtocolInit, TypeInit
<1>2. TypeInv /\ Told /\ [Next]_vars => [Stream!Next]_log /\ TypeInv' /\ Told'
  BY ProtocolStep, TypeStep
<1> QED
  BY <1>1, <1>2, PTL DEF Spec, Protocol, Stream!Spec
=============================================================================
