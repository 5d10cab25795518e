------------------------- MODULE EventsEmitterProofs -------------------------
(***************************************************************************)
(* Proofs about EventsEmitter, however model runs and tools overlap and    *)
(* whatever goes wrong with tools: its types, the output indices it hands  *)
(* out, the tool outputs it announces and the final list of items.  And,   *)
(* when model runs follow one another, that it implements ResponseStream.  *)
(***************************************************************************)
EXTENDS EventsEmitter, SequenceTheorems, FiniteSetTheorems, TLAPS

-----------------------------------------------------------------------------
(* Type correctness.                                                       *)

\* What the locations of the generator imply.  Only a chunk that found a message
\* has text to emit, and a model run's end is handled when no chunk is pending, so
\* the message does not go away under the text.
Control ==
  /\ pc \in {"part", "close_part", "close_message"} => Opened
  /\ pc = "args" => cur.frags # <<>> /\ calls # <<>>
  /\ pc \in {"start", "begun", "stream", "part", "args", "close_part", "close_message"}
       => closed = 0
  /\ pc = "close_call" => closed < Len(calls)
  /\ pc \in {"close_part", "close_message", "closing", "close_call"} => Spent
  /\ cur.text # 0 => current # None
  /\ current # None => current.item[2] <= made

TypeInv == TypeOK /\ Control


\* An event is one when its fields are of the right kinds.
LEMMA AboutType ==
  ASSUME NEW t \in EventType, NEW item \in Item \cup {None}, NEW idx \in Int \cup {None},
         NEW call \in Int \cup {None}, NEW body \in Seq(Nat)
  PROVE  About(t, item, idx, call, body) \in Event
  BY DEF About, Event

\* The event that ends the response carries the output list.
LEMMA LastType ==
  ASSUME output \in Seq(OutputItem), NEW t \in EventType
  PROVE  [Plain(t) EXCEPT !.output = output] \in Event
<1>1. [Plain(t) EXCEPT !.output = output]
        = [type |-> t, item |-> None, idx |-> None, call |-> None, body |-> <<>>,
           output |-> output]
  BY DEF Plain, About
<1>2. None \in Item \cup {None} /\ None \in Int \cup {None} /\ <<>> \in Seq(Nat)
  OBVIOUS
<1> QED
  BY <1>1, <1>2 DEF Event

\* An item reported done is put into the output list, as it is reported.
LEMMA CompletesType ==
  ASSUME TypeOK, NEW t \in EventType, NEW item \in Item, NEW idx \in Int,
         NEW call \in Int \cup {None}, NEW body \in Seq(Nat),
         Completes(About(t, item, idx, call, body))
  PROVE  log' \in Seq(Event) /\ output' \in Seq(OutputItem)
<1> DEFINE e == About(t, item, idx, call, body)
           o == [item |-> item, call |-> call, body |-> body]
<1>1. e \in Event /\ o \in OutputItem
  BY AboutType DEF OutputItem
<1>2. log' = Append(log, e) /\ output' = Append(output, o)
  BY DEF Completes, Yield, About
<1> HIDE DEF e, o
<1> QED
  BY <1>1, <1>2, AppendProperties DEF TypeOK

\* A fragment's key is a key, and so is the id of its call.
LEMMA FragmentType ==
  ASSUME TypeOK, cur.frags # <<>>
  PROVE  LET f == Head(cur.frags)
         IN  /\ f.args \in Nat
             /\ OwnKey(f) \in Key
             /\ \A d \in Int : IdOf(f, d) \in Int
             /\ [cur EXCEPT !.frags = Tail(@)] \in Pending
<1> DEFINE f == Head(cur.frags)
<1>1. cur \in Pending /\ made \in Nat
  BY DEF TypeOK
<1>2. cur.frags \in Seq(TokenFrag)
  BY <1>1 DEF Pending
<1>3. f \in TokenFrag /\ Tail(cur.frags) \in Seq(TokenFrag)
  BY <1>2
<1>4. f.args \in Nat /\ f.index \in Nat \cup {None} /\ f.id \in Nat \cup {None}
  BY <1>3 DEF TokenFrag
<1>5. OwnKey(f) \in Key
  BY <1>1, <1>4 DEF OwnKey, KeyOf, Key
<1>6. \A d \in Int : IdOf(f, d) \in Int
  BY <1>4 DEF IdOf
<1>7. [cur EXCEPT !.frags = Tail(@)] \in Pending
  BY <1>1, <1>3 DEF Pending
<1> QED
  BY <1>4, <1>5, <1>6, <1>7

\* A delivered chunk holds tokens.
LEMMA FillType ==
  ASSUME fed \in Nat, NEW k \in Chunks
  PROVE  /\ Contents(Fill(k, fed)) \in Pending
         /\ [Contents(Fill(k, fed)) EXCEPT !.text = 0] \in Pending
         /\ Len(k.frags) \in Nat
<1>1. k \in ChunkKind({k.node})
  BY EventChunksAssumption
<1>2. k.frags \in Seq(Fragment)
  BY <1>1 DEF ChunkKind
<1>3. Len(k.frags) \in Nat /\ DOMAIN k.frags = 1 .. Len(k.frags)
  BY <1>2
<1>4. \A j \in DOMAIN k.frags : k.frags[j] \in Fragment
  BY <1>2
<1>5. Fill(k, fed).frags \in [1 .. Len(k.frags) -> TokenFrag]
  BY <1>3, <1>4 DEF Fill, Fragment, TokenFrag
<1>6. Fill(k, fed).frags \in Seq(TokenFrag)
  BY <1>3, <1>5
<1>7. Fill(k, fed).reasoning \in Nat /\ Fill(k, fed).text \in Nat
  BY DEF Fill
<1> QED
  BY <1>3, <1>6, <1>7 DEF Contents, Pending

\* The chunk with its reasoning or its text taken out.
LEMMA TakeOutType ==
  ASSUME TypeOK
  PROVE  /\ cur.reasoning \in Nat /\ cur.text \in Nat
         /\ [cur EXCEPT !.reasoning = 0] \in Pending
         /\ [cur EXCEPT !.text = 0] \in Pending
  BY DEF TypeOK, Pending

\* What the current message and a call in the table look like.
LEMMA CurrentType ==
  ASSUME TypeOK, current # None
  PROVE  current.item \in Item /\ current.idx \in Int /\ current.text \in Seq(Nat)
  BY DEF TypeOK, MessageState

LEMMA CallType ==
  ASSUME TypeOK, NEW n \in DOMAIN calls
  PROVE  /\ n \in Nat \ {0} /\ calls[n] \in CallState
         /\ calls[n].item \in Item /\ calls[n].idx \in Nat
         /\ calls[n].call \in Int /\ calls[n].args \in Seq(Nat)
<1>1. calls \in Seq(CallState)
  BY DEF TypeOK
<1>2. n \in Nat \ {0} /\ calls[n] \in CallState
  BY <1>1
<1> QED
  BY <1>2 DEF CallState

\* The current message with its output index set or its text extended.
LEMMA CurrentStepType ==
  ASSUME TypeOK, current # None, NEW x \in Nat
  PROVE  LET m1 == [current EXCEPT !.idx = x]
             m2 == [current EXCEPT !.text = Append(@, x)]
         IN  /\ m1 = [item |-> current.item, idx |-> x, text |-> current.text]
             /\ m2 = [item |-> current.item, idx |-> current.idx,
                      text |-> Append(current.text, x)]
             /\ m1 \in MessageState
             /\ m2 \in MessageState
<1>1. current \in MessageState
  BY DEF TypeOK
<1>2. Append(current.text, x) \in Seq(Nat) /\ x \in Int
  BY <1>1 DEF MessageState
<1>3. /\ current.item \in Item /\ current.idx \in Int /\ current.text \in Seq(Nat)
      /\ current = [item |-> current.item, idx |-> current.idx, text |-> current.text]
  BY <1>1 DEF MessageState
<1> DEFINE t == Append(current.text, x)
<1>4. [current EXCEPT !.idx = x]
        = [item |-> current.item, idx |-> x, text |-> current.text]
  BY <1>1 DEF MessageState
<1> HIDE DEF t
<1>5. [current EXCEPT !.text = t]
        = [item |-> current.item, idx |-> current.idx, text |-> t]
  BY <1>1 DEF MessageState
<1>6. t \in Seq(Nat)
  BY <1>2 DEF t
<1> QED
  BY <1>2, <1>3, <1>4, <1>5, <1>6 DEF t, MessageState

\* A fragment changes the id and the arguments of its call, and nothing else.
LEMMA CallStepType ==
  ASSUME TypeOK, NEW n \in DOMAIN calls, NEW id \in Int, NEW x \in Nat,
         \/ calls' = [calls EXCEPT ![n].args = Append(@, x)]
         \/ calls' = [calls EXCEPT ![n].call = id, ![n].args = Append(@, x)]
         \/ calls' = [calls EXCEPT ![n].call = id, ![n].args = @]
  PROVE  /\ calls' \in Seq(CallState) /\ Len(calls') = Len(calls) /\ calls' # <<>>
         /\ \A m \in DOMAIN calls :
              /\ calls'[m].item = calls[m].item /\ calls'[m].key = calls[m].key
              /\ calls'[m].idx = calls[m].idx
              /\ m # n => calls'[m] = calls[m]
<1> DEFINE c == CHOOSE c \in CallState :
                  /\ c.item = calls[n].item /\ c.key = calls[n].key
                  /\ c.idx = calls[n].idx
                  /\ calls' = [calls EXCEPT ![n] = c]
<1>0. calls \in Seq(CallState)
  BY DEF TypeOK
<1>1. n \in 1 .. Len(calls) /\ calls[n] \in CallState
  BY <1>0, CallType
<1>2. Append(calls[n].args, x) \in Seq(Nat) /\ calls[n].args \in Seq(Nat)
  BY CallType
<1>3. \E d \in CallState : /\ d.item = calls[n].item /\ d.key = calls[n].key
                           /\ d.idx = calls[n].idx
                           /\ calls' = [calls EXCEPT ![n] = d]
  <2>1. CASE calls' = [calls EXCEPT ![n].args = Append(@, x)]
    <3> DEFINE d == [calls[n] EXCEPT !.args = Append(@, x)]
    <3>1. d \in CallState /\ d.item = calls[n].item /\ d.key = calls[n].key
          /\ d.idx = calls[n].idx
      BY <1>0, <1>1, <1>2 DEF CallState
    <3>2. calls' = [calls EXCEPT ![n] = d]
      BY <1>0, <1>1, <2>1
    <3> QED
      BY <3>1, <3>2
  <2>2. CASE calls' = [calls EXCEPT ![n].call = id, ![n].args = Append(@, x)]
    <3> DEFINE d == [calls[n] EXCEPT !.call = id, !.args = Append(@, x)]
    <3>1. d \in CallState /\ d.item = calls[n].item /\ d.key = calls[n].key
          /\ d.idx = calls[n].idx
      BY <1>0, <1>1, <1>2 DEF CallState
    <3>2. calls' = [calls EXCEPT ![n] = d]
      BY <1>0, <1>1, <2>2
    <3> QED
      BY <3>1, <3>2
  <2>3. CASE calls' = [calls EXCEPT ![n].call = id, ![n].args = @]
    <3> DEFINE d == [calls[n] EXCEPT !.call = id, !.args = @]
    <3>1. d \in CallState /\ d.item = calls[n].item /\ d.key = calls[n].key
          /\ d.idx = calls[n].idx
      BY <1>0, <1>1, <1>2 DEF CallState
    <3>2. calls' = [calls EXCEPT ![n] = d]
      BY <1>0, <1>1, <2>3
    <3> QED
      BY <3>1, <3>2
  <2> QED
    BY <2>1, <2>2, <2>3
<1>4. /\ c \in CallState
      /\ c.item = calls[n].item /\ c.key = calls[n].key /\ c.idx = calls[n].idx
      /\ calls' = [calls EXCEPT ![n] = c]
  BY <1>3
<1> HIDE DEF c
<1>5. calls' \in Seq(CallState) /\ Len(calls') = Len(calls)
  BY <1>0, <1>1, <1>4, ExceptSeq
<1>6. \A m \in DOMAIN calls : calls'[m] = IF m = n THEN c ELSE calls[m]
  BY <1>4
<1> QED
  BY <1>0, <1>1, <1>4, <1>5, <1>6

LEMMA FragmentCalls ==
  ASSUME TypeOK, Control, EmitArgs \/ \E n \in DOMAIN calls : ContinueCall(n)
  PROVE  /\ calls' \in Seq(CallState) /\ Len(calls') = Len(calls) /\ calls' # <<>>
         /\ DOMAIN calls' = DOMAIN calls
         /\ \A m \in DOMAIN calls :
              /\ calls'[m].item = calls[m].item /\ calls'[m].key = calls[m].key
              /\ calls'[m].idx = calls[m].idx
<1> DEFINE f == Head(cur.frags)
<1>1. calls \in Seq(CallState) /\ Len(calls) \in Nat /\ DOMAIN calls = 1 .. Len(calls)
  BY DEF TypeOK
<1>2. CASE EmitArgs
  <2>1. Len(calls) \in DOMAIN calls /\ f.args \in Nat /\ 0 \in Int
    BY <1>1, <1>2, FragmentType DEF EmitArgs, Control
  <2>2. calls' = [calls EXCEPT ![Len(calls)].args = Append(@, f.args)]
    BY <1>2 DEF EmitArgs
  <2>3. /\ calls' \in Seq(CallState) /\ Len(calls') = Len(calls) /\ calls' # <<>>
        /\ \A m \in DOMAIN calls :
              /\ calls'[m].item = calls[m].item /\ calls'[m].key = calls[m].key
              /\ calls'[m].idx = calls[m].idx
    BY <2>1, <2>2, CallStepType
  <2> QED
    BY <1>1, <2>3
<1>3. ASSUME NEW n \in DOMAIN calls, ContinueCall(n)
      PROVE  /\ calls' \in Seq(CallState) /\ Len(calls') = Len(calls) /\ calls' # <<>>
             /\ \A m \in DOMAIN calls :
                  /\ calls'[m].item = calls[m].item /\ calls'[m].key = calls[m].key
                  /\ calls'[m].idx = calls[m].idx
  <2> DEFINE id == IdOf(f, calls[n].call)
  <2>1. f.args \in Nat /\ id \in Int
    BY <1>3, FragmentType, CallType DEF ContinueCall, AtFragment
  <2>2. \/ calls' = [calls EXCEPT ![n].call = id, ![n].args = Append(@, f.args)]
        \/ calls' = [calls EXCEPT ![n].call = id, ![n].args = @]
    BY <1>3 DEF ContinueCall
  <2> HIDE DEF f, id
  <2>3. CASE calls' = [calls EXCEPT ![n].call = id, ![n].args = Append(@, f.args)]
    BY <2>1, <2>3, CallStepType
  <2>4. CASE calls' = [calls EXCEPT ![n].call = id, ![n].args = @]
    BY <2>1, <2>4, CallStepType
  <2> QED
    BY <2>2, <2>3, <2>4
<1> QED
  BY <1>1, <1>2, <1>3

LEMMA TypeInit == Init => TypeInv
  BY DEF Init, TypeInv, TypeOK, Control, Nothing, Pending, Spent

LEMMA TypeStep == TypeInv /\ [Next]_vars => TypeInv'
<1> SUFFICES ASSUME TypeInv, [Next]_vars PROVE TypeInv'
  OBVIOUS
<1> USE DEF TypeInv
<1>0. /\ log \in Seq(Event) /\ output \in Seq(OutputItem) /\ calls \in Seq(CallState)
      /\ sink \in Seq(Seq(Nat))
      /\ nextIndex \in Nat /\ fed \in Nat /\ made \in Nat /\ runs \in Nat /\ toolRuns \in Nat
      /\ cur \in Pending /\ cur.reasoning \in Nat /\ cur.text \in Nat
      /\ Nothing \in Pending /\ Nothing.text = 0 /\ closed \in Nat /\ closed <= Len(calls)
      /\ open \subseteq 1 .. runs /\ running \subseteq 1 .. toolRuns
      /\ DOMAIN tools \subseteq 1 .. toolRuns
      /\ \A r \in DOMAIN tools : /\ tools[r] \in ToolState
                                 /\ tools[r].item \in Item /\ tools[r].idx \in Nat
  BY DEF TypeOK, Pending, Nothing, ToolState
<1>a. EventType = {"reasoning.delta", "text.delta", "args.delta", "created", "in_progress",
                   "item.added", "part.added", "text.done", "part.done", "args.done",
                   "item.done", "completed", "failed"}
  BY DEF EventType, DeltaTypes
<1>b. /\ None \in Item \cup {None} /\ None \in Int \cup {None} /\ <<>> \in Seq(Nat)
      /\ <<>> \in Seq(CallState)
      /\ \A n \in Nat : n \in Int \cup {None} /\ -n \in Int \cup {None} /\ <<n>> \in Seq(Nat)
      /\ \A p \in {"msg", "fc", "fco"} : \A n \in Nat : <<p, n>> \in Item
      /\ \A x \in Item : x \in Item \cup {None}
  BY DEF Item
<1>c. current # None => current.item[2] \in Nat /\ current.item[2] <= made + 1
  BY <1>0, CurrentType DEF Control, Item
<1>1. CASE Created
  <2>1. Plain("created") \in Event
    BY <1>a, <1>b, AboutType DEF Plain
  <2>8. TypeOK'
    BY <1>0, <1>1, <2>1 DEF Created, Yield, TypeOK, graph, items
  <2>9. Control'
    BY <1>0, <1>1 DEF Created, Control, graph, items, Spent, Opened
  <2> QED
    BY <2>8, <2>9
<1>2. CASE InProgress
  <2>1. Plain("in_progress") \in Event
    BY <1>a, <1>b, AboutType DEF Plain
  <2>8. TypeOK'
    BY <1>0, <1>2, <2>1 DEF InProgress, Yield, TypeOK, graph, items
  <2>9. Control'
    BY <1>0, <1>2 DEF InProgress, Control, graph, items, Spent, Opened
  <2> QED
    BY <2>8, <2>9
<1>3. CASE ModelStart
  <2> DEFINE m == [item |-> <<"msg", made + 1>>, idx |-> -1, text |-> <<>>]
  <2>1. m \in MessageState
    BY <1>0, <1>b DEF MessageState
  <2>2. /\ current' = m /\ made' = made + 1 /\ runs' = runs + 1 /\ open' = open \cup {runs + 1}
        /\ pc' = "stream" /\ pc = "stream" /\ cur = Nothing
        /\ UNCHANGED <<toolRuns, running, source, fed, cur, calls, closed, tools, nextIndex,
                       output, sink, log>>
    BY <1>3 DEF ModelStart, Waiting, Spent
  <2>3. current'.item[2] = made + 1
    BY <2>2
  <2> HIDE DEF m
  <2>8. TypeOK'
    BY <1>0, <2>1, <2>2 DEF TypeOK
  <2>9. Control'
    BY <1>0, <2>2, <2>3 DEF Control
  <2> QED
    BY <2>8, <2>9
<1>4. ASSUME NEW r \in open, NEW k \in Chunks, ModelStream(r, k) PROVE TypeInv'
  <2>1. fed' \in Nat
    <3> DEFINE n == Len(k.frags)
    <3>1. fed' = fed + 2 + n /\ n \in Nat
      BY <1>0, <1>4, FillType DEF ModelStream
    <3> HIDE DEF n
    <3> QED
      BY <1>0, <3>1
  <2>2. /\ cur' \in Pending
        /\ cur'.text # 0 => current # None
    <3> DEFINE c == Contents(Fill(k, fed))
    <3>1. c \in Pending /\ [c EXCEPT !.text = 0] \in Pending
      BY <1>0, FillType
    <3> HIDE DEF c
    <3>2. [c EXCEPT !.text = 0].text = 0
      BY <3>1 DEF Pending
    <3>3. cur' = IF ~Accepts(k) THEN Nothing
                 ELSE IF current = None THEN [c EXCEPT !.text = 0] ELSE c
      BY <1>4 DEF ModelStream, c
    <3> QED
      BY <1>0, <3>1, <3>2, <3>3
  <2>3. /\ pc' = "stream" /\ pc = "stream"
        /\ UNCHANGED <<runs, open, toolRuns, running, current, calls, closed, tools, made,
                       nextIndex, output, sink, log>>
    BY <1>4 DEF ModelStream, Waiting
  <2>8. TypeOK'
    BY <1>0, <2>1, <2>2, <2>3 DEF TypeOK
  <2>9. Control'
    BY <2>2, <2>3 DEF Control
  <2> QED
    BY <2>8, <2>9
<1>5. CASE EmitReasoning
  <2> DEFINE item == IF current = None THEN None ELSE current.item
  <2>1. item \in Item \cup {None}
    BY CurrentType
  <2> HIDE DEF item
  <2>2. About("reasoning.delta", item, None, None, <<cur.reasoning>>) \in Event
    BY <1>0, <1>a, <1>b, <2>1, AboutType
  <2>3. /\ log' = Append(log, About("reasoning.delta", item, None, None, <<cur.reasoning>>))
        /\ cur' = [cur EXCEPT !.reasoning = 0]
        /\ pc' = "stream" /\ pc = "stream"
        /\ UNCHANGED <<graph, current, calls, closed, tools, made, nextIndex, output, sink>>
    BY <1>5 DEF EmitReasoning, Yield, item
  <2>4. log' \in Seq(Event)
    BY <1>0, <2>2, <2>3, AppendProperties
  <2>5. cur' \in Pending /\ cur'.text = cur.text
    BY <1>0, <2>3, TakeOutType DEF Pending
  <2>8. TypeOK'
    BY <1>0, <2>3, <2>4, <2>5 DEF TypeOK, graph
  <2>9. Control'
    BY <2>3, <2>5 DEF Control
  <2> QED
    BY <2>8, <2>9
<1>6. CASE OpenMessage
  <2>1. current # None /\ current.item \in Item
    BY <1>6, CurrentType DEF OpenMessage, Control
  <2>2. About("item.added", current.item, nextIndex, None, <<>>) \in Event
    BY <1>0, <1>a, <1>b, <2>1, AboutType
  <2>3. /\ current' \in MessageState
        /\ current'.idx = nextIndex
    BY <1>0, <1>6, <2>1, CurrentStepType DEF OpenMessage
  <2>3a. current'.item = current.item
    BY <1>0, <1>6, <2>1, CurrentStepType DEF OpenMessage
  <2>4. /\ log' = Append(log, About("item.added", current.item, nextIndex, None, <<>>))
        /\ nextIndex' = nextIndex + 1 /\ pc' = "part" /\ pc = "stream"
        /\ UNCHANGED <<graph, cur, calls, closed, tools, made, output, sink>>
    BY <1>6 DEF OpenMessage, Yield
  <2>5. current' # None
    BY <2>3, NoMessageAssumption
  <2>8. TypeOK'
    BY <1>0, <2>2, <2>3, <2>4, SMTT(30) DEF TypeOK, graph
  <2>9. Control'
    BY <1>0, <2>1, <2>3, <2>3a, <2>4, <2>5 DEF Control, Opened
  <2> QED
    BY <2>8, <2>9
<1>7. CASE AddPart
  <2>1. current # None /\ pc = "part" /\ current.item \in Item /\ current.idx \in Int
    BY <1>7, CurrentType DEF AddPart, Control, Opened
  <2>2. OfMessage("part.added", <<>>) \in Event
    BY <1>a, <1>b, <2>1, AboutType DEF OfMessage
  <2>8. TypeOK'
    BY <1>0, <1>7, <2>2 DEF AddPart, Yield, TypeOK, graph, items
  <2>9. Control'
    BY <1>7 DEF AddPart, Control, items
  <2> QED
    BY <2>8, <2>9
<1>8. CASE EmitText
  <2>1. current # None /\ current.item \in Item /\ current.idx \in Int
    BY <1>8, CurrentType DEF EmitText, Control
  <2>2. OfMessage("text.delta", <<cur.text>>) \in Event
    BY <1>0, <1>a, <1>b, <2>1, AboutType DEF OfMessage
  <2>3. current' \in MessageState
    BY <1>0, <1>8, <2>1, CurrentStepType DEF EmitText
  <2>3a. current'.item = current.item
    BY <1>0, <1>8, <2>1, CurrentStepType DEF EmitText
  <2>4. /\ log' = Append(log, OfMessage("text.delta", <<cur.text>>))
        /\ cur' = [cur EXCEPT !.text = 0] /\ pc' = "stream" /\ pc = "stream"
        /\ UNCHANGED <<graph, calls, closed, tools, made, nextIndex, output, sink>>
    BY <1>8 DEF EmitText, Yield
  <2>5. cur' \in Pending
    BY <2>4, TakeOutType
  <2>6. current' # None
    BY <2>3, NoMessageAssumption
  <2>8. TypeOK'
    BY <1>0, <2>2, <2>3, <2>4, <2>5 DEF TypeOK, graph
  <2>9. Control'
    BY <2>1, <2>3a, <2>4, <2>6 DEF Control
  <2> QED
    BY <2>8, <2>9
<1>9. CASE StartCall
  <2> DEFINE f == Head(cur.frags)
             c == [item |-> <<"fc", made + 1>>, key |-> OwnKey(f), idx |-> nextIndex,
                   call |-> IdOf(f, -(made + 1)), args |-> <<>>]
             e == OfCall("item.added", c, <<>>)
  <2>0. /\ OwnKey(f) \in Key /\ \A d \in Int : IdOf(f, d) \in Int
        /\ [cur EXCEPT !.frags = Tail(@)] \in Pending /\ cur.frags # <<>>
    BY <1>9, FragmentType DEF StartCall, AtFragment
  <2>1. -(made + 1) \in Int /\ made + 1 \in Nat
    BY <1>0
  <2>2. IdOf(f, -(made + 1)) \in Int /\ <<"fc", made + 1>> \in Item
    BY <1>b, <2>0, <2>1
  <2>2a. c \in CallState
    BY <1>0, <1>b, <2>0, <2>2 DEF CallState
  <2>3. e \in Event
    <3>1. e = About("item.added", <<"fc", made + 1>>, nextIndex, IdOf(f, -(made + 1)), <<>>)
      BY DEF OfCall
    <3> HIDE DEF e, f
    <3>2. nextIndex \in Int \cup {None} /\ IdOf(f, -(made + 1)) \in Int \cup {None}
      BY <1>0, <2>2
    <3> QED
      BY <1>a, <1>b, <2>2, <3>1, <3>2, AboutType
  <2>4. /\ calls' = Append(calls, c) /\ log' = Append(log, e)
        /\ \/ pc' = "args" /\ cur' = cur
           \/ cur' = [cur EXCEPT !.frags = Tail(@)] /\ pc' = "stream"
        /\ made' = made + 1 /\ nextIndex' = nextIndex + 1
        /\ pc = "stream"
        /\ UNCHANGED <<graph, current, closed, tools, output, sink>>
    BY <1>9 DEF StartCall, AtFragment, Yield, PopFragment
  <2> HIDE DEF f, c, e
  <2>5. /\ calls' \in Seq(CallState) /\ Len(calls') = Len(calls) + 1 /\ Len(calls) \in Nat
        /\ log' \in Seq(Event)
    BY <1>0, <2>2a, <2>3, <2>4, AppendProperties
  <2>6. calls' # <<>>
    BY <2>5
  <2>6a. closed' \in 0 .. Len(calls')
    BY <1>0, <2>4, <2>5
  <2>7. cur' \in Pending /\ cur'.text = cur.text
    BY <1>0, <2>0, <2>4 DEF Pending
  <2>7a. /\ pc' \in {"args", "stream"} /\ made' \in Nat /\ nextIndex' \in Nat
         /\ UNCHANGED <<graph, current, tools, output, sink>>
    BY <1>0, <1>9 DEF StartCall, AtFragment
  <2>8. TypeOK'
    BY <1>0, <2>5, <2>6a, <2>7, <2>7a DEF TypeOK, graph
  <2>9. Control'
    BY <1>0, <1>c, <2>0, <2>4, <2>5, <2>6, <2>7 DEF Control
  <2> QED
    BY <2>8, <2>9
<1>10. CASE EmitArgs
  <2> DEFINE f == Head(cur.frags)
             n == Len(calls)
             e == ArgsDelta(calls[n], f)
  <2>1. cur.frags # <<>> /\ n \in DOMAIN calls /\ pc = "args"
    BY <1>0, <1>10 DEF EmitArgs, Control
  <2>2. f.args \in Nat /\ [cur EXCEPT !.frags = Tail(@)] \in Pending
    BY <2>1, FragmentType
  <2>3. e \in Event
    BY <1>a, <1>b, <2>1, <2>2, CallType, AboutType DEF ArgsDelta
  <2>4. /\ calls' = [calls EXCEPT ![n].args = Append(@, f.args)]
        /\ log' = Append(log, e)
        /\ cur' = [cur EXCEPT !.frags = Tail(@)] /\ pc' = "stream"
        /\ UNCHANGED <<graph, current, closed, tools, made, nextIndex, output, sink>>
    BY <1>10 DEF EmitArgs, PopFragment, Yield
  <2> HIDE DEF f, n, e
  <2>5. calls' \in Seq(CallState) /\ Len(calls') = Len(calls)
    <3>1. 0 \in Int /\ f.args \in Nat
      BY <2>2
    <3> QED
      BY <2>1, <2>4, <3>1, CallStepType
  <2>6. log' \in Seq(Event)
    BY <1>0, <2>3, <2>4, AppendProperties
  <2>7. cur' \in Pending /\ cur'.text = cur.text
    BY <1>0, <2>2, <2>4 DEF Pending
  <2>8. TypeOK'
    BY <1>0, <2>4, <2>5, <2>6, <2>7 DEF TypeOK, graph
  <2>9. Control'
    BY <2>1, <2>4, <2>7 DEF Control
  <2> QED
    BY <2>8, <2>9
<1>11. ASSUME NEW n \in DOMAIN calls, ContinueCall(n) PROVE TypeInv'
  <2> DEFINE f == Head(cur.frags)
             e == ArgsDelta(calls[n], f)
             id == IdOf(f, calls[n].call)
  <2>1. /\ f.args \in Nat /\ [cur EXCEPT !.frags = Tail(@)] \in Pending
        /\ id \in Int
    BY <1>11, FragmentType, CallType DEF ContinueCall, AtFragment
  <2>2. e \in Event
    BY <1>a, <1>b, <2>1, CallType, AboutType DEF ArgsDelta
  <2>3. \/ calls' = [calls EXCEPT ![n].call = id, ![n].args = Append(@, f.args)]
        \/ calls' = [calls EXCEPT ![n].call = id, ![n].args = @]
    BY <1>11 DEF ContinueCall
  <2>4. /\ log' = Append(log, e) \/ log' = log
        /\ cur' = [cur EXCEPT !.frags = Tail(@)] /\ pc' = "stream" /\ pc = "stream"
        /\ UNCHANGED <<graph, current, closed, tools, made, nextIndex, output, sink>>
    BY <1>11 DEF ContinueCall, AtFragment, PopFragment, Yield
  <2> HIDE DEF f, e, id
  <2>5. calls' \in Seq(CallState) /\ Len(calls') = Len(calls)
    <3>1. f.args \in Nat /\ id \in Int
      BY <2>1
    <3>2. CASE calls' = [calls EXCEPT ![n].call = id, ![n].args = Append(@, f.args)]
      BY <3>1, <3>2, CallStepType
    <3>3. CASE calls' = [calls EXCEPT ![n].call = id, ![n].args = @]
      BY <3>1, <3>3, CallStepType
    <3> QED
      BY <2>3, <3>2, <3>3
  <2>6. log' \in Seq(Event)
    <3>1. Append(log, e) \in Seq(Event)
      BY <1>0, <2>2, AppendProperties
    <3> QED
      BY <1>0, <2>4, <3>1
  <2>7. cur' \in Pending /\ cur'.text = cur.text
    BY <1>0, <2>1, <2>4 DEF Pending
  <2>8. TypeOK'
    BY <1>0, <2>4, <2>5, <2>6, <2>7 DEF TypeOK, graph
  <2>9. Control'
    BY <2>4, <2>7 DEF Control
  <2> QED
    BY <2>8, <2>9
<1>12. ASSUME NEW r \in open, ModelEndWithText(r) PROVE TypeInv'
  <2>1. current # None /\ current.item \in Item /\ current.idx \in Int
        /\ current.text \in Seq(Nat)
    BY <1>12, CurrentType DEF ModelEndWithText, Opened
  <2>2. OfMessage("text.done", current.text) \in Event
    BY <1>a, <1>b, <2>1, AboutType DEF OfMessage
  <2>8. TypeOK'
    BY <1>0, <1>12, <2>1, <2>2, SMTT(30) DEF ModelEndWithText, IntoSink, Yield, TypeOK, items
  <2>9. Control'
    BY <1>12 DEF ModelEndWithText, Waiting, Control, items, Opened, Spent
  <2> QED
    BY <2>8, <2>9
<1>13. ASSUME NEW r \in open, ModelEndWithoutText(r) PROVE TypeInv'
  <2>8. TypeOK'
    BY <1>0, <1>13 DEF ModelEndWithoutText, TypeOK
  <2>9. Control'
    BY <1>0, <1>13 DEF ModelEndWithoutText, Waiting, Control, Spent
  <2> QED
    BY <2>8, <2>9
<1>14. CASE ClosePart
  <2>1. current # None /\ current.item \in Item /\ current.idx \in Int
        /\ current.text \in Seq(Nat)
    BY <1>14, CurrentType DEF ClosePart, Control, Opened
  <2>2. OfMessage("part.done", current.text) \in Event
    BY <1>a, <1>b, <2>1, AboutType DEF OfMessage
  <2>8. TypeOK'
    BY <1>0, <1>14, <2>2 DEF ClosePart, Yield, TypeOK, graph, items
  <2>9. Control'
    BY <1>14 DEF ClosePart, Control, items, Opened, Spent
  <2> QED
    BY <2>8, <2>9
<1>15. CASE CloseMessage
  <2>1. current # None /\ current.item \in Item /\ current.idx \in Int
        /\ current.text \in Seq(Nat)
    BY <1>15, CurrentType DEF CloseMessage, Control, Opened
  <2>2. log' \in Seq(Event) /\ output' \in Seq(OutputItem)
    BY <1>15, <1>a, <1>b, <2>1, CompletesType DEF CloseMessage, OfMessage
  <2>8. TypeOK'
    BY <1>0, <1>15, <2>2 DEF CloseMessage, TypeOK, graph
  <2>9. Control'
    BY <1>0, <1>15 DEF CloseMessage, Control, Spent
  <2> QED
    BY <2>8, <2>9
<1>16. CASE CloseArgs
  <2>1. closed + 1 \in DOMAIN calls
    BY <1>0, <1>16 DEF CloseArgs
  <2>2. OfCall("args.done", calls[closed + 1], calls[closed + 1].args) \in Event
    BY <1>a, <1>b, <2>1, CallType, AboutType DEF OfCall
  <2>8. TypeOK'
    BY <1>0, <1>16, <2>2 DEF CloseArgs, Yield, TypeOK, graph, items
  <2>9. Control'
    BY <1>0, <1>16 DEF CloseArgs, Control, items, Spent
  <2> QED
    BY <2>8, <2>9
<1>17. CASE CloseCall
  <2>1. closed + 1 \in DOMAIN calls
    BY <1>0, <1>17 DEF CloseCall, Control
  <2>2. log' \in Seq(Event) /\ output' \in Seq(OutputItem)
    BY <1>17, <1>a, <1>b, <2>1, CallType, CompletesType DEF CloseCall, OfCall
  <2>8. TypeOK'
    BY <1>0, <1>17, <2>1, <2>2 DEF CloseCall, TypeOK, graph
  <2>9. Control'
    BY <1>0, <1>17 DEF CloseCall, Control, Spent
  <2> QED
    BY <2>8, <2>9
<1>18. CASE ClearCalls
  BY <1>0, <1>b, <1>18 DEF ClearCalls, TypeOK, Control, graph, Spent
<1>19. CASE ToolStart
  <2> DEFINE r == toolRuns + 1
             e == About("item.added", NewEntry.item, NewEntry.idx, -r, <<>>)
  <2>1. NewEntry \in ToolState /\ NewEntry.item \in Item /\ NewEntry.idx \in Nat
    BY <1>0, <1>b DEF NewEntry, ToolState
  <2>2. e \in Event
    <3>1. -r \in Int \cup {None} /\ NewEntry.idx \in Int \cup {None}
      BY <1>0, <2>1
    <3> HIDE DEF r
    <3> QED
      BY <1>a, <1>b, <2>1, <3>1, AboutType
  <2>3. /\ toolRuns' = r /\ running' = running \cup {r}
        /\ tools' = [s \in DOMAIN tools \cup {r} |-> IF s = r THEN NewEntry ELSE tools[s]]
        /\ log' = Append(log, e) /\ pc = "stream" /\ pc' = "stream"
        /\ made' = made + 1 /\ nextIndex' = nextIndex + 1
        /\ UNCHANGED <<runs, open, source, fed, cur, current, calls, closed, output, sink>>
    BY <1>19 DEF ToolStart, Yield, Waiting
  <2> HIDE DEF e
  <2>4. log' \in Seq(Event)
    BY <1>0, <2>2, <2>3, AppendProperties
  <2>5. /\ DOMAIN tools' \subseteq 1 .. toolRuns'
        /\ \A x \in DOMAIN tools' : tools'[x] \in ToolState
    BY <1>0, <2>1, <2>3
  <2>5a. running' \subseteq 1 .. toolRuns'
    BY <1>0, <2>3
  <2>6. /\ made' \in Nat /\ nextIndex' \in Nat /\ toolRuns' \in Nat /\ pc' = "stream"
        /\ UNCHANGED <<runs, open, source, fed, cur, current, calls, closed, output, sink>>
    BY <1>0, <1>19 DEF ToolStart, Waiting
  <2>8. TypeOK'
    BY <1>0, <2>4, <2>5, <2>5a, <2>6 DEF TypeOK
  <2>9. Control'
    BY <1>0, <1>c, <2>3 DEF Control
  <2> QED
    BY <2>8, <2>9
<1>20. ASSUME NEW r \in MayEnd, NEW named \in BOOLEAN, ToolEnd(r, named) PROVE TypeInv'
  <2>1. ToolEntry(r).item \in Item /\ ToolEntry(r).idx \in Nat
    BY <1>0, <1>b DEF ToolEntry, NewEntry
  <2>2. r \in Int /\ (r \in running \/ r = toolRuns + 1)
    BY <1>0, <1>20 DEF MayEnd
  <2>3. log' \in Seq(Event) /\ output' \in Seq(OutputItem)
    <3> DEFINE call == IF named THEN r ELSE -r
               x == ToolEntry(r)
    <3>1. call \in Int \cup {None} /\ x.item \in Item /\ x.idx \in Int
      BY <2>1, <2>2
    <3>2. Completes(About("item.done", x.item, x.idx, call, <<>>))
      BY <1>20 DEF ToolEnd
    <3> HIDE DEF call, x
    <3> QED
      BY <1>a, <1>b, <3>1, <3>2, CompletesType
  <2>4. running' \subseteq 1 .. toolRuns' /\ toolRuns' \in Nat
    BY <1>0, <1>20, <2>2 DEF ToolEnd
  <2>5. /\ DOMAIN tools' \subseteq 1 .. toolRuns'
        /\ \A x \in DOMAIN tools' : tools'[x] \in ToolState
    BY <1>0, <1>20, <2>2 DEF ToolEnd, Restrict
  <2>6. made' \in Nat /\ nextIndex' \in Nat
    BY <1>0, <1>20 DEF ToolEnd
  <2>7. /\ pc = "stream" /\ pc' = "stream"
        /\ UNCHANGED <<runs, open, source, fed, cur, current, calls, closed, sink>>
    BY <1>20 DEF ToolEnd, Waiting
  <2>8. TypeOK'
    BY <1>0, <2>3, <2>4, <2>5, <2>6, <2>7 DEF TypeOK
  <2>9. Control'
    BY <1>0, <1>c, <1>20, <2>7 DEF ToolEnd, Control
  <2> QED
    BY <2>8, <2>9
<1>21. ASSUME NEW r \in running, ToolError(r) PROVE TypeInv'
  <2>1. running' \subseteq 1 .. toolRuns
    BY <1>0, <1>21 DEF ToolError
  <2>8. TypeOK'
    BY <1>0, <1>21, <2>1 DEF ToolError, TypeOK, items
  <2>9. Control'
    BY <1>21 DEF ToolError, Control, items, Opened, Spent
  <2> QED
    BY <2>8, <2>9
<1>22. CASE Complete
  <2>1. log' \in Seq(Event)
    BY <1>0, <1>22, <1>a, LastType, AppendProperties DEF Complete, Yield
  <2>8. TypeOK'
    BY <1>0, <1>22, <2>1 DEF Complete, TypeOK, graph, items
  <2>9. Control'
    BY <1>0, <1>22 DEF Complete, Control, items
  <2> QED
    BY <2>8, <2>9
<1>23. CASE GraphRaises
  <2>1. log' \in Seq(Event)
    BY <1>0, <1>23, <1>a, LastType, AppendProperties DEF GraphRaises, Yield
  <2>8. TypeOK'
    BY <1>0, <1>23, <2>1 DEF GraphRaises, TypeOK, graph, items
  <2>9. Control'
    BY <1>0, <1>23 DEF GraphRaises, Control, items
  <2> QED
    BY <2>8, <2>9
<1>24. CASE Disconnect
  BY <1>0, <1>24 DEF Disconnect, TypeOK, Control, graph, items
<1>25. CASE UNCHANGED vars
  BY <1>0, <1>25 DEF vars, TypeOK, Control, graph, items, Spent, Opened
<1> QED
  BY <1>1, <1>2, <1>3, <1>4, <1>5, <1>6, <1>7, <1>8, <1>9, <1>10, <1>11, <1>12, <1>13,
     <1>14, <1>15, <1>16, <1>17, <1>18, <1>19, <1>20, <1>21, <1>22, <1>23, <1>24, <1>25
     DEF Next, Emit

\* The emitter's variables always have their types, whatever overlaps and fails: no
\* chunk, end of a run or end of a tool finds the message or the call it speaks of
\* missing.
THEOREM EventsTypeCorrect == Spec => []TypeOK
<1>1. Spec => []TypeInv
  BY TypeInit, TypeStep, PTL DEF Spec
<1> QED
  BY <1>1, PTL DEF TypeInv

-----------------------------------------------------------------------------
(* Output indices.                                                         *)

\* The events that place an item in the response.
Placing == {"item.added", "item.done"}

\* The items that are open, each with the index it is kept under.
Held ==
  {<<calls[n].item, calls[n].idx>> : n \in DOMAIN calls}
    \cup {<<tools[r].item, tools[r].idx>> : r \in DOMAIN tools}
    \cup (IF Opened THEN {<<current.item, current.idx>>} ELSE {})

\* Items and indices are handed out in order, so the next ones are unused.
Numbered ==
  \A i \in DOMAIN log : log[i].type \in Placing =>
    /\ log[i].item \in Item /\ log[i].item[2] <= made
    /\ log[i].idx \in Nat /\ log[i].idx < nextIndex

\* What is open has been announced, at the index it is kept under.
HeldAnnounced ==
  \A h \in Held : \E i \in DOMAIN log :
    log[i].type = "item.added" /\ log[i].item = h[1] /\ log[i].idx = h[2]

IndexInv == Numbered /\ HeldAnnounced /\ IndexUnique

\* What a longer log is made of.
LEMMA LogGrows ==
  ASSUME NEW l \in Seq(Event), NEW e
  PROVE  /\ Len(l) \in Nat /\ DOMAIN l = 1 .. Len(l)
         /\ Len(Append(l, e)) = Len(l) + 1
         /\ DOMAIN Append(l, e) = DOMAIN l \cup {Len(l) + 1}
         /\ Append(l, e)[Len(l) + 1] = e
         /\ \A i \in DOMAIN l : Append(l, e)[i] = l[i]
<1>1. /\ Len(l) \in Nat /\ DOMAIN l = 1 .. Len(l)
      /\ Len(Append(l, e)) = Len(l) + 1
      /\ DOMAIN Append(l, e) = 1 .. (Len(l) + 1)
      /\ Append(l, e)[Len(l) + 1] = e
      /\ \A i \in DOMAIN l : Append(l, e)[i] = l[i]
  OBVIOUS
<1> QED
  BY <1>1

\* A step that places nothing and opens nothing.
LEMMA NothingPlaced ==
  ASSUME TypeOK, IndexInv, made' \in Nat, made <= made', nextIndex' = nextIndex,
         Held' \subseteq Held,
         log' = log \/ \E e : log' = Append(log, e) /\ e.type \notin Placing
  PROVE  IndexInv'
<1>1. log \in Seq(Event) /\ made \in Nat
  BY DEF TypeOK
<1>2. /\ \A i \in DOMAIN log' : \/ i \in DOMAIN log /\ log'[i] = log[i]
                                \/ log'[i].type \notin Placing
      /\ \A i \in DOMAIN log : i \in DOMAIN log' /\ log'[i] = log[i]
  BY <1>1, LogGrows
<1>3. \A n \in Nat : n <= made => n <= made'
  BY <1>1
<1>4. \A i \in DOMAIN log : log[i].type \in Placing => log[i].item[2] \in Nat
  BY DEF IndexInv, Numbered, Item
<1>5. Numbered'
  BY <1>1, <1>2, <1>3, <1>4 DEF IndexInv, Numbered
<1>6. HeldAnnounced'
  BY <1>2 DEF IndexInv, HeldAnnounced
<1>7. IndexUnique'
  BY <1>2 DEF IndexInv, IndexUnique, Placing
<1> QED
  BY <1>5, <1>6, <1>7 DEF IndexInv

\* A step that places an item at the next index.
LEMMA NewPlaced ==
  ASSUME TypeOK, IndexInv, made' \in Nat, made <= made', nextIndex' = nextIndex + 1,
         NEW e, log' = Append(log, e), e.type \in Placing,
         e.item \in Item, e.item[2] <= made', e.idx = nextIndex,
         Held' \subseteq Held \cup (IF e.type = "item.added" THEN {<<e.item, e.idx>>} ELSE {})
  PROVE  IndexInv'
<1>1. log \in Seq(Event) /\ made \in Nat /\ nextIndex \in Nat
  BY DEF TypeOK
<1> DEFINE last == Len(log) + 1
<1>2. /\ DOMAIN log' = DOMAIN log \cup {last} /\ log'[last] = e
      /\ \A i \in DOMAIN log : log'[i] = log[i]
  BY <1>1, LogGrows
<1> HIDE DEF last
<1>3. \A n \in Nat : (n <= made => n <= made') /\ (n < nextIndex => n < nextIndex')
  BY <1>1
<1>4. \A i \in DOMAIN log : log[i].type \in Placing =>
        /\ log[i].item[2] \in Nat /\ log[i].idx \in Nat /\ log[i].idx < nextIndex
        /\ log[i].idx # nextIndex
  BY <1>1 DEF IndexInv, Numbered, Item
<1>5. Numbered'
  <2>1. e.idx \in Nat /\ e.idx < nextIndex'
    BY <1>1
  <2> QED
    BY <1>1, <1>2, <1>3, <1>4, <2>1 DEF IndexInv, Numbered
<1>6. HeldAnnounced'
  BY <1>2 DEF IndexInv, HeldAnnounced
<1>7. IndexUnique'
  BY <1>2, <1>4 DEF IndexInv, IndexUnique, Placing
<1> QED
  BY <1>5, <1>6, <1>7 DEF IndexInv

\* A step that reports an open item done.
LEMMA HeldPlaced ==
  ASSUME TypeOK, IndexInv, made' \in Nat, made <= made', nextIndex' = nextIndex,
         NEW e, log' = Append(log, e), e.type = "item.done",
         <<e.item, e.idx>> \in Held, Held' \subseteq Held
  PROVE  IndexInv'
<1>1. log \in Seq(Event) /\ made \in Nat
  BY DEF TypeOK
<1> DEFINE last == Len(log) + 1
<1>2. /\ DOMAIN log' = DOMAIN log \cup {last} /\ log'[last] = e
      /\ \A i \in DOMAIN log : log'[i] = log[i]
  BY <1>1, LogGrows
<1> HIDE DEF last
<1>3. \A n \in Nat : n <= made => n <= made'
  BY <1>1
<1>4. \A i \in DOMAIN log : log[i].type \in Placing => log[i].item[2] \in Nat
  BY DEF IndexInv, Numbered, Item
<1>5. PICK k \in DOMAIN log :
        log[k].type = "item.added" /\ log[k].item = e.item /\ log[k].idx = e.idx
  BY DEF IndexInv, HeldAnnounced
<1>6. Numbered'
  BY <1>1, <1>2, <1>3, <1>4, <1>5 DEF IndexInv, Numbered, Placing
<1>7. HeldAnnounced'
  BY <1>2, SMTT(30) DEF IndexInv, HeldAnnounced
<1>8. IndexUnique'
  BY <1>2, <1>5 DEF IndexInv, IndexUnique
<1> QED
  BY <1>6, <1>7, <1>8 DEF IndexInv

LEMMA IndexInit == Init => IndexInv
<1> SUFFICES ASSUME Init PROVE IndexInv
  OBVIOUS
<1>1. Held = {} /\ log = <<>>
  BY DEF Init, Held, Opened
<1> QED
  BY <1>1 DEF IndexInv, Numbered, HeldAnnounced, IndexUnique

LEMMA IndexStep == TypeInv /\ IndexInv /\ [Next]_vars => IndexInv'
<1> SUFFICES ASSUME TypeInv, IndexInv, [Next]_vars PROVE IndexInv'
  OBVIOUS
<1>0. /\ TypeOK /\ Control /\ made \in Nat /\ nextIndex \in Nat
      /\ made' \in Nat /\ made <= made
      /\ calls \in Seq(CallState) /\ Len(calls) \in Nat /\ DOMAIN calls = 1 .. Len(calls)
      /\ made + 1 \in Nat /\ made <= made + 1
      /\ \A p \in {"msg", "fc", "fco"} : <<p, made + 1>> \in Item
  <2>1. TypeOK /\ TypeOK' /\ Control
    BY TypeStep DEF TypeInv
  <2>2. made \in Nat /\ nextIndex \in Nat /\ made' \in Nat /\ calls \in Seq(CallState)
    BY <2>1 DEF TypeOK
  <2> QED
    BY <2>1, <2>2 DEF Item
<1>1. CASE Created
  <2>1. Plain("created").type \notin Placing
    BY DEF Plain, About, Placing
  <2>2. Held' = Held
    BY <1>1 DEF Created, items, Held, Opened
  <2> QED
    BY <1>0, <1>1, <2>1, <2>2, NothingPlaced DEF Created, Yield, items
<1>2. CASE InProgress
  <2>1. Plain("in_progress").type \notin Placing
    BY DEF Plain, About, Placing
  <2>2. Held' = Held
    BY <1>2 DEF InProgress, items, Held, Opened
  <2> QED
    BY <1>0, <1>2, <2>1, <2>2, NothingPlaced DEF InProgress, Yield, items
<1>3. CASE ModelStart
  <2>1. ~Opened'
    BY <1>3 DEF ModelStart, Opened
  <2>2. Held' \subseteq Held
    BY <1>3, <2>1 DEF ModelStart, Held
  <2> QED
    BY <1>0, <1>3, <2>2, NothingPlaced DEF ModelStart
<1>4. ASSUME NEW r \in open, NEW k \in Chunks, ModelStream(r, k) PROVE IndexInv'
  <2>1. Held' = Held
    BY <1>4 DEF ModelStream, Held, Opened
  <2> QED
    BY <1>0, <1>4, <2>1, NothingPlaced DEF ModelStream
<1>5. CASE EmitReasoning
  <2>1. PICK e : log' = Append(log, e) /\ e.type \notin Placing
    BY <1>5 DEF EmitReasoning, Yield, About, Placing
  <2>2. Held' = Held
    BY <1>5 DEF EmitReasoning, Held, Opened
  <2> QED
    BY <1>0, <1>5, <2>1, <2>2, NothingPlaced DEF EmitReasoning
<1>6. CASE OpenMessage
  <2> DEFINE e == About("item.added", current.item, nextIndex, None, <<>>)
  <2>1. current # None /\ current.item \in Item
    BY <1>0, <1>6, CurrentType DEF OpenMessage, Control
  <2>2. /\ e.type = "item.added" /\ e.type \in Placing
        /\ e.item = current.item /\ e.idx = nextIndex
    BY DEF About, Placing
  <2>3. log' = Append(log, e)
    BY <1>6 DEF OpenMessage, Yield
  <2>4. current'.item = current.item /\ current'.idx = nextIndex
    BY <1>0, <1>6, <2>1, CurrentStepType DEF OpenMessage
  <2> HIDE DEF e
  <2>5. Held' \subseteq Held \cup {<<e.item, e.idx>>}
    BY <1>6, <2>2, <2>4 DEF OpenMessage, Held
  <2>6. e.item[2] <= made'
    BY <1>0, <1>6, <2>1, <2>2 DEF OpenMessage, Control
  <2> QED
    BY <1>0, <1>6, <2>1, <2>2, <2>3, <2>5, <2>6, NewPlaced DEF OpenMessage
<1>7. CASE AddPart
  <2>1. OfMessage("part.added", <<>>).type \notin Placing
    BY DEF OfMessage, About, Placing
  <2>2. Held' = Held
    BY <1>7 DEF AddPart, items, Held, Opened
  <2> QED
    BY <1>0, <1>7, <2>1, <2>2, NothingPlaced DEF AddPart, Yield, items
<1>8. CASE EmitText
  <2>1. OfMessage("text.delta", <<cur.text>>).type \notin Placing
    BY DEF OfMessage, About, Placing
  <2>2. current # None
    BY <1>0, <1>8 DEF EmitText, Control
  <2>3. current'.item = current.item /\ current'.idx = current.idx
    BY <1>0, <1>8, <2>2, CurrentStepType, TakeOutType DEF EmitText
  <2>4. Held' \subseteq Held
    BY <1>8, <2>2, <2>3 DEF EmitText, Held, Opened
  <2> QED
    BY <1>0, <1>8, <2>1, <2>4, NothingPlaced DEF EmitText, Yield
<1>9. CASE StartCall
  <2> DEFINE f == Head(cur.frags)
             c == [item |-> <<"fc", made + 1>>, key |-> OwnKey(f), idx |-> nextIndex,
                   call |-> IdOf(f, -(made + 1)), args |-> <<>>]
             e == OfCall("item.added", c, <<>>)
  <2>1. /\ e.type = "item.added" /\ e.type \in Placing
        /\ e.item = <<"fc", made + 1>> /\ e.idx = nextIndex
        /\ c.item = <<"fc", made + 1>> /\ c.idx = nextIndex
    BY DEF OfCall, About, Placing
  <2>2. calls' = Append(calls, c) /\ log' = Append(log, e)
    BY <1>9 DEF StartCall, Yield
  <2>3. made' = made + 1 /\ nextIndex' = nextIndex + 1 /\ UNCHANGED <<current, tools>>
    BY <1>9 DEF StartCall
  <2> HIDE DEF f, c, e
  <2>4. /\ DOMAIN calls' = DOMAIN calls \cup {Len(calls) + 1} /\ calls'[Len(calls) + 1] = c
        /\ \A n \in DOMAIN calls : calls'[n] = calls[n]
    <3>1. /\ DOMAIN Append(calls, c) = 1 .. (Len(calls) + 1)
          /\ Append(calls, c)[Len(calls) + 1] = c
          /\ \A n \in DOMAIN calls : Append(calls, c)[n] = calls[n]
      BY <1>0
    <3> QED
      BY <1>0, <2>2, <3>1
  <2>5. Held' \subseteq Held \cup {<<e.item, e.idx>>}
    BY <2>1, <2>3, <2>4 DEF Held, Opened
  <2>6. e.item \in Item /\ e.item[2] <= made'
    BY <1>0, <2>1, <2>3
  <2> QED
    BY <1>0, <2>1, <2>2, <2>3, <2>5, <2>6, NewPlaced
<1>10. CASE EmitArgs
  <2>1. PICK e : log' = Append(log, e) /\ e.type \notin Placing
    BY <1>10 DEF EmitArgs, Yield, ArgsDelta, About, Placing
  <2>2. DOMAIN calls' = DOMAIN calls
        /\ \A n \in DOMAIN calls : calls'[n].item = calls[n].item /\ calls'[n].idx = calls[n].idx
    BY <1>0, <1>10, FragmentCalls
  <2>3. Held' = Held
    BY <1>10, <2>2 DEF EmitArgs, Held, Opened
  <2> QED
    BY <1>0, <1>10, <2>1, <2>3, NothingPlaced DEF EmitArgs
<1>11. ASSUME NEW n \in DOMAIN calls, ContinueCall(n) PROVE IndexInv'
  <2>1. log' = log \/ \E e : log' = Append(log, e) /\ e.type \notin Placing
    BY <1>11 DEF ContinueCall, Yield, ArgsDelta, About, Placing
  <2>2. DOMAIN calls' = DOMAIN calls
        /\ \A m \in DOMAIN calls : calls'[m].item = calls[m].item /\ calls'[m].idx = calls[m].idx
    BY <1>0, <1>11, FragmentCalls
  <2>3. Held' = Held
    BY <1>11, <2>2 DEF ContinueCall, Held, Opened
  <2> QED
    BY <1>0, <1>11, <2>1, <2>3, NothingPlaced DEF ContinueCall
<1>12. ASSUME NEW r \in open, ModelEndWithText(r) PROVE IndexInv'
  <2>1. OfMessage("text.done", current.text).type \notin Placing
    BY DEF OfMessage, About, Placing
  <2>2. Held' = Held
    BY <1>12 DEF ModelEndWithText, items, Held, Opened
  <2> QED
    BY <1>0, <1>12, <2>1, <2>2, NothingPlaced DEF ModelEndWithText, Yield, items
<1>13. ASSUME NEW r \in open, ModelEndWithoutText(r) PROVE IndexInv'
  <2>1. Held' \subseteq Held
    BY <1>13 DEF ModelEndWithoutText, Held, Opened
  <2> QED
    BY <1>0, <1>13, <2>1, NothingPlaced DEF ModelEndWithoutText
<1>14. CASE ClosePart
  <2>1. OfMessage("part.done", current.text).type \notin Placing
    BY DEF OfMessage, About, Placing
  <2>2. Held' = Held
    BY <1>14 DEF ClosePart, items, Held, Opened
  <2> QED
    BY <1>0, <1>14, <2>1, <2>2, NothingPlaced DEF ClosePart, Yield, items
<1>15. CASE CloseMessage
  <2> DEFINE e == OfMessage("item.done", current.text)
  <2>1. e.type = "item.done" /\ e.item = current.item /\ e.idx = current.idx
    BY DEF OfMessage, About
  <2>2. log' = Append(log, e)
    BY <1>15 DEF CloseMessage, Completes, Yield
  <2>3. <<e.item, e.idx>> \in Held
    BY <1>0, <1>15, <2>1 DEF CloseMessage, Control, Held
  <2>4. Held' \subseteq Held
    BY <1>15 DEF CloseMessage, Held, Opened
  <2> HIDE DEF e
  <2> QED
    BY <1>0, <1>15, <2>1, <2>2, <2>3, <2>4, HeldPlaced DEF CloseMessage
<1>16. CASE CloseArgs
  <2>1. PICK e : log' = Append(log, e) /\ e.type \notin Placing
    BY <1>16 DEF CloseArgs, Yield, OfCall, About, Placing
  <2>2. Held' = Held
    BY <1>16 DEF CloseArgs, items, Held, Opened
  <2> QED
    BY <1>0, <1>16, <2>1, <2>2, NothingPlaced DEF CloseArgs, items
<1>17. CASE CloseCall
  <2> DEFINE n == closed + 1
             e == OfCall("item.done", calls[n], calls[n].args)
  <2>0. n \in DOMAIN calls
    BY <1>0, <1>17 DEF CloseCall, Control, TypeOK
  <2>1. e.type = "item.done" /\ e.item = calls[n].item /\ e.idx = calls[n].idx
    BY DEF OfCall, About
  <2>2. log' = Append(log, e)
    BY <1>17 DEF CloseCall, Completes, Yield
  <2> HIDE DEF e, n
  <2>3. <<e.item, e.idx>> \in Held
    BY <2>0, <2>1 DEF Held
  <2>4. Held' = Held
    BY <1>17 DEF CloseCall, Held, Opened
  <2> QED
    BY <1>0, <1>17, <2>1, <2>2, <2>3, <2>4, HeldPlaced DEF CloseCall
<1>18. CASE ClearCalls
  <2>1. Held' \subseteq Held
    BY <1>18 DEF ClearCalls, Held, Opened
  <2> QED
    BY <1>0, <1>18, <2>1, NothingPlaced DEF ClearCalls
<1>19. CASE ToolStart
  <2> DEFINE r == toolRuns + 1
             e == About("item.added", NewEntry.item, NewEntry.idx, -r, <<>>)
  <2>1. /\ e.type = "item.added" /\ e.type \in Placing
        /\ e.item = <<"fco", made + 1>> /\ e.idx = nextIndex
    BY DEF About, NewEntry, Placing
  <2>2. log' = Append(log, e)
    BY <1>19 DEF ToolStart, Yield
  <2>3. /\ tools' = [s \in DOMAIN tools \cup {r} |-> IF s = r THEN NewEntry ELSE tools[s]]
        /\ made' = made + 1 /\ nextIndex' = nextIndex + 1 /\ UNCHANGED <<current, calls>>
    BY <1>19 DEF ToolStart
  <2>4. NewEntry.item = e.item /\ NewEntry.idx = e.idx
    BY <2>1 DEF NewEntry
  <2> HIDE DEF e, r
  <2>5. Held' \subseteq Held \cup {<<e.item, e.idx>>}
    BY <2>3, <2>4 DEF Held, Opened
  <2>6. e.item \in Item /\ e.item[2] <= made'
    BY <1>0, <2>1, <2>3
  <2> QED
    BY <1>0, <2>1, <2>2, <2>3, <2>5, <2>6, NewPlaced
<1>20. ASSUME NEW r \in MayEnd, NEW named \in BOOLEAN, ToolEnd(r, named) PROVE IndexInv'
  <2> DEFINE e == About("item.done", ToolEntry(r).item, ToolEntry(r).idx,
                        IF named THEN r ELSE -r, <<>>)
  <2>1. e.type = "item.done" /\ e.item = ToolEntry(r).item /\ e.idx = ToolEntry(r).idx
    BY DEF About
  <2>2. log' = Append(log, e)
    BY <1>20 DEF ToolEnd, Completes, Yield
  <2>3. Held' \subseteq Held
    BY <1>20 DEF ToolEnd, Restrict, Held, Opened
  <2> HIDE DEF e
  <2>4. CASE r \in DOMAIN tools
    <3>1. <<e.item, e.idx>> \in Held
      BY <2>1, <2>4 DEF ToolEntry, Held
    <3>2. made' = made /\ nextIndex' = nextIndex
      BY <1>20, <2>4 DEF ToolEnd
    <3> QED
      BY <1>0, <2>1, <2>2, <2>3, <3>1, <3>2, HeldPlaced
  <2>5. CASE r \notin DOMAIN tools
    <3>1. e.item = <<"fco", made + 1>> /\ e.idx = nextIndex
      BY <2>1, <2>5 DEF ToolEntry, NewEntry
    <3>2. made' = made + 1 /\ nextIndex' = nextIndex + 1
      BY <1>20, <2>5 DEF ToolEnd
    <3>3. e.item \in Item /\ e.item[2] <= made' /\ e.type \in Placing
      BY <1>0, <2>1, <3>1, <3>2 DEF Placing
    <3> QED
      BY <1>0, <2>2, <2>3, <3>1, <3>2, <3>3, NewPlaced
  <2> QED
    BY <2>4, <2>5
<1>21. ASSUME NEW r \in running, ToolError(r) PROVE IndexInv'
  <2>1. Held' = Held
    BY <1>21 DEF ToolError, items, Held, Opened
  <2> QED
    BY <1>0, <1>21, <2>1, NothingPlaced DEF ToolError, items
<1>22. CASE Complete
  <2>1. [Plain("completed") EXCEPT !.output = output].type \notin Placing
    BY DEF Plain, About, Placing
  <2>2. Held' = Held
    BY <1>22 DEF Complete, items, Held, Opened
  <2> QED
    BY <1>0, <1>22, <2>1, <2>2, NothingPlaced DEF Complete, Yield, items
<1>23. CASE GraphRaises
  <2>1. [Plain("failed") EXCEPT !.output = output].type \notin Placing
    BY DEF Plain, About, Placing
  <2>2. Held' = Held
    BY <1>23 DEF GraphRaises, items, Held, Opened
  <2> QED
    BY <1>0, <1>23, <2>1, <2>2, NothingPlaced DEF GraphRaises, Yield, items
<1>24. CASE Disconnect
  <2>1. Held' = Held
    BY <1>24 DEF Disconnect, items, Held, Opened
  <2> QED
    BY <1>0, <1>24, <2>1, NothingPlaced DEF Disconnect, items
<1>25. CASE UNCHANGED vars
  <2>1. Held' = Held
    BY <1>25 DEF vars, items, Held, Opened
  <2> QED
    BY <1>0, <1>25, <2>1, NothingPlaced DEF vars, items
<1> QED
  BY <1>1, <1>2, <1>3, <1>4, <1>5, <1>6, <1>7, <1>8, <1>9, <1>10, <1>11, <1>12, <1>13,
     <1>14, <1>15, <1>16, <1>17, <1>18, <1>19, <1>20, <1>21, <1>22, <1>23, <1>24, <1>25
     DEF Next, Emit

\* No output index is ever given to two items, however model runs and tools overlap
\* and whatever goes wrong with tools.
THEOREM IndicesUnique == Spec => []IndexUnique
<1>1. Init => TypeInv /\ IndexInv
  BY TypeInit, IndexInit
<1>2. TypeInv /\ IndexInv /\ [Next]_vars => TypeInv' /\ IndexInv'
  BY TypeStep, IndexStep
<1>3. IndexInv => IndexUnique
  BY DEF IndexInv
<1> QED
  BY <1>1, <1>2, <1>3, PTL DEF Spec

-----------------------------------------------------------------------------
(* The outputs of tools.                                                   *)

\* The kind of an item tells which table keeps it.
Kinds ==
  /\ current # None => current.item[1] = "msg"
  /\ \A n \in DOMAIN calls : calls[n].item[1] = "fc"
  /\ \A r \in DOMAIN tools : tools[r].item[1] = "fco"

\* An open output was announced for the tool run it is kept under, and for no other.
ToolsKept ==
  \A r \in DOMAIN tools : \A i \in DOMAIN log :
    (log[i].type = "item.added" /\ log[i].item = tools[r].item) => log[i].call = -r

OutputInv == Kinds /\ ToolsKept /\ OutputsMatched

\* A step that says nothing of a tool's output.
LEMMA OutputsLeft ==
  ASSUME TypeOK, OutputInv, Kinds', tools' = tools,
         log' = log \/ \E e : /\ log' = Append(log, e)
                              /\ e.type \in Placing => e.item[1] # "fco"
  PROVE  OutputInv'
<1>1. log \in Seq(Event)
  BY DEF TypeOK
<1>2. /\ \A i \in DOMAIN log' : \/ i \in DOMAIN log /\ log'[i] = log[i]
                                \/ log'[i].type \in Placing => log'[i].item[1] # "fco"
      /\ \A i \in DOMAIN log : i \in DOMAIN log' /\ log'[i] = log[i]
  BY <1>1, LogGrows
<1>3. ToolsKept'
  BY <1>2 DEF OutputInv, Kinds, ToolsKept, Placing
<1>4. OutputsMatched'
  BY <1>2 DEF OutputInv, OutputsMatched, Placing
<1> QED
  BY <1>3, <1>4 DEF OutputInv

\* An open item has a number that has been handed out; the next item is not open.
LEMMA HeldNumbered ==
  ASSUME TypeOK, IndexInv
  PROVE  /\ \A r \in DOMAIN tools : tools[r].item # <<"fco", made + 1>>
         /\ \A i \in DOMAIN log : log[i].type \in Placing => log[i].item # <<"fco", made + 1>>
<1>1. made \in Nat
  BY DEF TypeOK
<1>2. \A n \in Nat : n <= made => n # made + 1
  BY <1>1
<1>3. \A i \in DOMAIN log : log[i].type \in Placing => log[i].item # <<"fco", made + 1>>
  BY <1>2 DEF IndexInv, Numbered, Item
<1>4. \A r \in DOMAIN tools : <<tools[r].item, tools[r].idx>> \in Held
  BY DEF Held
<1>5. \A r \in DOMAIN tools : tools[r].item # <<"fco", made + 1>>
  BY <1>3, <1>4 DEF IndexInv, HeldAnnounced, Placing
<1> QED
  BY <1>3, <1>5

LEMMA OutputInit == Init => OutputInv
  BY DEF Init, OutputInv, Kinds, ToolsKept, OutputsMatched

LEMMA OutputStep == TypeInv /\ IndexInv /\ OutputInv /\ [Next]_vars => OutputInv'
<1> SUFFICES ASSUME TypeInv, IndexInv, OutputInv, [Next]_vars PROVE OutputInv'
  OBVIOUS
<1>0. /\ TypeOK /\ Control /\ Kinds
      /\ calls \in Seq(CallState) /\ Len(calls) \in Nat /\ DOMAIN calls = 1 .. Len(calls)
  BY DEF TypeInv, TypeOK, OutputInv
<1>1. CASE Created
  <2>1. Plain("created").type \notin Placing
    BY DEF Plain, About, Placing
  <2> QED
    BY <1>0, <1>1, <2>1, OutputsLeft DEF Created, Yield, items, Kinds
<1>2. CASE InProgress
  <2>1. Plain("in_progress").type \notin Placing
    BY DEF Plain, About, Placing
  <2> QED
    BY <1>0, <1>2, <2>1, OutputsLeft DEF InProgress, Yield, items, Kinds
<1>3. CASE ModelStart
  <2>1. current'.item[1] = "msg"
    BY <1>3 DEF ModelStart
  <2> QED
    BY <1>0, <1>3, <2>1, OutputsLeft DEF ModelStart, Kinds
<1>4. ASSUME NEW r \in open, NEW k \in Chunks, ModelStream(r, k) PROVE OutputInv'
  BY <1>0, <1>4, OutputsLeft DEF ModelStream, Kinds
<1>5. CASE EmitReasoning
  <2>1. PICK e : log' = Append(log, e) /\ e.type \notin Placing
    BY <1>5 DEF EmitReasoning, Yield, About, Placing
  <2> QED
    BY <1>0, <1>5, <2>1, OutputsLeft DEF EmitReasoning, Kinds
<1>6. CASE OpenMessage
  <2>1. current # None
    BY <1>0, <1>6 DEF OpenMessage, Control
  <2>2. current'.item = current.item
    BY <1>0, <1>6, <2>1, CurrentStepType DEF OpenMessage, TypeOK
  <2>3. About("item.added", current.item, nextIndex, None, <<>>).item = current.item
    BY DEF About
  <2> QED
    BY <1>0, <1>6, <2>1, <2>2, <2>3, OutputsLeft DEF OpenMessage, Yield, Kinds
<1>7. CASE AddPart
  <2>1. OfMessage("part.added", <<>>).type \notin Placing
    BY DEF OfMessage, About, Placing
  <2> QED
    BY <1>0, <1>7, <2>1, OutputsLeft DEF AddPart, Yield, items, Kinds
<1>8. CASE EmitText
  <2>1. OfMessage("text.delta", <<cur.text>>).type \notin Placing
    BY DEF OfMessage, About, Placing
  <2>2. current # None
    BY <1>0, <1>8 DEF EmitText, Control
  <2>3. current'.item = current.item
    BY <1>0, <1>8, <2>2, CurrentStepType, TakeOutType DEF EmitText
  <2> QED
    BY <1>0, <1>8, <2>1, <2>2, <2>3, OutputsLeft DEF EmitText, Yield, Kinds
<1>9. CASE StartCall
  <2> DEFINE f == Head(cur.frags)
             c == [item |-> <<"fc", made + 1>>, key |-> OwnKey(f), idx |-> nextIndex,
                   call |-> IdOf(f, -(made + 1)), args |-> <<>>]
             e == OfCall("item.added", c, <<>>)
  <2>1. e.item = <<"fc", made + 1>> /\ c.item = <<"fc", made + 1>>
    BY DEF OfCall, About
  <2>2. calls' = Append(calls, c) /\ log' = Append(log, e)
    BY <1>9 DEF StartCall, Yield
  <2>3. UNCHANGED <<current, tools>>
    BY <1>9 DEF StartCall
  <2> HIDE DEF f, c, e
  <2>4. \A n \in DOMAIN calls' : calls'[n].item[1] = "fc"
    <3>1. \A n \in DOMAIN Append(calls, c) :
            (n \in DOMAIN calls /\ Append(calls, c)[n] = calls[n]) \/ Append(calls, c)[n] = c
      BY <1>0
    <3> QED
      BY <1>0, <2>1, <2>2, <3>1 DEF Kinds
  <2>5. Kinds'
    BY <1>0, <2>3, <2>4 DEF Kinds
  <2>6. e.item[1] # "fco"
    BY <2>1
  <2> QED
    BY <1>0, <2>2, <2>3, <2>5, <2>6, OutputsLeft
<1>10. CASE EmitArgs
  <2>1. PICK e : log' = Append(log, e) /\ e.type \notin Placing
    BY <1>10 DEF EmitArgs, Yield, ArgsDelta, About, Placing
  <2>2. Kinds'
    BY <1>0, <1>10, FragmentCalls DEF EmitArgs, Kinds
  <2> QED
    BY <1>0, <1>10, <2>1, <2>2, OutputsLeft DEF EmitArgs
<1>11. ASSUME NEW n \in DOMAIN calls, ContinueCall(n) PROVE OutputInv'
  <2>1. log' = log \/ \E e : log' = Append(log, e) /\ e.type \notin Placing
    BY <1>11 DEF ContinueCall, Yield, ArgsDelta, About, Placing
  <2>2. DOMAIN calls' = DOMAIN calls
        /\ \A m \in DOMAIN calls : calls'[m].item = calls[m].item
    BY <1>0, <1>11, FragmentCalls
  <2>3. Kinds'
    BY <1>0, <1>11, <2>2 DEF ContinueCall, Kinds
  <2> QED
    BY <1>0, <1>11, <2>1, <2>3, OutputsLeft DEF ContinueCall
<1>12. ASSUME NEW r \in open, ModelEndWithText(r) PROVE OutputInv'
  <2>1. OfMessage("text.done", current.text).type \notin Placing
    BY DEF OfMessage, About, Placing
  <2> QED
    BY <1>0, <1>12, <2>1, OutputsLeft DEF ModelEndWithText, Yield, items, Kinds
<1>13. ASSUME NEW r \in open, ModelEndWithoutText(r) PROVE OutputInv'
  BY <1>0, <1>13, OutputsLeft DEF ModelEndWithoutText, Kinds
<1>14. CASE ClosePart
  <2>1. OfMessage("part.done", current.text).type \notin Placing
    BY DEF OfMessage, About, Placing
  <2> QED
    BY <1>0, <1>14, <2>1, OutputsLeft DEF ClosePart, Yield, items, Kinds
<1>15. CASE CloseMessage
  <2> DEFINE e == OfMessage("item.done", current.text)
  <2>1. e.item = current.item /\ current # None
    BY <1>0, <1>15 DEF OfMessage, About, CloseMessage, Control, Opened
  <2>2. log' = Append(log, e)
    BY <1>15 DEF CloseMessage, Completes, Yield
  <2> HIDE DEF e
  <2> QED
    BY <1>0, <1>15, <2>1, <2>2, OutputsLeft DEF CloseMessage, Kinds
<1>16. CASE CloseArgs
  <2>1. PICK e : log' = Append(log, e) /\ e.type \notin Placing
    BY <1>16 DEF CloseArgs, Yield, OfCall, About, Placing
  <2> QED
    BY <1>0, <1>16, <2>1, OutputsLeft DEF CloseArgs, items, Kinds
<1>17. CASE CloseCall
  <2> DEFINE n == closed + 1
             e == OfCall("item.done", calls[n], calls[n].args)
  <2>1. n \in DOMAIN calls /\ e.item = calls[n].item
    BY <1>0, <1>17 DEF CloseCall, Control, TypeOK, OfCall, About
  <2>2. log' = Append(log, e)
    BY <1>17 DEF CloseCall, Completes, Yield
  <2> HIDE DEF e, n
  <2> QED
    BY <1>0, <1>17, <2>1, <2>2, OutputsLeft DEF CloseCall, Kinds
<1>18. CASE ClearCalls
  BY <1>0, <1>18, OutputsLeft DEF ClearCalls, Kinds
<1>19. CASE ToolStart
  <2> DEFINE r == toolRuns + 1
             e == About("item.added", NewEntry.item, NewEntry.idx, -r, <<>>)
             last == Len(log) + 1
  <2>1. /\ e.type = "item.added" /\ e.item = <<"fco", made + 1>> /\ e.call = -r
        /\ NewEntry.item = <<"fco", made + 1>>
    BY DEF About, NewEntry
  <2>2. log' = Append(log, e) /\ log \in Seq(Event)
    BY <1>0, <1>19 DEF ToolStart, Yield, TypeOK
  <2>3. /\ tools' = [s \in DOMAIN tools \cup {r} |-> IF s = r THEN NewEntry ELSE tools[s]]
        /\ UNCHANGED <<current, calls>>
    BY <1>19 DEF ToolStart
  <2>4. r \notin DOMAIN tools
    BY <1>0 DEF TypeOK
  <2> HIDE DEF e, r
  <2>5. /\ DOMAIN log' = DOMAIN log \cup {last} /\ log'[last] = e
        /\ \A i \in DOMAIN log : log'[i] = log[i]
    BY <2>2, LogGrows
  <2> HIDE DEF last
  <2>6. /\ \A s \in DOMAIN tools : tools[s].item # e.item
        /\ \A i \in DOMAIN log : log[i].type \in Placing => log[i].item # e.item
    BY <1>0, <2>1, HeldNumbered
  <2>7. Kinds'
    BY <1>0, <2>1, <2>3 DEF Kinds
  <2>8. ToolsKept'
    BY <2>1, <2>3, <2>4, <2>5, <2>6 DEF OutputInv, ToolsKept, Placing
  <2>9. OutputsMatched'
    BY <2>1, <2>5, <2>6 DEF OutputInv, OutputsMatched, Placing
  <2> QED
    BY <2>7, <2>8, <2>9 DEF OutputInv
<1>20. ASSUME NEW r \in MayEnd, NEW named \in BOOLEAN, ToolEnd(r, named) PROVE OutputInv'
  <2> DEFINE c == IF named THEN r ELSE -r
             e == About("item.done", ToolEntry(r).item, ToolEntry(r).idx, c, <<>>)
             last == Len(log) + 1
  <2>1. e.type = "item.done" /\ e.item = ToolEntry(r).item /\ e.call = c
    BY DEF About
  <2>2. log' = Append(log, e) /\ log \in Seq(Event)
    BY <1>0, <1>20 DEF ToolEnd, Completes, Yield, TypeOK
  <2>3. tools' = [s \in DOMAIN tools \ {r} |-> tools[s]] /\ UNCHANGED <<current, calls>>
    BY <1>20 DEF ToolEnd, Restrict
  <2>0. r \in Int
    <3>1. toolRuns \in Nat /\ running \subseteq 1 .. toolRuns
      BY <1>0 DEF TypeOK
    <3> QED
      BY <3>1 DEF MayEnd
  <2>4. c \in {r, -r} /\ -(-r) = r
    BY <2>0
  <2> HIDE DEF e, c
  <2>5. /\ DOMAIN log' = DOMAIN log \cup {last} /\ log'[last] = e
        /\ \A i \in DOMAIN log : log'[i] = log[i]
    BY <2>2, LogGrows
  <2> HIDE DEF last
  <2>6. \A i \in DOMAIN log :
          log[i].type = "item.added" /\ log[i].item = e.item => log[i].call = -r
    <3>1. CASE r \in DOMAIN tools
      BY <2>1, <3>1 DEF ToolEntry, OutputInv, ToolsKept
    <3>2. CASE r \notin DOMAIN tools
      BY <1>0, <2>1, <3>2, HeldNumbered DEF ToolEntry, NewEntry, Placing
    <3> QED
      BY <3>1, <3>2
  <2>7. Kinds'
    BY <1>0, <2>3 DEF Kinds
  <2>8. ToolsKept'
    BY <2>1, <2>3, <2>5 DEF OutputInv, ToolsKept
  <2>9. OutputsMatched'
    BY <2>1, <2>4, <2>5, <2>6 DEF OutputInv, OutputsMatched
  <2> QED
    BY <2>7, <2>8, <2>9 DEF OutputInv
<1>21. ASSUME NEW r \in running, ToolError(r) PROVE OutputInv'
  BY <1>0, <1>21, OutputsLeft DEF ToolError, items, Kinds
<1>22. CASE Complete
  <2>1. [Plain("completed") EXCEPT !.output = output].type \notin Placing
    BY DEF Plain, About, Placing
  <2> QED
    BY <1>0, <1>22, <2>1, OutputsLeft DEF Complete, Yield, items, Kinds
<1>23. CASE GraphRaises
  <2>1. [Plain("failed") EXCEPT !.output = output].type \notin Placing
    BY DEF Plain, About, Placing
  <2> QED
    BY <1>0, <1>23, <2>1, OutputsLeft DEF GraphRaises, Yield, items, Kinds
<1>24. CASE Disconnect
  BY <1>0, <1>24, OutputsLeft DEF Disconnect, items, Kinds
<1>25. CASE UNCHANGED vars
  BY <1>0, <1>25, OutputsLeft DEF vars, items, Kinds
<1> QED
  BY <1>1, <1>2, <1>3, <1>4, <1>5, <1>6, <1>7, <1>8, <1>9, <1>10, <1>11, <1>12, <1>13,
     <1>14, <1>15, <1>16, <1>17, <1>18, <1>19, <1>20, <1>21, <1>22, <1>23, <1>24, <1>25
     DEF Next, Emit

\* Tools that run side by side do not swap outputs, and one whose start was never
\* reported does not take the item of another.
THEOREM OutputsAreMatched == Spec => []OutputsMatched
<1>1. Init => TypeInv /\ IndexInv /\ OutputInv
  BY TypeInit, IndexInit, OutputInit
<1>2. TypeInv /\ IndexInv /\ OutputInv /\ [Next]_vars => TypeInv' /\ IndexInv' /\ OutputInv'
  BY TypeStep, IndexStep, OutputStep
<1>3. OutputInv => OutputsMatched
  BY DEF OutputInv
<1> QED
  BY <1>1, <1>2, <1>3, PTL DEF Spec

-----------------------------------------------------------------------------
(* The final list.                                                         *)

\* completed_output is the list of the items reported done so far.
OutputSoFar ==
  /\ Len(output) = Cardinality(DoneUpTo(Len(log)))
  /\ \A k \in DoneUpTo(Len(log)) :
       output[Cardinality(DoneUpTo(k))] =
         [item |-> log[k].item, call |-> log[k].call, body |-> log[k].body]

ListInv == OutputSoFar /\ OutputIsDone

LEMMA DoneFinite ==
  ASSUME NEW i \in Nat
  PROVE  IsFiniteSet(DoneUpTo(i)) /\ Cardinality(DoneUpTo(i)) \in Nat
<1>1. IsFiniteSet(1 .. i)
  BY FS_Interval
<1>2. DoneUpTo(i) \in SUBSET (1 .. i)
  BY DEF DoneUpTo
<1>3. IsFiniteSet(DoneUpTo(i))
  BY <1>1, <1>2, FS_Subset
<1> QED
  BY <1>3, FS_CardinalityType

\* The items done by an earlier event of the log are fewer than those done by a
\* later one.
LEMMA DoneBefore ==
  ASSUME TypeOK, NEW k \in DoneUpTo(Len(log))
  PROVE  Cardinality(DoneUpTo(k)) \in 1 .. Cardinality(DoneUpTo(Len(log)))
<1>1. Len(log) \in Nat /\ k \in 1 .. Len(log)
  BY DEF TypeOK, DoneUpTo
<1>2. k \in DoneUpTo(k) /\ DoneUpTo(k) \subseteq DoneUpTo(Len(log))
  BY <1>1 DEF DoneUpTo
<1>3. Cardinality(DoneUpTo(k)) <= Cardinality(DoneUpTo(Len(log)))
  BY <1>1, <1>2, DoneFinite, FS_Subset
<1>4. Cardinality(DoneUpTo(k)) # 0
  BY <1>1, <1>2, DoneFinite, FS_EmptySet
<1>5. Cardinality(DoneUpTo(k)) \in Nat /\ Cardinality(DoneUpTo(Len(log))) \in Nat
  BY <1>1, DoneFinite
<1> QED
  BY <1>3, <1>4, <1>5

LEMMA DoneGrows ==
  ASSUME TypeOK, NEW e, log' = Append(log, e)
  PROVE  /\ Len(log) \in Nat /\ Len(log') = Len(log) + 1
         /\ DOMAIN log = 1 .. Len(log) /\ DOMAIN log' = 1 .. (Len(log) + 1)
         /\ log'[Len(log) + 1] = e /\ \A i \in DOMAIN log : log'[i] = log[i]
         /\ \A i \in 0 .. Len(log) : DoneUpTo(i)' = DoneUpTo(i)
         /\ LET all == {k \in 1 .. (Len(log) + 1) : log'[k].type = "item.done"}
            IN  all = DoneUpTo(Len(log))
                        \cup (IF e.type = "item.done" THEN {Len(log) + 1} ELSE {})
<1>1. /\ Len(log) \in Nat /\ Len(log') = Len(log) + 1
      /\ DOMAIN log = 1 .. Len(log) /\ DOMAIN log' = 1 .. (Len(log) + 1)
      /\ log'[Len(log) + 1] = e /\ \A i \in DOMAIN log : log'[i] = log[i]
  <2>1. log \in Seq(Event)
    BY DEF TypeOK
  <2> QED
    BY <2>1
<1>2. \A i \in 0 .. Len(log) : DoneUpTo(i)' = DoneUpTo(i)
  BY <1>1 DEF DoneUpTo
<1>3. ASSUME NEW k
      PROVE  k \in 1 .. (Len(log) + 1) <=> k \in 1 .. Len(log) \/ k = Len(log) + 1
  BY <1>1
<1>4. {k \in 1 .. (Len(log) + 1) : log'[k].type = "item.done"}
        = DoneUpTo(Len(log)) \cup (IF e.type = "item.done" THEN {Len(log) + 1} ELSE {})
  BY <1>1, <1>3 DEF DoneUpTo
<1> QED
  BY <1>1, <1>2, <1>4

\* A step that reports nothing done and leaves the list alone.
LEMMA ListKept ==
  ASSUME TypeOK, ListInv, output' = output,
         \/ log' = log
         \/ \E e : /\ log' = Append(log, e) /\ e.type # "item.done"
                   /\ e.type \in {"completed", "failed"} => e.output = output
  PROVE  ListInv'
<1>1. CASE log' = log
  <2>1. \A i : DoneUpTo(i)' = DoneUpTo(i)
    BY <1>1 DEF DoneUpTo
  <2>2. DoneUpTo(Len(log))' = DoneUpTo(Len(log))
    BY <1>1 DEF DoneUpTo
  <2>3. OutputSoFar'
    BY <1>1, <2>1, <2>2 DEF ListInv, OutputSoFar
  <2>4. OutputIsDone'
    BY <1>1, <2>1 DEF ListInv, OutputIsDone
  <2> QED
    BY <2>3, <2>4 DEF ListInv
<1>2. ASSUME NEW e, log' = Append(log, e), e.type # "item.done",
             e.type \in {"completed", "failed"} => e.output = output
      PROVE  ListInv'
  <2> DEFINE n == Len(log)
  <2>1. /\ n \in Nat /\ Len(log') = n + 1
        /\ DOMAIN log = 1 .. n /\ DOMAIN log' = 1 .. (n + 1)
        /\ log'[n + 1] = e /\ \A i \in DOMAIN log : log'[i] = log[i]
        /\ \A i \in 0 .. n : DoneUpTo(i)' = DoneUpTo(i)
    BY <1>2, DoneGrows
  <2>2. {k \in 1 .. (n + 1) : log'[k].type = "item.done"} = DoneUpTo(n)
    BY <1>2, DoneGrows
  <2>3. \A i : i = n + 1 => DoneUpTo(i)' = DoneUpTo(n)
    BY <2>2 DEF DoneUpTo
  <2>4. \A k \in DoneUpTo(n) : k \in 1 .. n /\ k \in DOMAIN log /\ k \in 0 .. n
    BY <2>1 DEF DoneUpTo
  <2>5. \A i \in DOMAIN log' : (i \in DOMAIN log /\ i \in 0 .. n) \/ i = n + 1
    BY <2>1
  <2>6. \A i \in 0 .. n : \A k \in DoneUpTo(i) : k \in DoneUpTo(n)
    BY <2>1 DEF DoneUpTo
  <2>7. DoneUpTo(Len(log))' = DoneUpTo(n)
    BY <2>1, <2>3
  <2> HIDE DEF n
  <2>7a. Len(output) = Cardinality(DoneUpTo(n))
    BY DEF ListInv, OutputSoFar, n
  <2>7b. ASSUME NEW k \in DoneUpTo(n)
         PROVE  output[Cardinality(DoneUpTo(k)')] =
                  [item |-> log'[k].item, call |-> log'[k].call, body |-> log'[k].body]
    <3>1. DoneUpTo(k)' = DoneUpTo(k) /\ log'[k] = log[k]
      BY <2>1, <2>4
    <3> QED
      BY <3>1 DEF ListInv, OutputSoFar, n
  <2>8. OutputSoFar'
    BY <2>7, <2>7a, <2>7b DEF OutputSoFar
  <2>9. ASSUME NEW i \in DOMAIN log', log'[i].type \in {"completed", "failed"}
        PROVE  /\ Len(log'[i].output) = Cardinality(DoneUpTo(i)')
               /\ \A k \in DoneUpTo(i)' :
                    log'[i].output[Cardinality(DoneUpTo(k)')] =
                      [item |-> log'[k].item, call |-> log'[k].call, body |-> log'[k].body]
    <3>1. CASE i \in DOMAIN log /\ i \in 0 .. n
      BY <2>1, <2>4, <2>6, <2>9, <3>1 DEF ListInv, OutputIsDone
    <3>2. CASE i = n + 1
      <4>1. log'[i].output = output /\ DoneUpTo(i)' = DoneUpTo(n)
        BY <1>2, <2>1, <2>3, <2>9, <3>2
      <4> QED
        BY <2>7a, <2>7b, <4>1
    <3> QED
      BY <2>5, <3>1, <3>2
  <2>10. OutputIsDone'
    BY <2>9 DEF OutputIsDone
  <2> QED
    BY <2>8, <2>10 DEF ListInv
<1> QED
  BY <1>1, <1>2

\* A step that reports an item done and puts it into the list.
LEMMA ListGrows ==
  ASSUME TypeOK, ListInv, NEW e, e.type = "item.done", Completes(e)
  PROVE  ListInv'
<1> DEFINE n == Len(log)
           o == [item |-> e.item, call |-> e.call, body |-> e.body]
<1>0. log' = Append(log, e) /\ output' = Append(output, o) /\ output \in Seq(OutputItem)
  BY DEF Completes, Yield, TypeOK
<1>1. /\ n \in Nat /\ Len(log') = n + 1
      /\ DOMAIN log = 1 .. n /\ DOMAIN log' = 1 .. (n + 1)
      /\ log'[n + 1] = e /\ \A i \in DOMAIN log : log'[i] = log[i]
      /\ \A i \in 0 .. n : DoneUpTo(i)' = DoneUpTo(i)
  BY <1>0, DoneGrows
<1>2. {k \in 1 .. (n + 1) : log'[k].type = "item.done"} = DoneUpTo(n) \cup {n + 1}
  BY <1>0, DoneGrows
<1>3. \A i : i = n + 1 => DoneUpTo(i)' = DoneUpTo(n) \cup {n + 1}
  BY <1>2 DEF DoneUpTo
<1>4. /\ \A k \in DoneUpTo(n) : k \in 1 .. n /\ k \in DOMAIN log /\ k \in 0 .. n
      /\ n + 1 \notin DoneUpTo(n)
  BY <1>1 DEF DoneUpTo
<1>5. \A i \in DOMAIN log' : (i \in DOMAIN log /\ i \in 0 .. n) \/ i = n + 1
  BY <1>1
<1>6. \A i \in 0 .. n : \A k \in DoneUpTo(i) : k \in DoneUpTo(n)
  BY <1>1 DEF DoneUpTo
<1>7. DoneUpTo(Len(log))' = DoneUpTo(n) \cup {n + 1}
  BY <1>1, <1>3
<1>8. /\ Cardinality(DoneUpTo(n)) \in Nat
      /\ Cardinality(DoneUpTo(n) \cup {n + 1}) = Cardinality(DoneUpTo(n)) + 1
  BY <1>1, <1>4, DoneFinite, FS_AddElement
<1>9. /\ Len(output') = Len(output) + 1 /\ output'[Len(output) + 1] = o
      /\ \A j \in 1 .. Len(output) : output'[j] = output[j]
  BY <1>0
<1>10. \A k \in DoneUpTo(n) : Cardinality(DoneUpTo(k)) \in 1 .. Cardinality(DoneUpTo(n))
  BY DoneBefore
<1> HIDE DEF n
<1>11. Len(output) = Cardinality(DoneUpTo(n))
  BY DEF ListInv, OutputSoFar, n
<1>12. ASSUME NEW k \in DoneUpTo(n) \cup {n + 1}
       PROVE  output'[Cardinality(DoneUpTo(k)')] =
                [item |-> log'[k].item, call |-> log'[k].call, body |-> log'[k].body]
  <2>1. CASE k \in DoneUpTo(n)
    <3>1. DoneUpTo(k)' = DoneUpTo(k) /\ log'[k] = log[k]
      BY <1>1, <1>4, <2>1
    <3>2. output'[Cardinality(DoneUpTo(k))] = output[Cardinality(DoneUpTo(k))]
      BY <1>9, <1>10, <1>11, <2>1
    <3> QED
      BY <2>1, <3>1, <3>2 DEF ListInv, OutputSoFar, n
  <2>2. CASE k = n + 1
    <3>1. Cardinality(DoneUpTo(k)') = Len(output) + 1
      BY <1>3, <1>8, <1>11, <2>2
    <3> QED
      BY <1>1, <1>9, <2>2, <3>1
  <2> QED
    BY <2>1, <2>2
<1>13. OutputSoFar'
  BY <1>7, <1>8, <1>9, <1>11, <1>12 DEF OutputSoFar
<1>14. ASSUME NEW i \in DOMAIN log', log'[i].type \in {"completed", "failed"}
       PROVE  /\ Len(log'[i].output) = Cardinality(DoneUpTo(i)')
              /\ \A k \in DoneUpTo(i)' :
                   log'[i].output[Cardinality(DoneUpTo(k)')] =
                     [item |-> log'[k].item, call |-> log'[k].call, body |-> log'[k].body]
  <2>1. i \in DOMAIN log /\ i \in 0 .. n
    BY <1>1, <1>5, <1>14
  <2> QED
    BY <1>1, <1>4, <1>6, <1>14, <2>1 DEF ListInv, OutputIsDone
<1>15. OutputIsDone'
  BY <1>14 DEF OutputIsDone
<1> QED
  BY <1>13, <1>15 DEF ListInv

LEMMA ListInit == Init => ListInv
<1> SUFFICES ASSUME Init PROVE ListInv
  OBVIOUS
<1>1. log = <<>> /\ output = <<>> /\ Len(log) = 0 /\ Len(output) = 0
  BY DEF Init
<1>2. DoneUpTo(0) = {}
  BY DEF DoneUpTo
<1> QED
  BY <1>1, <1>2, FS_EmptySet DEF ListInv, OutputSoFar, OutputIsDone

LEMMA ListStep == TypeInv /\ ListInv /\ [Next]_vars => ListInv'
<1> SUFFICES ASSUME TypeInv, ListInv, [Next]_vars PROVE ListInv'
  OBVIOUS
<1>0. TypeOK
  BY DEF TypeInv
<1> DEFINE Quiet(e) == /\ e.type # "item.done"
                       /\ e.type \in {"completed", "failed"} => e.output = output
<1>1. ASSUME output' = output, log' = log \/ \E e : log' = Append(log, e) /\ Quiet(e)
      PROVE  ListInv'
  BY <1>0, <1>1, ListKept
<1>2. CASE CloseMessage
  BY <1>0, <1>2, ListGrows DEF CloseMessage, OfMessage, About
<1>3. CASE CloseCall
  BY <1>0, <1>3, ListGrows DEF CloseCall, OfCall, About
<1>4. ASSUME NEW r \in MayEnd, NEW named \in BOOLEAN, ToolEnd(r, named) PROVE ListInv'
  BY <1>0, <1>4, ListGrows DEF ToolEnd, About
<1>5. CASE Created \/ InProgress \/ AddPart \/ ClosePart
  <2>1. /\ Quiet(Plain("created")) /\ Quiet(Plain("in_progress"))
        /\ Quiet(OfMessage("part.added", <<>>)) /\ Quiet(OfMessage("part.done", current.text))
    BY DEF Plain, OfMessage, About
  <2> HIDE DEF Quiet
  <2> QED
    BY <1>1, <1>5, <2>1 DEF Created, InProgress, AddPart, ClosePart, Yield
<1>6. CASE EmitReasoning \/ OpenMessage \/ EmitText
  <2>1. /\ \A item : Quiet(About("reasoning.delta", item, None, None, <<cur.reasoning>>))
        /\ Quiet(About("item.added", current.item, nextIndex, None, <<>>))
        /\ Quiet(OfMessage("text.delta", <<cur.text>>))
    BY DEF OfMessage, About
  <2> HIDE DEF Quiet
  <2> QED
    BY <1>1, <1>6, <2>1 DEF EmitReasoning, OpenMessage, EmitText, Yield
<1>7. CASE StartCall \/ EmitArgs \/ \E n \in DOMAIN calls : ContinueCall(n)
  <2>1. /\ \A c : Quiet(OfCall("item.added", c, <<>>))
        /\ \A c, f : Quiet(ArgsDelta(c, f))
    BY DEF OfCall, ArgsDelta, About
  <2> HIDE DEF Quiet
  <2> QED
    BY <1>1, <1>7, <2>1 DEF StartCall, EmitArgs, ContinueCall, Yield
<1>8. CASE CloseArgs \/ ToolStart
  <2>1. /\ \A c, b : Quiet(OfCall("args.done", c, b))
        /\ \A c : Quiet(About("item.added", NewEntry.item, NewEntry.idx, c, <<>>))
    BY DEF OfCall, About
  <2> HIDE DEF Quiet
  <2> QED
    BY <1>1, <1>8, <2>1 DEF CloseArgs, ToolStart, Yield
<1>9. ASSUME NEW r \in open, ModelEndWithText(r) PROVE ListInv'
  <2>1. Quiet(OfMessage("text.done", current.text))
    BY DEF OfMessage, About
  <2> HIDE DEF Quiet
  <2> QED
    BY <1>1, <1>9, <2>1 DEF ModelEndWithText, Yield
<1>10. CASE Complete \/ GraphRaises
  <2>1. /\ Quiet([Plain("completed") EXCEPT !.output = output])
        /\ Quiet([Plain("failed") EXCEPT !.output = output])
    BY DEF Plain, About
  <2> HIDE DEF Quiet
  <2> QED
    BY <1>1, <1>10, <2>1 DEF Complete, GraphRaises, Yield
<1>11. ASSUME \/ ModelStart
              \/ \E r \in open, k \in Chunks : ModelStream(r, k)
              \/ \E r \in open : ModelEndWithoutText(r)
              \/ ClearCalls
              \/ \E r \in running : ToolError(r)
              \/ Disconnect \/ UNCHANGED vars
       PROVE  ListInv'
  BY <1>1, <1>11 DEF ModelStart, ModelStream, ModelEndWithoutText, ClearCalls, ToolError,
     Disconnect, vars
<1> QED
  BY <1>2, <1>3, <1>4, <1>5, <1>6, <1>7, <1>8, <1>9, <1>10, <1>11 DEF Next, Emit

\* The final list of items is complete, true to the events that reported them done
\* and in their order, also when the graph raises half way or model runs overlap.
THEOREM FinalListIsDone == Spec => []OutputIsDone
<1>1. Init => TypeInv /\ ListInv
  BY TypeInit, ListInit
<1>2. TypeInv /\ ListInv /\ [Next]_vars => TypeInv' /\ ListInv'
  BY TypeStep, ListStep
<1>3. ListInv => OutputIsDone
  BY DEF ListInv
<1> QED
  BY <1>1, <1>2, <1>3, PTL DEF Spec

-----------------------------------------------------------------------------
(* EventsEmitter implements ResponseStream as long as model runs follow    *)
(* one another and no tool fails: the events yielded are a stream the      *)
(* protocol allows, with any number of messages, calls and tool outputs.   *)

\* What the graph does that emit_response_sse is written for: runs do not overlap,
\* and a tool that starts ends.
Sequential == MaxOpen <= 1 /\ Faults = {}

-----------------------------------------------------------------------------
(* One model run at a time.                                                *)

Receiving == {"start", "begun", "stream", "part", "args"}
Closing == {"close_part", "close_message", "closing", "close_call"}

\* There is a current message exactly while a model run is open, and no call is
\* kept beyond the run that made it.
OneRun ==
  /\ \A r, s \in open : r = s
  /\ pc \in Receiving => (open = {} <=> current = None)
  /\ pc \in Receiving /\ open = {} => Spent /\ calls = <<>>
  /\ pc \in Closing => open = {}
  /\ pc \in {"closing", "close_call"} => current = None
  /\ DOMAIN tools = running

\* The current message after its first text, or a further one.
LEMMA MessageKept ==
  ASSUME TypeOK, current # None, OpenMessage \/ EmitText
  PROVE  /\ current' # None /\ current'.item = current.item
         /\ OpenMessage => current'.idx = nextIndex
         /\ EmitText => current'.idx = current.idx
<1>1. nextIndex \in Nat /\ cur.text \in Nat
  BY TakeOutType DEF TypeOK
<1>2. CASE OpenMessage
  <2>1. current' \in MessageState /\ current'.item = current.item /\ current'.idx = nextIndex
    BY <1>1, <1>2, CurrentStepType DEF OpenMessage
  <2>2. ~EmitText
    BY <1>2 DEF OpenMessage, EmitText
  <2> QED
    BY <2>1, <2>2, NoMessageAssumption
<1>3. CASE EmitText
  <2>1. current' \in MessageState
    BY <1>1, <1>3, CurrentStepType DEF EmitText
  <2>2. current'.item = current.item /\ current'.idx = current.idx
    BY <1>1, <1>3, CurrentStepType DEF EmitText
  <2>3. ~OpenMessage
    BY <1>3 DEF OpenMessage, EmitText
  <2> QED
    BY <2>1, <2>2, <2>3, NoMessageAssumption
<1> QED
  BY <1>2, <1>3

\* Nothing is left to process when no model run is open.
LEMMA NoRunNothing ==
  ASSUME OneRun, pc \in Receiving, cur.reasoning # 0 \/ cur.text # 0 \/ cur.frags # <<>>
  PROVE  open # {} /\ current # None
  BY DEF OneRun, Spent, Nothing

\* A model run starts when no other one is open.
LEMMA AloneAtStart ==
  ASSUME Sequential, TypeOK, ModelStart
  PROVE  open = {}
<1>1. 1 \in Int /\ runs \in Int /\ open \subseteq 1 .. runs
  BY DEF TypeOK
<1>2. IsFiniteSet(1 .. runs)
  BY <1>1, FS_Interval
<1>3. IsFiniteSet(open)
  BY <1>1, <1>2, FS_Subset
<1>4. Cardinality(open) \in Nat /\ Cardinality(open) < 1
  BY <1>3, FS_CardinalityType, BoundsAssumption DEF ModelStart, Sequential
<1> QED
  BY <1>3, <1>4, FS_EmptySet

LEMMA OneRunInit == Init => OneRun
  BY DEF Init, OneRun, Receiving, Closing, Spent

LEMMA OneRunStep ==
  ASSUME Sequential, TypeInv, OneRun, [Next]_vars
  PROVE  OneRun'
<1>0. /\ open \subseteq 1 .. runs /\ runs \in Nat /\ calls \in Seq(CallState)
      /\ DOMAIN tools = running /\ Control
      /\ Spent' <=> cur' = Nothing
  BY DEF TypeInv, TypeOK, OneRun, Spent
<1>1. CASE Created \/ InProgress \/ AddPart
  BY <1>1 DEF Created, InProgress, AddPart, graph, items, OneRun, Receiving, Closing, Spent
<1>2. CASE ClosePart \/ CloseArgs \/ CloseCall
  BY <1>2 DEF ClosePart, CloseArgs, CloseCall, graph, items, OneRun, Receiving, Closing, Spent
<1>3. CASE Complete \/ GraphRaises \/ Disconnect \/ UNCHANGED vars
  BY <1>3 DEF Complete, GraphRaises, Disconnect, vars, graph, items, OneRun, Receiving,
     Closing, Spent
<1>4. CASE ModelStart
  <2>1. open = {}
    BY <1>4, AloneAtStart DEF TypeInv
  <2>2. open' = {runs + 1}
    BY <1>4, <2>1 DEF ModelStart
  <2>3. current' # None
    <3>1. current' \in MessageState
      <4>1. <<"msg", made + 1>> \in Item
        BY DEF TypeInv, TypeOK, Item
      <4> QED
        BY <1>4, <4>1 DEF ModelStart, MessageState
    <3> QED
      BY <3>1, NoMessageAssumption
  <2> QED
    BY <1>0, <1>4, <2>2, <2>3 DEF ModelStart, Waiting, OneRun, Receiving, Closing
<1>5. ASSUME NEW r \in open, NEW k \in Chunks, ModelStream(r, k) PROVE OneRun'
  BY <1>0, <1>5 DEF ModelStream, Waiting, OneRun, Receiving, Closing
<1>6. CASE EmitReasoning
  <2>1. open # {} /\ current # None
    BY <1>6, NoRunNothing DEF EmitReasoning, Receiving
  <2> QED
    BY <1>6, <2>1 DEF EmitReasoning, graph, OneRun, Receiving, Closing
<1>7. CASE OpenMessage \/ EmitText
  <2>1. open # {} /\ current # None
    BY <1>7, NoRunNothing DEF OpenMessage, EmitText, Receiving
  <2>2. current' # None
    BY <1>7, <2>1, MessageKept DEF TypeInv
  <2> QED
    BY <1>7, <2>1, <2>2 DEF OpenMessage, EmitText, graph, OneRun, Receiving, Closing
<1>8. CASE StartCall \/ EmitArgs \/ \E n \in DOMAIN calls : ContinueCall(n)
  <2>1. open # {} /\ current # None
    BY <1>0, <1>8, NoRunNothing
       DEF StartCall, EmitArgs, ContinueCall, AtFragment, Receiving, Control
  <2> QED
    BY <1>8, <2>1 DEF StartCall, EmitArgs, ContinueCall, AtFragment, graph, OneRun, Receiving,
       Closing
<1>9. ASSUME NEW r \in open, ModelEndWithText(r) \/ ModelEndWithoutText(r) PROVE OneRun'
  <2>1. open' = {}
    BY <1>9 DEF ModelEndWithText, ModelEndWithoutText, OneRun
  <2> QED
    BY <1>9, <2>1 DEF ModelEndWithText, ModelEndWithoutText, items, OneRun, Receiving, Closing
<1>10. CASE CloseMessage \/ ClearCalls
  BY <1>0, <1>10 DEF CloseMessage, ClearCalls, graph, OneRun, Receiving, Closing, Control, Spent
<1>11. CASE ToolStart
  <2>1. DOMAIN tools' = running'
    BY <1>0, <1>11 DEF ToolStart
  <2> QED
    BY <1>0, <1>11, <2>1 DEF ToolStart, Waiting, OneRun, Receiving, Closing, Spent
<1>12. ASSUME NEW r \in MayEnd, NEW named \in BOOLEAN, ToolEnd(r, named) PROVE OneRun'
  <2>1. r \in running
    BY DEF MayEnd, Sequential
  <2>2. DOMAIN tools' = running'
    BY <1>0, <1>12, <2>1 DEF ToolEnd, Restrict
  <2> QED
    BY <1>12, <2>2 DEF ToolEnd, Waiting, OneRun, Receiving, Closing, Spent
<1>13. ASSUME NEW r \in running, ToolError(r) PROVE OneRun'
  BY <1>13 DEF ToolError, Sequential
<1> QED
  BY <1>1, <1>2, <1>3, <1>4, <1>5, <1>6, <1>7, <1>8, <1>9, <1>10, <1>11, <1>12, <1>13
     DEF Next, Emit

-----------------------------------------------------------------------------
(* What the emitter's variables know about the events already yielded.     *)
(* The protocol speaks of the log alone; the code never reads it and goes  *)
(* by its variables, so the proof needs the two to agree.                  *)

Running == pc \notin {"end", "gone"}

\* The events that name the item they are about by its own id.
OfItem == {"item.added", "part.added", "text.done", "part.done", "args.done", "item.done"}

\* The items announced and not yet done.
OpenItems ==
  {calls[n].item : n \in {m \in DOMAIN calls : m > closed}}
    \cup {tools[r].item : r \in DOMAIN tools}
    \cup (IF Opened THEN {current.item} ELSE {})

ToldOfItems ==
  \A i \in DOMAIN log : log[i].type \in OfItem => log[i].item \in Item /\ log[i].item[2] <= made

ToldOfMessage ==
  current # None =>
    /\ Stream!Seen(log, "item.added", current.item) <=> Opened
    /\ Stream!Seen(log, "part.added", current.item) <=> Opened /\ pc # "part"
    /\ Stream!Seen(log, "text.done", current.item) <=> pc \in {"close_part", "close_message"}
    /\ Stream!Seen(log, "part.done", current.item) <=> pc = "close_message"
    /\ ~Stream!Seen(log, "item.done", current.item)

ToldOfCalls ==
  \A n \in DOMAIN calls :
    /\ Stream!Seen(log, "args.done", calls[n].item)
         <=> (n <= closed \/ (pc = "close_call" /\ n = closed + 1))
    /\ Stream!Seen(log, "item.done", calls[n].item) <=> n <= closed
    /\ \A m \in DOMAIN calls : calls[m].item = calls[n].item => m = n

ToldOfTools ==
  \A r \in DOMAIN tools :
    /\ ~Stream!Seen(log, "item.done", tools[r].item)
    /\ \A s \in DOMAIN tools : tools[s].item = tools[r].item => s = r

\* No output index is left out.
ToldOfIndices == \A k \in 0 .. (nextIndex - 1) : Stream!Placed(log, k)

\* completed_output holds items as they were reported done, each once.
ToldOfOutput ==
  /\ \A j \in DOMAIN output : Stream!DoneAs(log, output[j])
  /\ \A j, k \in DOMAIN output : output[j].item = output[k].item => j = k

\* An announced item is in the output list or still open.
ToldOfOpen ==
  \A i \in DOMAIN log : log[i].type = "item.added" =>
    \/ \E j \in DOMAIN output : output[j].item = log[i].item
    \/ log[i].item \in OpenItems

\* The two opening events come first, a terminal event last.
ToldOfEnds ==
  /\ pc = "start" => Len(log) = 0
  /\ pc = "begun" => Len(log) = 1
  /\ pc \notin {"start", "begun"} => Len(log) >= 2
  /\ ~Stream!Over(log)

Told ==
  /\ ToldOfItems
  /\ Running => /\ ToldOfMessage /\ ToldOfCalls /\ ToldOfTools /\ ToldOfIndices
                /\ ToldOfOutput /\ ToldOfOpen /\ ToldOfEnds

-----------------------------------------------------------------------------
(* What one more event changes.                                            *)

Grows(e) ==
  /\ log' = Append(log, e)
  /\ Len(log') = Len(log) + 1 /\ log'[Len(log')] = e
  /\ DOMAIN log' = DOMAIN log \cup {Len(log')}
  /\ \A i \in DOMAIN log : log'[i] = log[i]
  /\ \A t, x : Stream!Seen(log', t, x)
                <=> Stream!Seen(log, t, x) \/ (e.type = t /\ e.item = x)
  /\ \A k : Stream!Placed(log', k)
             <=> Stream!Placed(log, k) \/ (e.type = "item.added" /\ e.idx = k)
  /\ \A o : Stream!DoneAs(log', o)
             <=> \/ Stream!DoneAs(log, o)
                 \/ /\ e.type = "item.done" /\ e.item = o.item
                    /\ e.call = o.call /\ e.body = o.body
  /\ Stream!Over(log') <=> Stream!Over(log) \/ e.type \in {"completed", "failed"}

LEMMA Growth ==
  ASSUME log \in Seq(Event), NEW e, log' = Append(log, e)
  PROVE  Grows(e)
<1>1. /\ Len(log) \in Nat
      /\ Len(log') = Len(log) + 1 /\ log'[Len(log')] = e
      /\ DOMAIN log' = DOMAIN log \cup {Len(log')}
      /\ \A i \in DOMAIN log : log'[i] = log[i]
  BY LogGrows
<1>2. \A t, x : Stream!Seen(log', t, x)
                <=> Stream!Seen(log, t, x) \/ (e.type = t /\ e.item = x)
  BY <1>1 DEF Stream!Seen
<1>3. \A k : Stream!Placed(log', k)
             <=> Stream!Placed(log, k) \/ (e.type = "item.added" /\ e.idx = k)
  BY <1>1 DEF Stream!Placed
<1>4. \A o : Stream!DoneAs(log', o)
             <=> \/ Stream!DoneAs(log, o)
                 \/ /\ e.type = "item.done" /\ e.item = o.item
                    /\ e.call = o.call /\ e.body = o.body
  BY <1>1 DEF Stream!DoneAs
<1>5. Stream!Over(log') <=> Stream!Over(log) \/ e.type \in {"completed", "failed"}
  BY <1>1 DEF Stream!Over
<1> QED
  BY <1>1, <1>2, <1>3, <1>4, <1>5 DEF Grows

\* A step that appends a legal event is a step of the protocol.
LEMMA LegalStep ==
  ASSUME NEW e, Grows(e), Stream!Legal(log, e)
  PROVE  Stream!Next
  BY DEF Grows, Stream!Next

\* The items of the events known so far, after one more event.
LEMMA ItemsTold ==
  ASSUME TypeOK, ToldOfItems, made' \in {made, made + 1}, NEW e, Grows(e),
         e.type \in OfItem => e.item \in Item /\ e.item[2] <= made'
  PROVE  ToldOfItems'
<1>1. \A n \in Nat : n <= made => n <= made'
  BY DEF TypeOK
<1>2. \A x \in Item : x[2] \in Nat
  BY DEF Item
<1> QED
  BY <1>1, <1>2 DEF ToldOfItems, Grows

\* Nothing has been said of the next item.
LEMMA NextUnseen ==
  ASSUME TypeOK, ToldOfItems, NEW p
  PROVE  \A t \in OfItem : ~Stream!Seen(log, t, <<p, made + 1>>)
<1>1. \A n \in Nat : n <= made => n # made + 1
  BY DEF TypeOK
<1>2. \A x \in Item : x[2] \in Nat
  BY DEF Item
<1>3. <<p, made + 1>>[2] = made + 1
  OBVIOUS
<1> QED
  BY <1>1, <1>2, <1>3 DEF ToldOfItems, Stream!Seen

\* An event inside an item or about none leaves the list of items alone.
LEMMA Says ==
  ASSUME Told, Running, NEW e, Grows(e),
         e.type \notin {"item.added", "item.done", "completed", "failed"},
         UNCHANGED <<nextIndex, output>>, OpenItems \subseteq OpenItems'
  PROVE  ToldOfIndices' /\ ToldOfOutput' /\ ToldOfOpen'
<1>1. ToldOfIndices'
  BY DEF Told, Grows, ToldOfIndices
<1>2. ToldOfOutput'
  BY DEF Told, Grows, ToldOfOutput
<1>3. ToldOfOpen'
  BY DEF Told, Grows, ToldOfOpen
<1> QED
  BY <1>1, <1>2, <1>3

\* The next item is announced, at the next index.
LEMMA Announced ==
  ASSUME TypeOK, Told, Running, NEW e, Grows(e),
         e.type = "item.added", e.idx = nextIndex, nextIndex' = nextIndex + 1,
         output' = output, OpenItems \cup {e.item} \subseteq OpenItems'
  PROVE  ToldOfIndices' /\ ToldOfOutput' /\ ToldOfOpen'
<1>1. ToldOfIndices'
  <2>1. \A k \in 0 .. (nextIndex' - 1) : k \in 0 .. (nextIndex - 1) \/ k = nextIndex
    BY DEF TypeOK
  <2> QED
    BY <2>1 DEF Told, Grows, ToldOfIndices
<1>2. ToldOfOutput'
  BY DEF Told, Grows, ToldOfOutput
<1>3. ToldOfOpen'
  BY DEF Told, Grows, ToldOfOpen
<1> QED
  BY <1>1, <1>2, <1>3

\* An open item is reported done and put into the list.
LEMMA ReportedDone ==
  ASSUME TypeOK, Told, Running, NEW e, Grows(e),
         e.type = "item.done", ~Stream!Seen(log, "item.done", e.item),
         output' = Append(output, [item |-> e.item, call |-> e.call, body |-> e.body]),
         nextIndex' = nextIndex, OpenItems \subseteq OpenItems' \cup {e.item}
  PROVE  ToldOfIndices' /\ ToldOfOutput' /\ ToldOfOpen'
<1> DEFINE o == [item |-> e.item, call |-> e.call, body |-> e.body]
           last == Len(output) + 1
<1>1. o.item = e.item /\ o.call = e.call /\ o.body = e.body
  OBVIOUS
<1>2. output \in Seq(OutputItem) /\ output' = Append(output, o)
  BY DEF TypeOK
<1> HIDE DEF o
<1>3. /\ DOMAIN output' = DOMAIN output \cup {last} /\ output'[last] = o
      /\ \A j \in DOMAIN output : output'[j] = output[j]
  BY <1>2, LogGrows
<1> HIDE DEF last
<1>4. \A j \in DOMAIN output : output[j].item # e.item
  BY DEF Told, ToldOfOutput, Stream!DoneAs, Stream!Seen
<1>5. ToldOfIndices'
  BY DEF Told, Grows, ToldOfIndices
<1>6. ToldOfOutput'
  BY <1>1, <1>3, <1>4 DEF Told, Grows, ToldOfOutput
<1>7. ToldOfOpen'
  BY <1>1, <1>3 DEF Told, Grows, ToldOfOpen
<1> QED
  BY <1>5, <1>6, <1>7

\* The stream has begun, and goes on.
LEMMA GoesOn ==
  ASSUME TypeOK, Told, Running, NEW e, Grows(e),
         pc \notin {"start", "begun"}, pc' \notin {"start", "begun"},
         e.type \notin {"completed", "failed"}
  PROVE  ToldOfEnds'
<1>1. Len(log) \in Nat /\ Len(log) >= 2 /\ Len(log') = Len(log) + 1
  BY DEF TypeOK, Told, ToldOfEnds, Grows
<1>2. ~Stream!Over(log')
  BY DEF Told, ToldOfEnds, Grows
<1> QED
  BY <1>1, <1>2 DEF ToldOfEnds

\* An event that does not change what has been said of the current message,
LEMMA MessageTold ==
  ASSUME Told, Running, NEW e, Grows(e),
         current' # None => /\ current # None /\ current'.item = current.item
                            /\ Opened' <=> Opened,
         pc \notin {"part", "close_part", "close_message"},
         pc' \notin {"part", "close_part", "close_message"},
         e.type \in OfItem /\ current # None => e.item # current.item
  PROVE  ToldOfMessage'
  BY DEF Told, ToldOfMessage, Grows, OfItem

\* of the calls,
LEMMA CallsTold ==
  ASSUME Told, Running, NEW e, Grows(e),
         DOMAIN calls' = DOMAIN calls, \A n \in DOMAIN calls : calls'[n].item = calls[n].item,
         closed' = closed, pc # "close_call", pc' # "close_call",
         e.type \in {"args.done", "item.done"} => \A n \in DOMAIN calls : e.item # calls[n].item
  PROVE  ToldOfCalls'
  BY DEF Told, ToldOfCalls, Grows

\* and of the tools' outputs.
LEMMA ToolsTold ==
  ASSUME Told, Running, NEW e, Grows(e), tools' = tools,
         e.type = "item.done" => \A r \in DOMAIN tools : e.item # tools[r].item
  PROVE  ToldOfTools'
  BY DEF Told, ToldOfTools, Grows
-----------------------------------------------------------------------------
(* Every step is one of the protocol.                                      *)

\* What is open has been announced where it is kept; the tables hold different
\* items, and none of them the next one.
LEMMA OpenFacts ==
  ASSUME TypeOK, Control, IndexInv, Kinds
  PROVE  /\ current # None => /\ current.item \in {"msg"} \X Nat /\ current.item \in Item
                              /\ current.item[2] <= made
         /\ Opened => Stream!AddedAt(log, current.item, current.idx)
         /\ \A n \in DOMAIN calls :
              /\ calls[n].item \in {"fc"} \X Nat /\ calls[n].item \in Item
              /\ calls[n].item[2] <= made
              /\ Stream!AddedAt(log, calls[n].item, calls[n].idx)
         /\ \A r \in DOMAIN tools :
              /\ tools[r].item \in {"fco"} \X Nat /\ tools[r].item \in Item
              /\ tools[r].item[2] <= made
              /\ Stream!AddedAt(log, tools[r].item, tools[r].idx)
         /\ ~Stream!Placed(log, nextIndex) /\ nextIndex \in Nat /\ made \in Nat
<1>1. \A x \in Item : x[1] = "msg" => x \in {"msg"} \X Nat
  BY DEF Item
<1>2. \A x \in Item : x[1] = "fc" => x \in {"fc"} \X Nat
  BY DEF Item
<1>3. \A x \in Item : x[1] = "fco" => x \in {"fco"} \X Nat
  BY DEF Item
<1>4. \A h \in Held : Stream!AddedAt(log, h[1], h[2]) /\ h[1][2] <= made
  BY DEF IndexInv, HeldAnnounced, Numbered, Placing, Stream!AddedAt
<1>5. current # None => /\ current.item \in {"msg"} \X Nat /\ current.item \in Item
                        /\ current.item[2] <= made
  BY <1>1, CurrentType DEF Kinds, Control
<1>6. Opened => Stream!AddedAt(log, current.item, current.idx)
  <2>1. Opened => <<current.item, current.idx>> \in Held
    BY DEF Held
  <2> QED
    BY <1>4, <2>1
<1>7. ASSUME NEW n \in DOMAIN calls
      PROVE  /\ calls[n].item \in {"fc"} \X Nat /\ calls[n].item \in Item
             /\ calls[n].item[2] <= made
             /\ Stream!AddedAt(log, calls[n].item, calls[n].idx)
  <2>1. <<calls[n].item, calls[n].idx>> \in Held
    BY DEF Held
  <2>2. calls[n].item \in Item /\ calls[n].item[1] = "fc"
    BY CallType DEF Kinds
  <2> QED
    BY <1>2, <1>4, <2>1, <2>2
<1>8. ASSUME NEW r \in DOMAIN tools
      PROVE  /\ tools[r].item \in {"fco"} \X Nat /\ tools[r].item \in Item
             /\ tools[r].item[2] <= made
             /\ Stream!AddedAt(log, tools[r].item, tools[r].idx)
  <2>1. <<tools[r].item, tools[r].idx>> \in Held
    BY DEF Held
  <2>2. tools[r].item \in Item /\ tools[r].item[1] = "fco"
    BY DEF Kinds, TypeOK, ToolState
  <2> QED
    BY <1>3, <1>4, <2>1, <2>2
<1>9. nextIndex \in Nat /\ made \in Nat
  BY DEF TypeOK
<1>10. ~Stream!Placed(log, nextIndex)
  BY <1>9 DEF IndexInv, Numbered, Placing, Stream!Placed
<1> QED
  BY <1>5, <1>6, <1>7, <1>8, <1>9, <1>10

LEMMA ProtocolInit == Init => Stream!Init /\ Told
  BY DEF Init, Stream!Init, Told, ToldOfItems, ToldOfMessage, ToldOfCalls, ToldOfTools,
         ToldOfIndices, ToldOfOutput, ToldOfOpen, ToldOfEnds, Stream!Placed, Stream!Over

\* Every step of the emitter is a step of the protocol or leaves the log alone,
\* and keeps the variables and the log in agreement.
LEMMA ProtocolStep ==
  ASSUME Sequential, TypeInv, IndexInv, Kinds, OneRun, Told, [Next]_vars
  PROVE  [Stream!Next]_log /\ Told'
<1>0. /\ log \in Seq(Event) /\ output \in Seq(OutputItem) /\ calls \in Seq(CallState)
      /\ TypeOK /\ Control /\ made \in Nat /\ nextIndex \in Nat /\ closed \in Nat
      /\ ToldOfItems
      /\ Running => /\ ToldOfMessage /\ ToldOfCalls /\ ToldOfTools /\ ToldOfIndices
                    /\ ToldOfOutput /\ ToldOfOpen /\ ToldOfEnds
      /\ Running <=> pc \notin {"end", "gone"}
      /\ Len(calls) \in Nat /\ DOMAIN calls = 1 .. Len(calls)
  <2>1. calls \in Seq(CallState) /\ TypeOK /\ closed \in Nat
    BY DEF TypeInv, TypeOK
  <2> QED
    BY <2>1 DEF TypeInv, TypeOK, Told, Running
<1>a. Running /\ pc \notin {"start", "begun"} => Len(log) >= 2 /\ ~Stream!Over(log)
  BY <1>0 DEF ToldOfEnds
<1>1. CASE Created
  <2> DEFINE e == Plain("created")
  <2>1. Grows(e) /\ e.type = "created"
    BY <1>0, <1>1, Growth DEF Created, Yield, Plain, About
  <2> HIDE DEF e
  <2>2. /\ pc = "start" /\ pc' = "begun" /\ Running
        /\ UNCHANGED <<current, calls, closed, tools, made, nextIndex, output>>
        /\ Opened' = Opened /\ OpenItems' = OpenItems
    BY <1>0, <1>1 DEF Created, items, Opened, OpenItems
  <2>3. Stream!Legal(log, e)
    BY <1>0, <2>1, <2>2 DEF Stream!Legal, Stream!Begins, ToldOfEnds
  <2>4. ToldOfItems'
    BY <1>0, <2>1, <2>2, ItemsTold DEF OfItem
  <2>5. ToldOfMessage' /\ ToldOfCalls' /\ ToldOfTools'
    BY <2>1, <2>2, MessageTold, CallsTold, ToolsTold DEF OfItem
  <2>6. ToldOfIndices' /\ ToldOfOutput' /\ ToldOfOpen'
    BY <2>1, <2>2, Says
  <2>7. ToldOfEnds'
    BY <1>0, <2>1, <2>2 DEF ToldOfEnds, Grows
  <2> QED
    BY <2>1, <2>3, <2>4, <2>5, <2>6, <2>7, LegalStep DEF Told
<1>2. CASE InProgress
  <2> DEFINE e == Plain("in_progress")
  <2>1. Grows(e) /\ e.type = "in_progress"
    BY <1>0, <1>2, Growth DEF InProgress, Yield, Plain, About
  <2> HIDE DEF e
  <2>2. /\ pc = "begun" /\ pc' = "stream" /\ Running
        /\ UNCHANGED <<current, calls, closed, tools, made, nextIndex, output>>
        /\ Opened' = Opened /\ OpenItems' = OpenItems
    BY <1>0, <1>2 DEF InProgress, items, Opened, OpenItems
  <2>3. Stream!Legal(log, e)
    BY <1>0, <2>1, <2>2 DEF Stream!Legal, Stream!Begins, ToldOfEnds
  <2>4. ToldOfItems'
    BY <1>0, <2>1, <2>2, ItemsTold DEF OfItem
  <2>5. ToldOfMessage' /\ ToldOfCalls' /\ ToldOfTools'
    BY <2>1, <2>2, MessageTold, CallsTold, ToolsTold DEF OfItem
  <2>6. ToldOfIndices' /\ ToldOfOutput' /\ ToldOfOpen'
    BY <2>1, <2>2, Says
  <2>7. ToldOfEnds'
    BY <1>0, <2>1, <2>2 DEF ToldOfEnds, Grows
  <2> QED
    BY <2>1, <2>3, <2>4, <2>5, <2>6, <2>7, LegalStep DEF Told
<1>3. CASE ModelStart
  <2> DEFINE x == <<"msg", made + 1>>
  <2>1. /\ current'.item = x /\ current'.idx = -1 /\ ~Opened'
        /\ pc' = "stream" /\ pc = "stream" /\ log' = log /\ made' = made + 1
        /\ UNCHANGED <<calls, closed, tools, nextIndex, output>>
    BY <1>3 DEF ModelStart, Waiting, Opened
  <2>2. \A t \in OfItem : ~Stream!Seen(log, t, x)
    BY <1>0, NextUnseen
  <2> HIDE DEF x
  <2>3. ~Opened
    <3>1. open = {}
      BY <1>0, <1>3, AloneAtStart
    <3> QED
      BY <1>3, <3>1 DEF ModelStart, Waiting, OneRun, Receiving, Opened
  <2>4. OpenItems' = OpenItems
    BY <2>1, <2>3 DEF OpenItems
  <2>5. ToldOfMessage'
    BY <2>1, <2>2 DEF ToldOfMessage, OfItem
  <2>6. ToldOfItems'
    <3>1. \A n \in Nat : n <= made => n <= made'
      BY <1>0, <2>1
    <3>2. \A y \in Item : y[2] \in Nat
      BY DEF Item
    <3> QED
      BY <1>0, <2>1, <3>1, <3>2 DEF ToldOfItems
  <2>7. ToldOfCalls' /\ ToldOfTools' /\ ToldOfIndices' /\ ToldOfOutput' /\ ToldOfOpen'
        /\ ToldOfEnds'
    BY <1>0, <2>1, <2>4 DEF ToldOfCalls, ToldOfTools, ToldOfIndices, ToldOfOutput, ToldOfOpen,
       ToldOfEnds
  <2> QED
    BY <2>1, <2>5, <2>6, <2>7 DEF Told
<1>4. ASSUME NEW r \in open, NEW k \in Chunks, ModelStream(r, k)
      PROVE  [Stream!Next]_log /\ Told'
  <2>1. /\ UNCHANGED <<pc, current, calls, closed, tools, made, nextIndex, output, log>>
        /\ Running
    BY <1>0, <1>4 DEF ModelStream, Waiting
  <2> QED
    BY <1>0, <2>1 DEF Told, ToldOfItems, ToldOfMessage, ToldOfCalls, ToldOfTools,
       ToldOfIndices, ToldOfOutput, ToldOfOpen, ToldOfEnds, Opened, OpenItems
<1>5. CASE EmitReasoning
  <2> DEFINE e == About("reasoning.delta", current.item, None, None, <<cur.reasoning>>)
  <2>1. current # None /\ current.item \in {"msg"} \X Nat
    BY <1>0, <1>5, NoRunNothing, OpenFacts DEF EmitReasoning, Receiving
  <2>2. Grows(e) /\ e.type = "reasoning.delta" /\ e.item = current.item
    BY <1>0, <1>5, <2>1, Growth DEF EmitReasoning, Yield, About
  <2> HIDE DEF e
  <2>3. /\ pc = "stream" /\ pc' = "stream" /\ Running
        /\ UNCHANGED <<current, calls, closed, tools, made, nextIndex, output>>
        /\ Opened' = Opened /\ OpenItems' = OpenItems
    BY <1>0, <1>5 DEF EmitReasoning, Opened, OpenItems
  <2>4. Stream!Legal(log, e)
    BY <1>0, <1>a, <2>1, <2>2, <2>3 DEF Stream!Legal, Stream!Reasons, ToldOfMessage
  <2>5. ToldOfItems'
    BY <1>0, <2>2, <2>3, ItemsTold DEF OfItem
  <2>6. ToldOfMessage' /\ ToldOfCalls' /\ ToldOfTools'
    BY <2>2, <2>3, MessageTold, CallsTold, ToolsTold DEF OfItem
  <2>7. ToldOfIndices' /\ ToldOfOutput' /\ ToldOfOpen' /\ ToldOfEnds'
    BY <1>0, <2>2, <2>3, Says, GoesOn
  <2> QED
    BY <2>2, <2>4, <2>5, <2>6, <2>7, LegalStep DEF Told
<1>6. CASE OpenMessage
  <2> DEFINE e == About("item.added", current.item, nextIndex, None, <<>>)
  <2>1. /\ current # None /\ ~Opened /\ current.item \in {"msg"} \X Nat
        /\ current.item \in Item /\ current.item[2] <= made
    BY <1>0, <1>6, OpenFacts DEF OpenMessage, Control, Opened
  <2>2. /\ Grows(e) /\ e.type = "item.added" /\ e.item = current.item /\ e.idx = nextIndex
    BY <1>0, <1>6, Growth DEF OpenMessage, Yield, About
  <2> HIDE DEF e
  <2>3. /\ pc = "stream" /\ pc' = "part" /\ Running /\ nextIndex' = nextIndex + 1
        /\ UNCHANGED <<calls, closed, tools, made, output>>
    BY <1>0, <1>6 DEF OpenMessage
  <2>4. current' # None /\ current'.item = current.item /\ Opened'
    BY <1>0, <1>6, <2>1, MessageKept DEF Opened
  <2>5. OpenItems \cup {e.item} \subseteq OpenItems'
    BY <2>1, <2>2, <2>3, <2>4 DEF OpenItems
  <2>6. Stream!Legal(log, e)
    <3>1. e.item \in Stream!Items /\ ~Stream!Seen(log, "item.added", e.item)
      BY <1>0, <2>1, <2>2, <2>3 DEF Stream!Items, ToldOfMessage
    <3>2. e.idx \in Nat /\ ~Stream!Placed(log, e.idx)
      BY <1>0, <2>2, OpenFacts
    <3>3. \A k \in 0 .. (e.idx - 1) : Stream!Placed(log, k)
      BY <1>0, <2>2, <2>3 DEF ToldOfIndices
    <3> QED
      BY <1>a, <2>2, <2>3, <3>1, <3>2, <3>3 DEF Stream!Legal, Stream!Announces
  <2>7. ToldOfItems'
    BY <1>0, <2>1, <2>2, <2>3, ItemsTold
  <2>8. ToldOfMessage'
    BY <1>0, <2>1, <2>2, <2>3, <2>4 DEF ToldOfMessage, Grows
  <2>9. ToldOfCalls' /\ ToldOfTools'
    BY <2>2, <2>3, CallsTold, ToolsTold
  <2>10. ToldOfIndices' /\ ToldOfOutput' /\ ToldOfOpen' /\ ToldOfEnds'
    BY <1>0, <2>2, <2>3, <2>5, Announced, GoesOn
  <2> QED
    BY <2>2, <2>6, <2>7, <2>8, <2>9, <2>10, LegalStep DEF Told
<1>7. CASE AddPart
  <2> DEFINE e == OfMessage("part.added", <<>>)
  <2>1. /\ current # None /\ Opened /\ current.item \in {"msg"} \X Nat
        /\ current.item \in Item /\ current.item[2] <= made
        /\ Stream!AddedAt(log, current.item, current.idx)
    BY <1>0, <1>7, OpenFacts DEF AddPart, Control, Opened
  <2>2. /\ Grows(e) /\ e.type = "part.added" /\ e.item = current.item
        /\ e.idx = current.idx
    BY <1>0, <1>7, Growth DEF AddPart, Yield, OfMessage, About
  <2> HIDE DEF e
  <2>3. /\ pc = "part" /\ pc' = "stream" /\ Running
        /\ UNCHANGED <<current, calls, closed, tools, made, nextIndex, output>>
        /\ Opened' = Opened /\ OpenItems' = OpenItems
    BY <1>0, <1>7 DEF AddPart, items, Opened, OpenItems
  <2>4. Stream!Legal(log, e)
    BY <1>0, <1>a, <2>1, <2>2, <2>3
       DEF Stream!Legal, Stream!SpeaksOfMessage, Stream!OnOpenItem, ToldOfMessage
  <2>5. ToldOfItems'
    BY <1>0, <2>1, <2>2, <2>3, ItemsTold
  <2>6. ToldOfMessage'
    BY <1>0, <2>1, <2>2, <2>3 DEF ToldOfMessage, Grows
  <2>7. ToldOfCalls' /\ ToldOfTools'
    BY <2>2, <2>3, CallsTold, ToolsTold
  <2>8. ToldOfIndices' /\ ToldOfOutput' /\ ToldOfOpen' /\ ToldOfEnds'
    BY <1>0, <2>2, <2>3, Says, GoesOn
  <2> QED
    BY <2>2, <2>4, <2>5, <2>6, <2>7, <2>8, LegalStep DEF Told
<1>8. CASE EmitText
  <2> DEFINE e == OfMessage("text.delta", <<cur.text>>)
  <2>1. /\ current # None /\ Opened /\ current.item \in {"msg"} \X Nat
        /\ Stream!AddedAt(log, current.item, current.idx)
    BY <1>0, <1>8, OpenFacts DEF EmitText, Control, Opened
  <2>2. /\ Grows(e) /\ e.type = "text.delta" /\ e.item = current.item
        /\ e.idx = current.idx
    BY <1>0, <1>8, Growth DEF EmitText, Yield, OfMessage, About
  <2> HIDE DEF e
  <2>3. /\ pc = "stream" /\ pc' = "stream" /\ Running
        /\ UNCHANGED <<calls, closed, tools, made, nextIndex, output>>
    BY <1>0, <1>8 DEF EmitText
  <2>4. current' # None /\ current'.item = current.item /\ Opened'
    BY <1>0, <1>8, <2>1, MessageKept DEF Opened
  <2>5. OpenItems \subseteq OpenItems'
    BY <2>1, <2>3, <2>4 DEF OpenItems
  <2>6. Stream!Legal(log, e)
    BY <1>0, <1>a, <2>1, <2>2, <2>3
       DEF Stream!Legal, Stream!SpeaksOfMessage, Stream!OnOpenItem, ToldOfMessage
  <2>7. ToldOfItems'
    BY <1>0, <2>2, <2>3, ItemsTold DEF OfItem
  <2>8. ToldOfMessage' /\ ToldOfCalls' /\ ToldOfTools'
    BY <2>1, <2>2, <2>3, <2>4, MessageTold, CallsTold, ToolsTold DEF OfItem
  <2>9. ToldOfIndices' /\ ToldOfOutput' /\ ToldOfOpen' /\ ToldOfEnds'
    BY <1>0, <2>2, <2>3, <2>5, Says, GoesOn
  <2> QED
    BY <2>2, <2>6, <2>7, <2>8, <2>9, LegalStep DEF Told
<1>9. CASE StartCall
  <2> DEFINE c == [item |-> <<"fc", made + 1>>, key |-> OwnKey(Head(cur.frags)),
                   idx |-> nextIndex, call |-> IdOf(Head(cur.frags), -(made + 1)),
                   args |-> <<>>]
             e == OfCall("item.added", c, <<>>)
             x == <<"fc", made + 1>>
  <2>1. /\ Grows(e) /\ e.type = "item.added" /\ e.item = x /\ e.idx = nextIndex
        /\ calls' = Append(calls, c) /\ c.item = x
    BY <1>0, <1>9, Growth DEF StartCall, Yield, OfCall, About
  <2> HIDE DEF c, e
  <2>2. /\ pc = "stream" /\ pc' \in {"stream", "args"} /\ Running
        /\ made' = made + 1 /\ nextIndex' = nextIndex + 1
        /\ UNCHANGED <<current, closed, tools, output>> /\ Opened' = Opened
        /\ closed <= Len(calls)
    BY <1>0, <1>9 DEF StartCall, AtFragment, Opened, TypeOK
  <2>3. /\ x \in Item /\ x \in {"fc"} \X Nat /\ x[2] = made + 1
        /\ \A t \in OfItem : ~Stream!Seen(log, t, x)
        /\ \A n \in DOMAIN calls : calls[n].item # x
        /\ current # None => current.item # x
    <3>1. \A n \in Nat : n <= made => n # made + 1
      BY <1>0
    <3>2. x \in Item /\ x \in {"fc"} \X Nat /\ x[2] = made + 1
      BY <1>0 DEF Item
    <3>3. \A y \in Item : y[2] <= made => y # x
      BY <3>1, <3>2 DEF Item
    <3> HIDE DEF x
    <3>4. \A n \in DOMAIN calls : calls[n].item # x
      BY <1>0, <3>3, OpenFacts
    <3>5. current # None => current.item # x
      BY <1>0, <3>3, OpenFacts
    <3> QED
      BY <1>0, <3>2, <3>4, <3>5, NextUnseen DEF x
  <2> HIDE DEF x
  <2>4. /\ Len(calls') = Len(calls) + 1 /\ DOMAIN calls' = DOMAIN calls \cup {Len(calls) + 1}
        /\ calls'[Len(calls) + 1].item = x /\ \A n \in DOMAIN calls : calls'[n] = calls[n]
    BY <1>0, <2>1, LogGrows
  <2>5. OpenItems \cup {e.item} \subseteq OpenItems'
    <3>1. Len(calls) + 1 > closed
      BY <1>0, <2>2
    <3> QED
      BY <2>1, <2>2, <2>4, <3>1 DEF OpenItems
  <2>6. Stream!Legal(log, e)
    <3>1. e.item \in Stream!Items /\ ~Stream!Seen(log, "item.added", e.item)
      BY <2>1, <2>3 DEF Stream!Items, OfItem
    <3>2. e.idx \in Nat /\ ~Stream!Placed(log, e.idx)
      BY <1>0, <2>1, OpenFacts
    <3>3. \A k \in 0 .. (e.idx - 1) : Stream!Placed(log, k)
      BY <1>0, <2>1, <2>2 DEF ToldOfIndices
    <3> QED
      BY <1>a, <2>1, <2>2, <3>1, <3>2, <3>3 DEF Stream!Legal, Stream!Announces
  <2>7. ToldOfItems'
    BY <1>0, <2>1, <2>2, <2>3, ItemsTold
  <2>8. ToldOfMessage'
    BY <2>1, <2>2, <2>3, MessageTold
  <2>9. ToldOfCalls'
    <3>1. Len(calls) + 1 > closed
      BY <1>0, <2>2
    <3>2. \A t \in {"args.done", "item.done"} : ~Stream!Seen(log', t, x)
      BY <2>1, <2>3 DEF Grows, OfItem
    <3> QED
      BY <1>0, <2>1, <2>2, <2>3, <2>4, <3>1, <3>2 DEF ToldOfCalls, Grows
  <2>10. ToldOfTools'
    BY <2>1, <2>2, ToolsTold
  <2>11. ToldOfIndices' /\ ToldOfOutput' /\ ToldOfOpen' /\ ToldOfEnds'
    BY <1>0, <2>1, <2>2, <2>5, Announced, GoesOn
  <2> QED
    BY <2>1, <2>6, <2>7, <2>8, <2>9, <2>10, <2>11, LegalStep DEF Told
<1>10. ASSUME NEW n \in DOMAIN calls, NEW f,
              EmitArgs \/ ContinueCall(n), EmitArgs => n = Len(calls),
              log' = Append(log, ArgsDelta(calls[n], f)) \/ log' = log
       PROVE  [Stream!Next]_log /\ Told'
  <2> DEFINE e == ArgsDelta(calls[n], f)
  <2>1. /\ calls[n].item \in {"fc"} \X Nat
        /\ Stream!AddedAt(log, calls[n].item, calls[n].idx)
    BY <1>0, OpenFacts
  <2>2. e.type = "args.delta" /\ e.item = calls[n].item /\ e.idx = calls[n].idx
    BY DEF ArgsDelta, About
  <2>3. /\ pc \in {"stream", "args"} /\ pc' = "stream" /\ Running /\ closed = 0
        /\ UNCHANGED <<current, closed, tools, made, nextIndex, output>>
        /\ Opened' = Opened
    BY <1>0, <1>10 DEF EmitArgs, ContinueCall, AtFragment, Opened, Control
  <2>4. DOMAIN calls' = DOMAIN calls /\ \A m \in DOMAIN calls : calls'[m].item = calls[m].item
    BY <1>0, <1>10, FragmentCalls
  <2>5. OpenItems \subseteq OpenItems'
    BY <2>3, <2>4 DEF OpenItems
  <2>6. CASE log' = Append(log, e)
    <3>1. Grows(e)
      BY <1>0, <2>6, Growth
    <3> HIDE DEF e
    <3>2. Stream!Legal(log, e)
      BY <1>0, <1>a, <2>1, <2>2, <2>3
         DEF Stream!Legal, Stream!SpeaksOfCall, Stream!OnOpenItem, ToldOfCalls
    <3>3. ToldOfItems'
      BY <1>0, <2>2, <2>3, <3>1, ItemsTold DEF OfItem
    <3>4. ToldOfMessage' /\ ToldOfCalls' /\ ToldOfTools'
      BY <2>2, <2>3, <2>4, <3>1, MessageTold, CallsTold, ToolsTold DEF OfItem
    <3>5. ToldOfIndices' /\ ToldOfOutput' /\ ToldOfOpen' /\ ToldOfEnds'
      BY <1>0, <2>2, <2>3, <2>5, <3>1, Says, GoesOn
    <3> QED
      BY <3>1, <3>2, <3>3, <3>4, <3>5, LegalStep DEF Told
  <2>7. CASE log' = log
    <3>1. ToldOfItems' /\ ToldOfMessage' /\ ToldOfTools' /\ ToldOfIndices' /\ ToldOfOutput'
          /\ ToldOfEnds'
      BY <1>0, <2>3, <2>7 DEF Told, ToldOfItems, ToldOfMessage, ToldOfTools,
         ToldOfIndices, ToldOfOutput, ToldOfEnds
    <3>2. ToldOfCalls'
      BY <1>0, <2>3, <2>4, <2>7 DEF ToldOfCalls
    <3>3. ToldOfOpen'
      BY <1>0, <2>3, <2>5, <2>7 DEF ToldOfOpen
    <3> QED
      BY <2>7, <3>1, <3>2, <3>3 DEF Told
  <2> QED
    BY <1>10, <2>6, <2>7
<1>11. CASE EmitArgs \/ \E n \in DOMAIN calls : ContinueCall(n)
  <2>1. CASE EmitArgs
    <3>1. Len(calls) \in DOMAIN calls
      BY <1>0, <2>1 DEF EmitArgs, Control
    <3> QED
      BY <1>10, <2>1, <3>1 DEF EmitArgs, Yield
  <2>2. ASSUME NEW n \in DOMAIN calls, ContinueCall(n) PROVE [Stream!Next]_log /\ Told'
    <3>1. ~EmitArgs
      BY <2>2 DEF ContinueCall, AtFragment, EmitArgs
    <3> QED
      BY <1>10, <2>2, <3>1 DEF ContinueCall, Yield
  <2> QED
    BY <1>11, <2>1, <2>2
<1>12. ASSUME NEW r \in open, ModelEndWithText(r) PROVE [Stream!Next]_log /\ Told'
  <2> DEFINE e == OfMessage("text.done", current.text)
  <2>1. /\ current # None /\ Opened /\ current.item \in {"msg"} \X Nat
        /\ current.item \in Item /\ current.item[2] <= made
        /\ Stream!AddedAt(log, current.item, current.idx)
    BY <1>0, <1>12, OpenFacts DEF ModelEndWithText, Opened
  <2>2. /\ Grows(e) /\ e.type = "text.done" /\ e.item = current.item
        /\ e.idx = current.idx
    BY <1>0, <1>12, Growth DEF ModelEndWithText, Yield, OfMessage, About
  <2> HIDE DEF e
  <2>3. /\ pc = "stream" /\ pc' = "close_part" /\ Running
        /\ UNCHANGED <<current, calls, closed, tools, made, nextIndex, output>>
        /\ Opened' = Opened /\ OpenItems' = OpenItems
    BY <1>0, <1>12 DEF ModelEndWithText, Waiting, items, Opened, OpenItems
  <2>4. Stream!Legal(log, e)
    BY <1>0, <1>a, <2>1, <2>2, <2>3
       DEF Stream!Legal, Stream!SpeaksOfMessage, Stream!OnOpenItem, ToldOfMessage
  <2>5. ToldOfItems'
    BY <1>0, <2>1, <2>2, <2>3, ItemsTold
  <2>6. ToldOfMessage'
    BY <1>0, <2>1, <2>2, <2>3 DEF ToldOfMessage, Grows
  <2>7. ToldOfCalls' /\ ToldOfTools'
    BY <2>2, <2>3, CallsTold, ToolsTold
  <2>8. ToldOfIndices' /\ ToldOfOutput' /\ ToldOfOpen' /\ ToldOfEnds'
    BY <1>0, <2>2, <2>3, Says, GoesOn
  <2> QED
    BY <2>2, <2>4, <2>5, <2>6, <2>7, <2>8, LegalStep DEF Told
<1>13. ASSUME NEW r \in open, ModelEndWithoutText(r) PROVE [Stream!Next]_log /\ Told'
  <2>1. /\ pc = "stream" /\ pc' = "closing" /\ Running /\ current' = None /\ ~Opened
        /\ UNCHANGED <<calls, closed, tools, made, nextIndex, output, log>>
    BY <1>0, <1>13 DEF ModelEndWithoutText, Waiting
  <2>2. OpenItems' = OpenItems
    BY <2>1 DEF Opened, OpenItems
  <2> QED
    BY <1>0, <2>1, <2>2 DEF Told, ToldOfItems, ToldOfMessage, ToldOfCalls, ToldOfTools,
       ToldOfIndices, ToldOfOutput, ToldOfOpen, ToldOfEnds
<1>14. CASE ClosePart
  <2> DEFINE e == OfMessage("part.done", current.text)
  <2>1. /\ current # None /\ Opened /\ current.item \in {"msg"} \X Nat
        /\ current.item \in Item /\ current.item[2] <= made
        /\ Stream!AddedAt(log, current.item, current.idx)
    BY <1>0, <1>14, OpenFacts DEF ClosePart, Control, Opened
  <2>2. /\ Grows(e) /\ e.type = "part.done" /\ e.item = current.item
        /\ e.idx = current.idx
    BY <1>0, <1>14, Growth DEF ClosePart, Yield, OfMessage, About
  <2> HIDE DEF e
  <2>3. /\ pc = "close_part" /\ pc' = "close_message" /\ Running
        /\ UNCHANGED <<current, calls, closed, tools, made, nextIndex, output>>
        /\ Opened' = Opened /\ OpenItems' = OpenItems
    BY <1>0, <1>14 DEF ClosePart, items, Opened, OpenItems
  <2>4. Stream!Legal(log, e)
    BY <1>0, <1>a, <2>1, <2>2, <2>3
       DEF Stream!Legal, Stream!SpeaksOfMessage, Stream!OnOpenItem, ToldOfMessage
  <2>5. ToldOfItems'
    BY <1>0, <2>1, <2>2, <2>3, ItemsTold
  <2>6. ToldOfMessage'
    BY <1>0, <2>1, <2>2, <2>3 DEF ToldOfMessage, Grows
  <2>7. ToldOfCalls' /\ ToldOfTools'
    BY <2>2, <2>3, CallsTold, ToolsTold
  <2>8. ToldOfIndices' /\ ToldOfOutput' /\ ToldOfOpen' /\ ToldOfEnds'
    BY <1>0, <2>2, <2>3, Says, GoesOn
  <2> QED
    BY <2>2, <2>4, <2>5, <2>6, <2>7, <2>8, LegalStep DEF Told
<1>15. CASE CloseMessage
  <2> DEFINE e == OfMessage("item.done", current.text)
  <2>1. /\ current # None /\ Opened /\ current.item \in {"msg"} \X Nat
        /\ current.item \in Item /\ current.item[2] <= made
        /\ Stream!AddedAt(log, current.item, current.idx)
        /\ \A n \in DOMAIN calls : calls[n].item # current.item
        /\ \A r \in DOMAIN tools : tools[r].item # current.item
    BY <1>0, <1>15, OpenFacts DEF CloseMessage, Control, Opened
  <2>2. /\ Grows(e) /\ e.type = "item.done" /\ e.item = current.item
        /\ e.idx = current.idx
        /\ output' = Append(output, [item |-> e.item, call |-> e.call, body |-> e.body])
    BY <1>0, <1>15, Growth DEF CloseMessage, Completes, Yield, OfMessage, About
  <2> HIDE DEF e
  <2>3. /\ pc = "close_message" /\ pc' = "closing" /\ Running /\ current' = None
        /\ UNCHANGED <<calls, closed, tools, made, nextIndex>>
    BY <1>0, <1>15 DEF CloseMessage
  <2>4. OpenItems \subseteq OpenItems' \cup {e.item}
    BY <2>1, <2>2, <2>3 DEF OpenItems
  <2>5. /\ Stream!Seen(log, "part.done", e.item)
        /\ ~Stream!Seen(log, "item.done", e.item)
    BY <1>0, <2>1, <2>2, <2>3 DEF ToldOfMessage
  <2>6. Stream!Legal(log, e)
    BY <1>a, <2>1, <2>2, <2>3, <2>5 DEF Stream!Legal, Stream!SpeaksOfMessage, Stream!OnOpenItem
  <2>7. ToldOfItems'
    BY <1>0, <2>1, <2>2, <2>3, ItemsTold
  <2>8. ToldOfMessage'
    BY <2>3 DEF ToldOfMessage
  <2>9. ToldOfCalls' /\ ToldOfTools'
    BY <2>1, <2>2, <2>3, CallsTold, ToolsTold
  <2>10. ToldOfIndices' /\ ToldOfOutput' /\ ToldOfOpen' /\ ToldOfEnds'
    BY <1>0, <2>2, <2>3, <2>4, <2>5, ReportedDone, GoesOn
  <2> QED
    BY <2>2, <2>6, <2>7, <2>8, <2>9, <2>10, LegalStep DEF Told
<1>16. CASE CloseArgs
  <2> DEFINE n == closed + 1
             e == OfCall("args.done", calls[n], calls[n].args)
  <2>1. n \in DOMAIN calls
    BY <1>0, <1>16 DEF CloseArgs
  <2>2. /\ calls[n].item \in {"fc"} \X Nat /\ calls[n].item \in Item
        /\ calls[n].item[2] <= made
        /\ Stream!AddedAt(log, calls[n].item, calls[n].idx)
    BY <1>0, <2>1, OpenFacts
  <2>3. /\ Grows(e) /\ e.type = "args.done" /\ e.item = calls[n].item
        /\ e.idx = calls[n].idx
    BY <1>0, <1>16, Growth DEF CloseArgs, Yield, OfCall, About
  <2> HIDE DEF e
  <2>4. /\ pc = "closing" /\ pc' = "close_call" /\ Running
        /\ UNCHANGED <<current, calls, closed, tools, made, nextIndex, output>>
        /\ Opened' = Opened /\ OpenItems' = OpenItems
    BY <1>0, <1>16 DEF CloseArgs, items, Opened, OpenItems
  <2>5. /\ ~Stream!Seen(log, "args.done", calls[n].item)
        /\ ~Stream!Seen(log, "item.done", calls[n].item)
    BY <1>0, <2>1, <2>4 DEF ToldOfCalls
  <2>6. Stream!Legal(log, e)
    BY <1>a, <2>2, <2>3, <2>4, <2>5 DEF Stream!Legal, Stream!SpeaksOfCall, Stream!OnOpenItem
  <2>7. ToldOfItems'
    BY <1>0, <2>2, <2>3, <2>4, ItemsTold
  <2>8. ToldOfMessage' /\ ToldOfTools'
    BY <1>0, <2>2, <2>3, <2>4, OpenFacts, MessageTold, ToolsTold
  <2>9. ToldOfCalls'
    BY <1>0, <2>1, <2>3, <2>4 DEF ToldOfCalls, Grows
  <2>10. ToldOfIndices' /\ ToldOfOutput' /\ ToldOfOpen' /\ ToldOfEnds'
    BY <1>0, <2>3, <2>4, Says, GoesOn
  <2> QED
    BY <2>3, <2>6, <2>7, <2>8, <2>9, <2>10, LegalStep DEF Told
<1>17. CASE CloseCall
  <2> DEFINE n == closed + 1
             e == OfCall("item.done", calls[n], calls[n].args)
  <2>1. n \in DOMAIN calls
    BY <1>0, <1>17 DEF CloseCall, Control
  <2>2. /\ calls[n].item \in {"fc"} \X Nat /\ calls[n].item \in Item
        /\ calls[n].item[2] <= made
        /\ Stream!AddedAt(log, calls[n].item, calls[n].idx)
    BY <1>0, <2>1, OpenFacts
  <2>3. /\ Grows(e) /\ e.type = "item.done" /\ e.item = calls[n].item
        /\ e.idx = calls[n].idx
        /\ output' = Append(output, [item |-> e.item, call |-> e.call, body |-> e.body])
    BY <1>0, <1>17, Growth DEF CloseCall, Completes, Yield, OfCall, About
  <2> HIDE DEF e
  <2>4. /\ pc = "close_call" /\ pc' = "closing" /\ Running /\ closed' = n
        /\ UNCHANGED <<current, calls, tools, made, nextIndex>> /\ Opened' = Opened
    BY <1>0, <1>17 DEF CloseCall, Opened
  <2>5. /\ Stream!Seen(log, "args.done", calls[n].item)
        /\ ~Stream!Seen(log, "item.done", calls[n].item)
    BY <1>0, <2>1, <2>4 DEF ToldOfCalls
  <2>6. Stream!Legal(log, e)
    BY <1>a, <2>2, <2>3, <2>4, <2>5 DEF Stream!Legal, Stream!SpeaksOfCall, Stream!OnOpenItem
  <2>7. ToldOfItems'
    BY <1>0, <2>2, <2>3, <2>4, ItemsTold
  <2>8. ToldOfMessage' /\ ToldOfTools'
    BY <1>0, <2>2, <2>3, <2>4, OpenFacts, MessageTold, ToolsTold
  <2>9. ToldOfCalls'
    <3>1. \A m \in DOMAIN calls : m <= n <=> m <= closed \/ m = n
      BY <1>0
    <3>2. \A m \in DOMAIN calls : Stream!Seen(log', "item.done", calls[m].item)
                                    <=> m <= closed \/ m = n
      BY <1>0, <2>1, <2>3, <2>4 DEF ToldOfCalls, Grows
    <3>3. \A m \in DOMAIN calls : Stream!Seen(log', "args.done", calls[m].item)
                                    <=> m <= closed \/ m = n
      BY <1>0, <2>3, <2>4 DEF ToldOfCalls, Grows
    <3> QED
      BY <1>0, <2>4, <3>1, <3>2, <3>3 DEF ToldOfCalls
  <2>10. OpenItems \subseteq OpenItems' \cup {e.item}
    <3>1. \A m \in DOMAIN calls : m > closed => m > n \/ m = n
      BY <1>0
    <3> QED
      BY <2>3, <2>4, <3>1 DEF OpenItems
  <2>11. ToldOfIndices' /\ ToldOfOutput' /\ ToldOfOpen' /\ ToldOfEnds'
    BY <1>0, <2>3, <2>4, <2>5, <2>10, ReportedDone, GoesOn
  <2> QED
    BY <2>3, <2>6, <2>7, <2>8, <2>9, <2>11, LegalStep DEF Told
<1>18. CASE ClearCalls
  <2>1. /\ pc = "closing" /\ pc' = "stream" /\ Running /\ calls' = <<>> /\ closed = Len(calls)
        /\ UNCHANGED <<current, tools, made, nextIndex, output, log>>
    BY <1>0, <1>18 DEF ClearCalls
  <2>2. OpenItems' = OpenItems
    <3>1. \A n \in DOMAIN calls : ~(n > closed)
      BY <1>0, <2>1
    <3> QED
      BY <2>1, <3>1 DEF Opened, OpenItems
  <2>3. ToldOfMessage'
    BY <1>0, <2>1 DEF ToldOfMessage, Opened
  <2>4. ToldOfCalls'
    BY <2>1 DEF ToldOfCalls
  <2> QED
    BY <1>0, <2>1, <2>2, <2>3, <2>4 DEF Told, ToldOfItems, ToldOfTools,
       ToldOfIndices, ToldOfOutput, ToldOfOpen, ToldOfEnds
<1>19. CASE ToolStart
  <2> DEFINE r == toolRuns + 1
             x == <<"fco", made + 1>>
             e == About("item.added", x, nextIndex, -r, <<>>)
  <2>1. /\ Grows(e) /\ e.type = "item.added" /\ e.item = x /\ e.idx = nextIndex
        /\ DOMAIN tools' = DOMAIN tools \cup {r} /\ tools'[r].item = x
        /\ \A s \in DOMAIN tools : s # r => tools'[s] = tools[s]
    BY <1>0, <1>19, Growth DEF ToolStart, NewEntry, Yield, About
  <2>2. /\ pc = "stream" /\ pc' = "stream" /\ Running
        /\ made' = made + 1 /\ nextIndex' = nextIndex + 1
        /\ UNCHANGED <<current, calls, closed, output>> /\ Opened' = Opened
    BY <1>0, <1>19 DEF ToolStart, Waiting, Opened
  <2> HIDE DEF e
  <2>3. r \notin DOMAIN tools
    BY <1>0 DEF TypeOK
  <2> HIDE DEF r
  <2>4. /\ x \in Item /\ x \in {"fco"} \X Nat /\ x[2] = made + 1
        /\ \A t \in OfItem : ~Stream!Seen(log, t, x)
        /\ \A s \in DOMAIN tools : tools[s].item # x
        /\ current # None => current.item # x
    <3>1. \A n \in Nat : n <= made => n # made + 1
      BY <1>0
    <3>2. x \in Item /\ x \in {"fco"} \X Nat /\ x[2] = made + 1
      BY <1>0 DEF Item
    <3>3. \A y \in Item : y[2] <= made => y # x
      BY <3>1, <3>2 DEF Item
    <3> HIDE DEF x
    <3>4. \A s \in DOMAIN tools : tools[s].item # x
      BY <1>0, <3>3, OpenFacts
    <3>5. current # None => current.item # x
      BY <1>0, <3>3, OpenFacts
    <3> QED
      BY <1>0, <3>2, <3>4, <3>5, NextUnseen DEF x
  <2> HIDE DEF x
  <2>5. OpenItems \cup {e.item} \subseteq OpenItems'
    <3>1. \A s \in DOMAIN tools : tools'[s].item = tools[s].item /\ s \in DOMAIN tools'
      BY <2>1, <2>3
    <3> QED
      BY <2>1, <2>2, <3>1 DEF OpenItems
  <2>6. Stream!Legal(log, e)
    <3>1. e.item \in Stream!Items /\ ~Stream!Seen(log, "item.added", e.item)
      BY <2>1, <2>4 DEF Stream!Items, OfItem
    <3>2. e.idx \in Nat /\ ~Stream!Placed(log, e.idx)
      BY <1>0, <2>1, OpenFacts
    <3>3. \A k \in 0 .. (e.idx - 1) : Stream!Placed(log, k)
      BY <1>0, <2>1, <2>2 DEF ToldOfIndices
    <3> QED
      BY <1>a, <2>1, <2>2, <3>1, <3>2, <3>3 DEF Stream!Legal, Stream!Announces
  <2>7. ToldOfItems'
    BY <1>0, <2>1, <2>2, <2>4, ItemsTold
  <2>8. ToldOfMessage' /\ ToldOfCalls'
    BY <2>1, <2>2, <2>4, MessageTold, CallsTold
  <2>9. ToldOfTools'
    <3>1. ~Stream!Seen(log', "item.done", x)
      BY <2>1, <2>4 DEF Grows, OfItem
    <3> QED
      BY <1>0, <2>1, <2>2, <2>3, <2>4, <3>1 DEF ToldOfTools, Grows
  <2>10. ToldOfIndices' /\ ToldOfOutput' /\ ToldOfOpen' /\ ToldOfEnds'
    BY <1>0, <2>1, <2>2, <2>5, Announced, GoesOn
  <2> QED
    BY <2>1, <2>6, <2>7, <2>8, <2>9, <2>10, LegalStep DEF Told
<1>20. ASSUME NEW r \in MayEnd, NEW named \in BOOLEAN, ToolEnd(r, named)
       PROVE  [Stream!Next]_log /\ Told'
  <2> DEFINE e == About("item.done", tools[r].item, tools[r].idx, IF named THEN r ELSE -r, <<>>)
  <2>1. r \in DOMAIN tools
    BY DEF MayEnd, Sequential, OneRun
  <2>2. /\ tools[r].item \in {"fco"} \X Nat /\ tools[r].item \in Item
        /\ tools[r].item[2] <= made
        /\ Stream!AddedAt(log, tools[r].item, tools[r].idx)
    BY <1>0, <2>1, OpenFacts
  <2>3. /\ Grows(e) /\ e.type = "item.done" /\ e.item = tools[r].item
        /\ e.idx = tools[r].idx
        /\ output' = Append(output, [item |-> e.item, call |-> e.call, body |-> e.body])
    BY <1>0, <1>20, <2>1, Growth DEF ToolEnd, ToolEntry, Completes, Yield, About
  <2> HIDE DEF e
  <2>4. /\ pc = "stream" /\ pc' = "stream" /\ Running
        /\ UNCHANGED <<current, calls, closed, made, nextIndex>> /\ Opened' = Opened
        /\ tools' = Restrict(tools, DOMAIN tools \ {r})
    BY <1>0, <1>20, <2>1 DEF ToolEnd, Waiting, Opened
  <2>5. DOMAIN tools' = DOMAIN tools \ {r} /\ \A s \in DOMAIN tools' : tools'[s] = tools[s]
    BY <2>4 DEF Restrict
  <2>6. ~Stream!Seen(log, "item.done", e.item)
    BY <1>0, <2>1, <2>3, <2>4 DEF ToldOfTools
  <2>7. Stream!Legal(log, e)
    BY <1>a, <2>2, <2>3, <2>4, <2>6 DEF Stream!Legal, Stream!SpeaksOfOutput, Stream!OnOpenItem
  <2>8. ToldOfItems'
    BY <1>0, <2>2, <2>3, <2>4, ItemsTold
  <2>9. ToldOfMessage' /\ ToldOfCalls'
    <3>1. /\ current # None => current.item # e.item
          /\ \A n \in DOMAIN calls : calls[n].item # e.item
      BY <1>0, <2>2, <2>3, OpenFacts
    <3> QED
      BY <2>3, <2>4, <3>1, MessageTold, CallsTold
  <2>10. ToldOfTools'
    <3>1. \A s \in DOMAIN tools' : s \in DOMAIN tools /\ s # r
      BY <2>5
    <3>2. \A s \in DOMAIN tools' : tools[s].item # e.item
      BY <1>0, <2>1, <2>3, <2>4, <3>1 DEF ToldOfTools
    <3>3. \A s \in DOMAIN tools' : ~Stream!Seen(log', "item.done", tools[s].item)
      <4>1. \A x : x # e.item /\ ~Stream!Seen(log, "item.done", x)
                    => ~Stream!Seen(log', "item.done", x)
        BY <2>3 DEF Grows
      <4>2. \A s \in DOMAIN tools : ~Stream!Seen(log, "item.done", tools[s].item)
        BY <1>0, <2>4 DEF ToldOfTools
      <4> QED
        BY <3>1, <3>2, <4>1, <4>2
    <3> QED
      BY <1>0, <2>4, <2>5, <3>1, <3>3 DEF ToldOfTools
  <2>11. OpenItems \subseteq OpenItems' \cup {e.item}
    BY <2>3, <2>4, <2>5 DEF OpenItems
  <2>12. ToldOfIndices' /\ ToldOfOutput' /\ ToldOfOpen' /\ ToldOfEnds'
    BY <1>0, <2>3, <2>4, <2>6, <2>11, ReportedDone, GoesOn
  <2> QED
    BY <2>3, <2>7, <2>8, <2>9, <2>10, <2>12, LegalStep DEF Told
<1>21. ASSUME NEW r \in running, ToolError(r) PROVE [Stream!Next]_log /\ Told'
  BY <1>21 DEF ToolError, Sequential
<1>22. CASE Complete \/ GraphRaises
  <2> DEFINE t == IF Complete THEN "completed" ELSE "failed"
             e == [Plain(t) EXCEPT !.output = output]
  <2>1. /\ Grows(e) /\ e.type = t /\ e.output = output
    <3>1. log' = Append(log, e)
      BY <1>22 DEF Complete, GraphRaises, Yield
    <3>2. e.type = t /\ e.output = output
      BY DEF Plain, About
    <3> QED
      BY <1>0, <3>1, <3>2, Growth
  <2> HIDE DEF e
  <2>2. pc = "stream" /\ pc' = "end" /\ Running /\ made' = made
    BY <1>0, <1>22 DEF Complete, GraphRaises, Waiting, items
  <2>3. \A j \in DOMAIN output : Stream!DoneAs(log, output[j])
    BY <1>0, <2>2 DEF ToldOfOutput
  <2>4. ASSUME Complete
        PROVE  /\ \A i \in DOMAIN log : log[i].type = "item.added"
                    => \E j \in DOMAIN output : output[j].item = log[i].item
               /\ \A j, k \in DOMAIN output : output[j].item = output[k].item => j = k
    <3>1. OpenItems = {}
      <4>1. current = None /\ calls = <<>> /\ DOMAIN tools = {}
        BY <2>4 DEF Complete, Waiting, OneRun, Receiving
      <4> QED
        BY <4>1 DEF OpenItems, Opened
    <3> QED
      BY <1>0, <2>2, <3>1 DEF ToldOfOpen, ToldOfOutput
  <2>5. Stream!Legal(log, e)
    <3>1. CASE Complete
      BY <1>a, <2>1, <2>2, <2>3, <2>4, <3>1 DEF Stream!Legal, Stream!Ends
    <3>2. CASE ~Complete
      BY <1>a, <2>1, <2>2, <2>3, <3>2 DEF Stream!Legal, Stream!Ends
    <3> QED
      BY <3>1, <3>2
  <2>6. ToldOfItems'
    BY <1>0, <2>1, <2>2, ItemsTold DEF OfItem
  <2> QED
    BY <2>1, <2>2, <2>5, <2>6, LegalStep DEF Told, Running
<1>23. CASE Disconnect
  BY <1>0, <1>23 DEF Disconnect, items, Told, Running, ToldOfItems
<1>24. CASE UNCHANGED vars
  BY <1>0, <1>24 DEF vars, items, Told, Running, ToldOfItems, ToldOfMessage, ToldOfCalls,
     ToldOfTools, ToldOfIndices, ToldOfOutput, ToldOfOpen, ToldOfEnds, Opened, OpenItems
<1> QED
  BY <1>1, <1>2, <1>3, <1>4, <1>5, <1>6, <1>7, <1>8, <1>9, <1>11, <1>12, <1>13,
     <1>14, <1>15, <1>16, <1>17, <1>18, <1>19, <1>20, <1>21, <1>22, <1>23, <1>24
     DEF Next, Emit

\* While model runs follow one another and every tool that starts ends, every stream
\* this emitter produces is one the Responses protocol allows, with any number of
\* messages, calls and tool outputs: items are announced once, at dense output
\* indices, spoken of only while open, all closed before the response is reported
\* completed, and repeated there as they were closed.
THEOREM SequentialRunsImplementProtocol ==
  ASSUME Sequential
  PROVE  Spec => Protocol
<1>1. Init => Stream!Init /\ TypeInv /\ IndexInv /\ OutputInv /\ OneRun /\ Told
  BY TypeInit, IndexInit, OutputInit, OneRunInit, ProtocolInit
<1>2. /\ TypeInv /\ IndexInv /\ OutputInv /\ OneRun /\ Told /\ [Next]_vars
      => /\ [Stream!Next]_log
         /\ TypeInv' /\ IndexInv' /\ OutputInv' /\ OneRun' /\ Told'
  BY TypeStep, IndexStep, OutputStep, OneRunStep, ProtocolStep DEF OutputInv
<1> QED
  BY <1>1, <1>2, PTL DEF Spec, Protocol, Stream!Spec
=============================================================================
