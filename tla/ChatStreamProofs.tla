-------------------------- MODULE ChatStreamProofs --------------------------
(***************************************************************************)
(* What is proved of ChatStream, whatever the models deliver, however      *)
(* often tools and nodes answer in between, and wherever the run fails or  *)
(* the client leaves: the chunks yielded are a stream ChatProtocol allows, *)
(* they are what the models said and nothing else, the reason they end     *)
(* with is that of the answer that is not streamed, calls keep their       *)
(* indices, and the messages of the run become items with ids of their     *)
(* own.  The last two are about a provider whose pieces are Coherent.      *)
(***************************************************************************)
EXTENDS ChatStream, MessageProofs

-----------------------------------------------------------------------------
(* The protocol speaks of the last chunk alone, while the generator goes   *)
(* by where it is and by pending_tool_call.  The two agree.                *)

LogIsSequence == \E S : log \in Seq(S)

\* pc says what the last chunk is, and pending_tool_call whether it is of a call.
\* A stream that is broken off or abandoned grows no more.
Told ==
  /\ pc = "start" => log = <<>> /\ ~pending
  /\ pc = "stream" => /\ Stream!LastType(log) \in {"role", "text", "call"}
                      /\ pending <=> Stream!LastType(log) = "call"
  /\ pc = "finished" => Stream!LastType(log) = "finish"

ChatInv == LogIsSequence /\ Told

\* The last chunk of a stream that has grown is the new one.
LEMMA LastOfAppend ==
  ASSUME LogIsSequence, NEW e, log' = Append(log, e)
  PROVE  /\ log' # <<>> /\ log'[Len(log')] = e
         /\ LogIsSequence' /\ Stream!LastType(log') = e.type
<1>1. PICK S : log \in Seq(S)
  BY DEF LogIsSequence
<1>2. log \in Seq(S \cup {e})
  BY <1>1
<1>3. /\ log' \in Seq(S \cup {e}) /\ Len(log') = Len(log) + 1 /\ log'[Len(log')] = e
      /\ Len(log) \in Nat
  BY <1>2
<1>4. log' # <<>>
  BY <1>3
<1> QED
  BY <1>3, <1>4 DEF LogIsSequence, Stream!LastType

\* A chunk that is legal after the log is a step of the protocol.
LEMMA ChatLegalStep ==
  ASSUME LogIsSequence, NEW e, log' = Append(log, e), Stream!Legal(log, e)
  PROVE  Stream!Next /\ LogIsSequence' /\ Stream!LastType(log') = e.type
<1>1. /\ log' # <<>> /\ log'[Len(log')] = e
      /\ LogIsSequence' /\ Stream!LastType(log') = e.type
  BY LastOfAppend
<1> QED
  BY <1>1 DEF Stream!Next

-----------------------------------------------------------------------------
LEMMA ChatInitTold == Init => Stream!Init /\ ChatInv
<1> SUFFICES ASSUME Init PROVE Stream!Init /\ ChatInv
  OBVIOUS
<1>1. log = <<>> /\ pc = "start" /\ ~pending
  BY DEF Init
<1>2. log \in Seq({})
  BY <1>1
<1> QED
  BY <1>1, <1>2 DEF Stream!Init, ChatInv, LogIsSequence, Told

\* The steps of the run yield nothing; those of the generator yield one legal chunk.
LEMMA ChatProtocolStep ==
  ChatInv /\ [Next]_vars => [Stream!Next]_log /\ ChatInv'
<1> SUFFICES ASSUME ChatInv, [Next]_vars PROVE [Stream!Next]_log /\ ChatInv'
  OBVIOUS
<1>0. LogIsSequence /\ Told
  BY DEF ChatInv
<1>1. ASSUME UNCHANGED <<pc, pending, log>> PROVE [Stream!Next]_log /\ ChatInv'
  BY <1>0, <1>1 DEF ChatInv, LogIsSequence, Told, Stream!LastType
<1>2. ASSUME NEW k \in Chunks, StartsAnswer(k) \/ GoesOn(k)
      PROVE  [Stream!Next]_log /\ ChatInv'
  BY <1>1, <1>2 DEF StartsAnswer, GoesOn, Receive
<1>3. ASSUME ToolsAnswer \/ \E thinks \in BOOLEAN : Answers(thinks)
      PROVE  [Stream!Next]_log /\ ChatInv'
  BY <1>1, <1>3 DEF ToolsAnswer, Answers, Skipped
<1>4. CASE Role
  <2> DEFINE e == Delta("role", <<>>)
  <2>1. log' = Append(log, e) /\ e.type = "role" /\ pending' = pending
    BY <1>4 DEF Role, Yield, Delta
  <2>2. Stream!Legal(log, e)
    BY <1>0, <1>4, <2>1 DEF Role, Told, Stream!Legal, Stream!LastType
  <2>3. [Stream!Next]_log /\ LogIsSequence' /\ Stream!LastType(log') = "role"
    BY <1>0, <2>1, <2>2, ChatLegalStep
  <2>4. pc' = "stream" /\ ~pending'
    BY <1>0, <1>4, <2>1 DEF Role, Told
  <2> QED
    BY <2>1, <2>3, <2>4 DEF ChatInv, Told
<1>5. CASE EmitText
  <2> DEFINE e == Delta("text", <<cur.text>>)
  <2>1. log' = Append(log, e) /\ e.type = "text" /\ pending' = FALSE /\ pc = "stream" /\ pc' = pc
    BY <1>5 DEF EmitText, Yield, Delta
  <2>2. Stream!Legal(log, e)
    BY <1>0, <2>1 DEF Told, Stream!Legal
  <2>3. [Stream!Next]_log /\ LogIsSequence' /\ Stream!LastType(log') = "text"
    BY <1>0, <2>1, <2>2, ChatLegalStep
  <2> QED
    BY <2>1, <2>3 DEF ChatInv, Told
<1>6. CASE EmitCall
  <2>1. pc = "stream" /\ pc' = pc /\ pending' = TRUE
    BY <1>6 DEF EmitCall
  <2> DEFINE f == Head(cur.frags)
             e == [Delta("call", Token(f.args)) EXCEPT
                     !.idx = IndexFor(f), !.call = f.id, !.of = Origin(f)]
  <2>2. log' = Append(log, e) /\ e.type = "call"
    BY <1>6 DEF EmitCall, Yield, Delta
  <2> HIDE DEF e
  <2>3. Stream!Legal(log, e)
    BY <1>0, <2>1, <2>2 DEF Told, Stream!Legal
  <2>4. [Stream!Next]_log /\ LogIsSequence' /\ Stream!LastType(log') = "call"
    BY <1>0, <2>2, <2>3, ChatLegalStep
  <2> QED
    BY <2>1, <2>4 DEF ChatInv, Told
<1>7. CASE Finish
  <2> DEFINE e == [Delta("finish", <<>>) EXCEPT !.finish = FinishReason]
  <2>1. pc = "stream" /\ pc' = "finished" /\ log' = Append(log, e)
    BY <1>7 DEF Finish, Waiting, Yield
  <2>2. e.type = "finish" /\ e.finish = IF pending THEN "tool_calls" ELSE "stop"
    BY DEF Delta, FinishReason
  <2>3. Stream!Legal(log, e)
    BY <1>0, <2>1, <2>2 DEF Told, Stream!Legal
  <2>4. [Stream!Next]_log /\ LogIsSequence' /\ Stream!LastType(log') = "finish"
    BY <1>0, <2>1, <2>2, <2>3, ChatLegalStep
  <2> QED
    BY <2>1, <2>4 DEF ChatInv, Told
<1>8. CASE Done
  <2> DEFINE e == Delta("done", <<>>)
  <2>1. pc = "finished" /\ pc' = "end" /\ log' = Append(log, e) /\ e.type = "done"
    BY <1>8 DEF Done, Yield, Delta
  <2>2. Stream!Legal(log, e)
    BY <1>0, <2>1 DEF Told, Stream!Legal
  <2>3. [Stream!Next]_log /\ LogIsSequence'
    BY <1>0, <2>1, <2>2, ChatLegalStep
  <2> QED
    BY <2>1, <2>3 DEF ChatInv, Told
<1>9. CASE GraphRaises \/ Disconnect
  <2>1. log' = log /\ pc' \in {"broken", "gone"}
    BY <1>9 DEF GraphRaises, Disconnect
  <2> QED
    BY <1>0, <2>1 DEF ChatInv, LogIsSequence, Told
<1>10. CASE UNCHANGED vars
  BY <1>1, <1>10 DEF vars
<1> QED
  BY <1>2, <1>3, <1>4, <1>5, <1>6, <1>7, <1>8, <1>9, <1>10 DEF Next, Emit

\* Every chat stream is one a client can read, for every set of chunks, any number
\* of them and any length of the conversation: the role once and first, deltas, one
\* finish chunk whose reason is that of the last delta, [DONE], nothing after.
THEOREM ChatImplementsProtocol == Spec => Protocol
<1>1. Init => Stream!Init /\ ChatInv
  BY ChatInitTold
<1>2. ChatInv /\ [Next]_vars => [Stream!Next]_log /\ ChatInv'
  BY ChatProtocolStep
<1> QED
  BY <1>1, <1>2, PTL DEF Spec, Protocol, Stream!Spec

-----------------------------------------------------------------------------
(* Putting messages together.                                              *)

LEMMA AddFragmentType ==
  ASSUME NEW calls \in Seq(Call), NEW f \in CallFrag, NEW first
  PROVE  AddFragment(calls, f, first) \in Seq(Call) /\ AddFragment(calls, f, first) # <<>>
<1>1. /\ f.origin \in Nat /\ f.index \in Nat \cup {None} /\ f.id \in CallId \cup {None}
      /\ Token(f.args) \in Seq(Nat) /\ IsObject(calls, f) \in BOOLEAN
  BY DEF CallFrag, Token, IsObject, Begins
<1>2. NewCall(calls, f) \in Call
  BY <1>1 DEF Call, NewCall
<1>3. ASSUME NEW n \in DOMAIN calls PROVE Taken(calls, f, n) \in Call
  <2>1. PICK c, object : c = calls[n] /\ object = IsObject(calls, f)
    OBVIOUS
  <2>2. c \in Call /\ object \in BOOLEAN
    BY <1>1, <2>1
  <2>3. /\ IdOf(c, f.id) \in CallId \cup {None} /\ c.args \in Seq(Nat)
        /\ (IF c.args = <<>> THEN object ELSE c.object) \in BOOLEAN
    BY <1>1, <2>2 DEF IdOf, Call
  <2>4. c.args \o Token(f.args) \in Seq(Nat)
    BY <1>1, <2>3
  <2>5. Merged(c, f, object) \in Call
    BY <2>2, <2>3, <2>4 DEF Merged, Call
  <2> QED
    BY <2>1, <2>5 DEF Taken
<1>4. PICK d : d = AddFragment(calls, f, first)
  OBVIOUS
<1>5. CASE d = Append(calls, NewCall(calls, f))
  <2>1. d \in Seq(Call) /\ Len(d) = Len(calls) + 1 /\ Len(calls) \in Nat
    BY <1>2, <1>5
  <2> QED
    BY <1>4, <2>1
<1>6. ASSUME NEW n \in DOMAIN calls, d = [calls EXCEPT ![n] = Taken(calls, f, n)]
      PROVE  d \in Seq(Call) /\ d # <<>>
  <2>1. PICK t : t = Taken(calls, f, n) /\ t \in Call
    BY <1>3
  <2>2. d = [calls EXCEPT ![n] = t] /\ DOMAIN d = DOMAIN calls
    BY <1>6, <2>1
  <2> QED
    BY <2>1, <2>2
<1> QED
  BY <1>4, <1>5, <1>6, FragmentAdded

LEMMA AddFragmentsType ==
  ASSUME NEW calls \in Seq(Call), NEW frags \in Seq(CallFrag), NEW first
  PROVE  /\ AddFragments(calls, frags, first) \in Seq(Call)
         /\ AddFragments(calls, frags, first) = <<>> <=> calls = <<>> /\ frags = <<>>
<1>1. Len(frags) \in Nat /\ \A n \in 1 .. Len(frags) : frags[n] \in CallFrag
  OBVIOUS
<1>2. PICK f : AddsUp(f, calls, frags, first)
  BY <1>1, AddFragmentsSteps
<1> DEFINE T == {k \in 0 .. Len(frags) : f[k] \in Seq(Call) /\ (f[k] = <<>> <=> calls = <<>> /\ k = 0)}
<1>3. 0 \in T
  BY <1>1, <1>2 DEF AddsUp
<1>4. ASSUME NEW k \in 0 .. (Len(frags) - 1), k \in T PROVE k + 1 \in T
  <2>1. /\ k + 1 \in 1 .. Len(frags) /\ k + 1 # 0
        /\ f[k + 1] = AddFragment(f[k], frags[k + 1], first)
    BY <1>1, <1>2 DEF AddsUp
  <2>2. f[k] \in Seq(Call) /\ frags[k + 1] \in CallFrag
    BY <1>1, <1>4, <2>1
  <2>3. f[k + 1] \in Seq(Call) /\ f[k + 1] # <<>>
    BY <2>1, <2>2, AddFragmentType
  <2> QED
    BY <1>1, <2>1, <2>3
<1> HIDE DEF T
<1>5. Len(frags) \in T
  BY <1>1, <1>3, <1>4, UpTo
<1> QED
  BY <1>1, <1>2, <1>5 DEF T, AddsUp

-----------------------------------------------------------------------------
(* Types.                                                                  *)

\* A chunk that is delivered as a part of message n.
LEMMA DeliverType ==
  ASSUME NEW k \in Chunks, NEW n \in Nat, fed \in Nat
  PROVE  LET c == Deliver(k, n)
         IN /\ c.reasoning \in Nat /\ c.text \in Nat /\ c.frags \in Seq(CallFrag)
            /\ Len(c.frags) = Len(k.frags) /\ Len(k.frags) \in Nat
            /\ k.frags \in Seq(Fragment)
            /\ \A j \in DOMAIN c.frags :
                 /\ j \in DOMAIN k.frags
                 /\ c.frags[j].index = k.frags[j].index /\ c.frags[j].origin = k.frags[j].origin
                 /\ c.frags[j].args = IF k.frags[j].args THEN fed + 2 + j ELSE 0
                 /\ c.frags[j].id = IF k.frags[j].id = None THEN None ELSE <<n, k.frags[j].id>>
            /\ c.reasoning = (IF k.reasoning THEN fed + 1 ELSE 0)
            /\ c.text = (IF k.text THEN fed + 2 ELSE 0)
<1> DEFINE c == Deliver(k, n)
           frag(j) == [index |-> k.frags[j].index,
                       id |-> IF k.frags[j].id = None THEN None ELSE <<n, k.frags[j].id>>,
                       args |-> IF k.frags[j].args THEN fed + 2 + j ELSE 0,
                       origin |-> k.frags[j].origin]
<1>1. k.frags \in Seq(Fragment)
  BY ChatChunksAssumption DEF ChunkKind
<1>2. Len(k.frags) \in Nat /\ DOMAIN k.frags = 1 .. Len(k.frags)
  BY <1>1
<1>3. c.frags = [j \in 1 .. Len(k.frags) |-> frag(j)]
  <2> DEFINE d == Fill(k, fed)
             named(j) == [d.frags[j] EXCEPT
                            !.id = IF d.frags[j].id = None THEN None ELSE <<n, d.frags[j].id>>]
  <2>1. DOMAIN d.frags = 1 .. Len(k.frags)
    BY <1>2 DEF Fill
  <2>2. c.frags = [j \in DOMAIN d.frags |-> named(j)]
    BY DEF Deliver, Fill
  <2>3. ASSUME NEW j \in 1 .. Len(k.frags) PROVE named(j) = frag(j)
    <3>1. d.frags[j] = [index |-> k.frags[j].index, id |-> k.frags[j].id,
                        args |-> IF k.frags[j].args THEN fed + 2 + j ELSE 0,
                        origin |-> k.frags[j].origin]
      BY <1>2, <2>3 DEF Fill
    <3> QED
      BY <3>1
  <2> HIDE DEF c, d, named, frag
  <2> QED
    BY <2>1, <2>2, <2>3
<1>4. c.reasoning = (IF k.reasoning THEN fed + 1 ELSE 0) /\ c.text = (IF k.text THEN fed + 2 ELSE 0)
  BY DEF Deliver, Fill
<1>5. ASSUME NEW j \in DOMAIN k.frags PROVE frag(j) \in CallFrag
  <2>1. k.frags[j] \in Fragment
    BY <1>1
  <2> QED
    BY <1>2, <2>1 DEF Fragment, CallFrag, CallId
<1>6. c.frags \in Seq(CallFrag) /\ Len(c.frags) = Len(k.frags)
  <2>1. [j \in 1 .. Len(k.frags) |-> frag(j)] \in [1 .. Len(k.frags) -> CallFrag]
    BY <1>2, <1>5
  <2> HIDE DEF c, frag
  <2> QED
    BY <1>2, <1>3, <2>1
<1>7. DOMAIN c.frags = DOMAIN k.frags /\ \A j \in DOMAIN c.frags : c.frags[j] = frag(j)
  <2> HIDE DEF c, frag
  <2> QED
    BY <1>2, <1>3
<1>8. c.reasoning \in Nat /\ c.text \in Nat
  BY <1>4
<1> HIDE DEF c
<1>9. \A j \in DOMAIN c.frags :
        /\ j \in DOMAIN k.frags
        /\ c.frags[j].index = k.frags[j].index /\ c.frags[j].origin = k.frags[j].origin
        /\ c.frags[j].args = IF k.frags[j].args THEN fed + 2 + j ELSE 0
        /\ c.frags[j].id = IF k.frags[j].id = None THEN None ELSE <<n, k.frags[j].id>>
  <2> TAKE j \in DOMAIN c.frags
  <2>1. c.frags[j] = frag(j) /\ j \in DOMAIN k.frags
    BY <1>7
  <2> QED
    BY <2>1
<1> QED
  BY <1>1, <1>2, <1>4, <1>6, <1>8, <1>9 DEF c

Adds(m, c, first) ==
  LET d == AddChunk(m, c, first)
  IN /\ d \in ChatMessage /\ d.id = m.id /\ d.role = m.role
     /\ d.thought = m.thought /\ d.answers = m.answers
     /\ d.text = m.text \o Token(c.text) /\ d.calls = AddFragments(m.calls, c.frags, first)

LEMMA AddChunkType ==
  ASSUME NEW m \in ChatMessage, NEW c, c.reasoning \in Nat, c.text \in Nat,
         c.frags \in Seq(CallFrag), NEW first
  PROVE  Adds(m, c, first)
<1> DEFINE d == AddChunk(m, c, first)
<1>1. /\ m.text \in Seq(Nat) /\ m.calls \in Seq(Call) /\ m.blocks \in Seq(Seq(Nat))
      /\ Token(c.text) \in Seq(Nat) /\ Token(c.reasoning) \in Seq(Nat)
  BY DEF ChatMessage, Token
<1>2. AddFragments(m.calls, c.frags, first) \in Seq(Call)
  BY <1>1, AddFragmentsType
<1>3. m.text \o Token(c.text) \in Seq(Nat) /\ Append(m.blocks, Token(c.reasoning)) \in Seq(Seq(Nat))
  BY <1>1
<1>4. /\ d.id = m.id /\ d.role = m.role /\ d.thought = m.thought /\ d.answers = m.answers
      /\ d.text = m.text \o Token(c.text) /\ d.calls = AddFragments(m.calls, c.frags, first)
  BY DEF AddChunk, ChatMessage
<1>5. d \in ChatMessage
  BY <1>1, <1>2, <1>3 DEF AddChunk, ChatMessage
<1> QED
  BY <1>4, <1>5 DEF Adds

LEMMA NewMessageType ==
  ASSUME Len(messages) \in Nat, NEW role \in {"user", "assistant", "tool"}, NEW text \in Seq(Nat)
  PROVE  LET m == NewMessage(role, text)
         IN /\ m \in ChatMessage /\ m.id = Len(messages) + 1 /\ m.role = role /\ m.text = text
            /\ m.calls = <<>>
<1>1. <<>> \in Seq(Call) /\ <<>> \in Seq(Seq(Nat))
  OBVIOUS
<1> QED
  BY <1>1 DEF NewMessage, Message, ChatMessage

LEMMA InitType == Init => TypeOK
<1> SUFFICES ASSUME Init PROVE TypeOK
  OBVIOUS
<1>1. <<1>> \in Seq(Nat) /\ <<>> \in Seq(Call) /\ <<>> \in Seq(Seq(Nat)) /\ <<>> \in Seq(CallFrag)
  OBVIOUS
<1>2. Message(1, "user", <<1>>) \in ChatMessage
  BY <1>1 DEF Message, ChatMessage
<1>3. messages \in Seq(ChatMessage) /\ messages # <<>>
  BY <1>2 DEF Init
<1>4. cur \in [reasoning : {0}, text : Nat, frags : Seq(CallFrag)]
  BY <1>1 DEF Init, Nothing
<1>5. DOMAIN toolIndex = {} /\ toolIndex \in [DOMAIN toolIndex -> 0 .. (nextIndex - 1)]
  BY DEF Init
<1>6. log \in Seq(Reply)
  BY DEF Init
<1>7. /\ pc \in {"start", "stream", "finished", "end", "broken", "gone"}
      /\ streamed \subseteq DOMAIN messages /\ late \subseteq streamed
      /\ {delivered, fed, nextIndex} \subseteq Nat /\ pending \in BOOLEAN
  <2>1. pc = "start" /\ streamed = {} /\ late = {} /\ pending = FALSE
    BY DEF Init
  <2>2. delivered = 0 /\ fed = 1 /\ nextIndex = 0
    BY DEF Init
  <2>3. {delivered, fed, nextIndex} \subseteq Nat
    BY <2>2
  <2> QED
    BY <2>1, <2>3
<1>8. DOMAIN toolIndex \subseteq {"id", "pos"} \X Nat \X Nat
  BY <1>5
<1> QED
  BY <1>3, <1>4, <1>5, <1>6, <1>7, <1>8 DEF TypeOK

LEMMA LatestType ==
  ASSUME TypeOK
  PROVE  /\ Len(messages) \in Nat \ {0} /\ Len(messages) \in DOMAIN messages
         /\ DOMAIN messages = 1 .. Len(messages)
         /\ Latest = messages[Len(messages)] /\ Latest \in ChatMessage
         /\ Latest.calls \in Seq(Call) /\ Latest.text \in Seq(Nat)
<1>1. messages \in Seq(ChatMessage) /\ messages # <<>>
  BY DEF TypeOK
<1>2. Len(messages) \in Nat \ {0} /\ Len(messages) \in DOMAIN messages
  BY <1>1
<1>3. Latest = messages[Len(messages)]
  BY DEF Latest, LastMessage
<1>4. Latest \in ChatMessage
  BY <1>1, <1>2, <1>3
<1> QED
  BY <1>1, <1>2, <1>3, <1>4 DEF ChatMessage

\* A chunk that arrives: what becomes of the messages.
LEMMA ReceiveType ==
  ASSUME TypeOK, NEW k \in Chunks, NEW n \in Nat, NEW grown \in Seq(ChatMessage), grown # <<>>,
         Receive(Deliver(k, n), grown),
         streamed' \subseteq DOMAIN grown, late' \subseteq streamed'
  PROVE  TypeOK'
<1> DEFINE c == Deliver(k, n)
<1>1. fed \in Nat
  BY DEF TypeOK
<1>2. c.text \in Nat /\ c.frags \in Seq(CallFrag) /\ Len(c.frags) \in Nat
  BY <1>1, DeliverType
<1>3. /\ delivered' = delivered + 1 /\ fed' = fed + 2 + Len(c.frags) /\ messages' = grown
      /\ cur' = [Contents(c) EXCEPT !.reasoning = 0]
      /\ UNCHANGED <<pc, pending, toolIndex, nextIndex, log>>
  BY DEF Receive
<1> HIDE DEF c
<1>4. cur' \in [reasoning : {0}, text : Nat, frags : Seq(CallFrag)]
  BY <1>2, <1>3 DEF Contents
<1>5. delivered' \in Nat /\ fed' \in Nat
  BY <1>1, <1>2, <1>3, SMTT(30) DEF TypeOK
<1> QED
  BY <1>3, <1>4, <1>5 DEF TypeOK

\* The new or the last message with what a chunk adds to it.
LEMMA StartsAnswerType ==
  ASSUME TypeOK, NEW k \in Chunks
  PROVE  LET n == Len(messages) + 1
             m == AddChunk(NewMessage("assistant", <<>>), Deliver(k, n), TRUE)
             grown == Append(messages, m)
         IN /\ m \in ChatMessage /\ m.id = n /\ m.role = "assistant"
            /\ m.text = Token(Deliver(k, n).text)
            /\ m.calls = AddFragments(<<>>, Deliver(k, n).frags, TRUE)
            /\ grown \in Seq(ChatMessage) /\ Len(grown) = n /\ DOMAIN grown = 1 .. n
            /\ grown[n] = m /\ \A i \in DOMAIN messages : grown[i] = messages[i]
<1>0. PICK first : first = TRUE
  OBVIOUS
<1> DEFINE n == Len(messages) + 1
           c == Deliver(k, n)
           new == NewMessage("assistant", <<>>)
           m == AddChunk(new, c, first)
           grown == Append(messages, m)
<1>1. messages \in Seq(ChatMessage) /\ Len(messages) \in Nat /\ n \in Nat /\ fed \in Nat
  BY DEF TypeOK
<1>2. c.reasoning \in Nat /\ c.text \in Nat /\ c.frags \in Seq(CallFrag)
  BY <1>1, DeliverType
<1>3. new \in ChatMessage /\ new.id = n /\ new.role = "assistant" /\ new.text = <<>> /\ new.calls = <<>>
  <2>1. <<>> \in Seq(Nat) /\ "assistant" \in {"user", "assistant", "tool"}
    OBVIOUS
  <2> QED
    BY <1>1, <2>1, NewMessageType
<1> HIDE DEF c, new
<1>4. /\ m \in ChatMessage /\ m.id = new.id /\ m.role = new.role
      /\ m.text = new.text \o Token(c.text) /\ m.calls = AddFragments(new.calls, c.frags, first)
  <2>1. PICK x, y : x = new /\ y = c
    OBVIOUS
  <2>2. Adds(x, y, first)
    BY <1>2, <1>3, <2>1, AddChunkType
  <2> QED
    BY <2>1, <2>2 DEF Adds
<1>5. Token(c.text) \in Seq(Nat) /\ <<>> \o Token(c.text) = Token(c.text)
  BY <1>2 DEF Token
<1> HIDE DEF m
<1>6. /\ grown \in Seq(ChatMessage) /\ Len(grown) = n /\ DOMAIN grown = 1 .. n
      /\ grown[n] = m /\ \A i \in DOMAIN messages : grown[i] = messages[i]
  BY <1>1, <1>4
<1> QED
  BY <1>0, <1>3, <1>4, <1>5, <1>6 DEF c, new, m

LEMMA GoesOnType ==
  ASSUME TypeOK, NEW k \in Chunks
  PROVE  LET n == Len(messages)
             m == AddChunk(messages[n], Deliver(k, n), FALSE)
             grown == [messages EXCEPT ![n] = AddChunk(@, Deliver(k, n), FALSE)]
         IN /\ m \in ChatMessage /\ m.id = Latest.id /\ m.role = Latest.role
            /\ m.text = Latest.text \o Token(Deliver(k, n).text)
            /\ m.calls = AddFragments(Latest.calls, Deliver(k, n).frags, FALSE)
            /\ grown \in Seq(ChatMessage) /\ Len(grown) = n /\ DOMAIN grown = 1 .. n
            /\ grown[n] = m /\ \A i \in DOMAIN messages \ {n} : grown[i] = messages[i]
<1>0. PICK first : first = FALSE
  OBVIOUS
<1> DEFINE n == Len(messages)
           c == Deliver(k, n)
           m == AddChunk(messages[n], c, first)
           grown == [messages EXCEPT ![n] = m]
<1>1. /\ messages \in Seq(ChatMessage) /\ n \in Nat /\ n \in DOMAIN messages /\ fed \in Nat
      /\ DOMAIN messages = 1 .. n /\ Latest = messages[n] /\ Latest \in ChatMessage
  BY LatestType DEF TypeOK
<1>2. c.reasoning \in Nat /\ c.text \in Nat /\ c.frags \in Seq(CallFrag)
  BY <1>1, DeliverType
<1> HIDE DEF c
<1>3. /\ m \in ChatMessage /\ m.id = Latest.id /\ m.role = Latest.role
      /\ m.text = Latest.text \o Token(c.text) /\ m.calls = AddFragments(Latest.calls, c.frags, first)
  <2>1. PICK x, y : x = messages[n] /\ y = c
    OBVIOUS
  <2>2. Adds(x, y, first)
    BY <1>1, <1>2, <2>1, AddChunkType
  <2> QED
    BY <1>1, <2>1, <2>2 DEF Adds
<1> HIDE DEF m
<1>4. /\ grown \in Seq(ChatMessage) /\ Len(grown) = n /\ DOMAIN grown = 1 .. n
      /\ grown[n] = m /\ \A i \in DOMAIN messages \ {n} : grown[i] = messages[i]
  BY <1>1, <1>3
<1> QED
  BY <1>0, <1>3, <1>4 DEF c, m

\* Messages that are not delivered in chunks.
LEMMA SkippedType ==
  ASSUME TypeOK, NEW more \in Seq(ChatMessage), Skipped(more)
  PROVE  /\ TypeOK'
         /\ Len(messages') = Len(messages) + Len(more)
         /\ \A i \in DOMAIN messages : messages'[i] = messages[i]
         /\ \A i \in DOMAIN more : messages'[Len(messages) + i] = more[i]
<1>1. /\ messages \in Seq(ChatMessage) /\ Len(messages) \in Nat \ {0} /\ fed \in Nat
      /\ DOMAIN messages = 1 .. Len(messages)
  BY LatestType DEF TypeOK
<1>2. /\ messages' = messages \o more /\ fed' = fed + Len(more)
      /\ UNCHANGED <<pc, streamed, late, delivered, cur, pending, toolIndex, nextIndex, log>>
  BY DEF Skipped
<1>3. /\ messages' \in Seq(ChatMessage) /\ Len(messages') = Len(messages) + Len(more)
      /\ \A i \in DOMAIN messages : messages'[i] = messages[i]
      /\ \A i \in DOMAIN more : messages'[Len(messages) + i] = more[i]
      /\ Len(more) \in Nat /\ DOMAIN messages' = 1 .. Len(messages')
  BY <1>1, <1>2
<1>4. messages' # <<>> /\ DOMAIN messages \subseteq DOMAIN messages'
  BY <1>1, <1>3
<1>5. fed' \in Nat
  BY <1>1, <1>2, <1>3
<1>6. streamed' \subseteq DOMAIN messages'
  BY <1>2, <1>4 DEF TypeOK
<1> QED
  BY <1>2, <1>3, <1>4, <1>5, <1>6 DEF TypeOK

LEMMA ToolsAnswerType ==
  ASSUME TypeOK, ToolsAnswer
  PROVE  \E more \in Seq(ChatMessage) :
           /\ Skipped(more) /\ more # <<>>
           /\ \A i \in DOMAIN more :
                more[i].role = "tool" /\ more[i].id = Len(messages) + i /\ more[i].calls = <<>>
<1>0. PICK asked : asked = ToolCalls(Latest)
  OBVIOUS
<1>1. asked \in Seq(Call) /\ Len(messages) \in Nat /\ fed \in Nat /\ asked # <<>>
  BY <1>0, LatestType, ToolCallsAre DEF TypeOK, ToolsAnswer
<1> DEFINE answer(i) == [NewMessage("tool", <<fed + i>>) EXCEPT
                           !.id = Len(messages) + i, !.answers = asked[i].id]
           more == [i \in DOMAIN asked |-> answer(i)]
<1>2. DOMAIN asked = 1 .. Len(asked) /\ Len(asked) \in Nat \ {0}
  BY <1>1
<1>3. ASSUME NEW i \in DOMAIN asked
      PROVE  /\ answer(i) \in ChatMessage /\ answer(i).role = "tool"
             /\ answer(i).id = Len(messages) + i /\ answer(i).calls = <<>>
  <2> DEFINE m == NewMessage("tool", <<fed + i>>)
  <2>1. i \in Nat /\ <<fed + i>> \in Seq(Nat) /\ Len(messages) + i \in Nat
    BY <1>1, <1>2
  <2>2. m \in ChatMessage /\ m.role = "tool" /\ m.calls = <<>>
    BY <1>1, <2>1, NewMessageType
  <2>3. asked[i] \in Call
    BY <1>1
  <2>4. asked[i].id \in CallId \cup {None}
    BY <2>3 DEF Call
  <2> HIDE DEF m
  <2>5. [m EXCEPT !.id = Len(messages) + i, !.answers = asked[i].id] \in ChatMessage
    BY <2>1, <2>2, <2>4 DEF ChatMessage
  <2>6. /\ [m EXCEPT !.id = Len(messages) + i, !.answers = asked[i].id].role = "tool"
        /\ [m EXCEPT !.id = Len(messages) + i, !.answers = asked[i].id].id = Len(messages) + i
        /\ [m EXCEPT !.id = Len(messages) + i, !.answers = asked[i].id].calls = <<>>
    BY <2>2 DEF ChatMessage
  <2> QED
    BY <2>5, <2>6 DEF m
<1> HIDE DEF answer
<1>4. more \in [1 .. Len(asked) -> ChatMessage]
  BY <1>2, <1>3
<1>5. more \in Seq(ChatMessage) /\ 1 \in DOMAIN more
  BY <1>2, <1>4
<1>6. Skipped(more)
  BY <1>0 DEF ToolsAnswer, answer
<1>7. \A i \in DOMAIN more :
        more[i].role = "tool" /\ more[i].id = Len(messages) + i /\ more[i].calls = <<>>
  BY <1>2, <1>3
<1>8. more # <<>>
  BY <1>5
<1> HIDE DEF more
<1> QED
  BY <1>5, <1>6, <1>7, <1>8

LEMMA AnswersType ==
  ASSUME TypeOK, NEW thinks \in BOOLEAN, Answers(thinks)
  PROVE  \E more \in Seq(ChatMessage) :
           /\ Skipped(more) /\ more # <<>>
           /\ \A i \in DOMAIN more :
                more[i].role = "assistant" /\ more[i].id = Len(messages) + i /\ more[i].calls = <<>>
<1>1. Len(messages) \in Nat /\ fed \in Nat
  BY LatestType DEF TypeOK
<1> DEFINE new == NewMessage("assistant", <<fed + 1>>)
           m == [new EXCEPT !.thought = IF thinks THEN <<fed + 1>> ELSE None]
           more == <<m>>
<1>2. <<fed + 1>> \in Seq(Nat)
  BY <1>1
<1>3. /\ new \in ChatMessage /\ new.role = "assistant" /\ new.id = Len(messages) + 1
      /\ new.calls = <<>>
  BY <1>1, <1>2, NewMessageType
<1>4. Skipped(more)
  BY DEF Answers
<1> HIDE DEF new
<1>5. m \in ChatMessage /\ m.role = "assistant" /\ m.id = Len(messages) + 1 /\ m.calls = <<>>
  BY <1>2, <1>3 DEF ChatMessage
<1> HIDE DEF m
<1>6. more \in Seq(ChatMessage) /\ more # <<>> /\ DOMAIN more = {1} /\ more[1] = m
  BY <1>5
<1> QED
  BY <1>4, <1>5, <1>6

\* A fragment that is taken out and the chunk that is yielded for it.
LEMMA HeadFrag ==
  ASSUME TypeOK, cur.frags # <<>>
  PROVE  /\ Head(cur.frags) \in CallFrag /\ Head(cur.frags) = cur.frags[1]
         /\ Tail(cur.frags) \in Seq(CallFrag) /\ 1 \in DOMAIN cur.frags
         /\ \A j \in DOMAIN Tail(cur.frags) :
              j + 1 \in DOMAIN cur.frags /\ Tail(cur.frags)[j] = cur.frags[j + 1]
<1>1. cur.frags \in Seq(CallFrag)
  BY DEF TypeOK
<1> QED
  BY <1>1

LEMMA IndexType ==
  ASSUME TypeOK, NEW f \in CallFrag
  PROVE  /\ KeyFor(f) \in {"id", "pos"} \X Nat \X Nat
         /\ IndexFor(f) \in Nat /\ NextAfter(IndexFor(f)) \in Nat
         /\ IndexFor(f) < NextAfter(IndexFor(f)) /\ nextIndex <= NextAfter(IndexFor(f))
<1>1. f.index \in Nat \cup {None} /\ f.id \in CallId \cup {None} /\ nextIndex \in Nat
  BY DEF CallFrag, TypeOK
<1>2. KeyFor(f) \in {"id", "pos"} \X Nat \X Nat
  <2>1. CASE f.id # None
    <3>1. f.id[1] \in Nat /\ f.id[2] \in Nat
      BY <1>1, <2>1 DEF CallId
    <3> QED
      BY <2>1, <3>1 DEF KeyFor
  <2>2. CASE f.id = None
    BY <1>1, <2>2 DEF KeyFor
  <2> QED
    BY <2>1, <2>2
<1> DEFINE key == KeyFor(f)
<1> HIDE DEF key
<1>3. key \in DOMAIN toolIndex => toolIndex[key] \in Nat
  <2>1. toolIndex \in [DOMAIN toolIndex -> 0 .. (nextIndex - 1)]
    BY DEF TypeOK
  <2> QED
    BY <1>1, <2>1
<1>4. IndexFor(f) \in Nat
  BY <1>1, <1>3 DEF IndexFor, key
<1>5. \A idx \in Nat : /\ NextAfter(idx) \in Nat /\ idx < NextAfter(idx)
                       /\ nextIndex <= NextAfter(idx)
  BY <1>1 DEF NextAfter
<1> QED
  BY <1>2, <1>4, <1>5

LEMMA SetDefaultType ==
  ASSUME TypeOK, NEW key \in {"id", "pos"} \X Nat \X Nat, NEW idx \in Nat, NEW next \in Nat,
         idx < next, nextIndex <= next
  PROVE  LET t == SetDefault(key, idx)
         IN DOMAIN t \subseteq {"id", "pos"} \X Nat \X Nat /\ t \in [DOMAIN t -> 0 .. (next - 1)]
<1> DEFINE t == SetDefault(key, idx)
<1>1. /\ DOMAIN toolIndex \subseteq {"id", "pos"} \X Nat \X Nat /\ nextIndex \in Nat
      /\ toolIndex \in [DOMAIN toolIndex -> 0 .. (nextIndex - 1)]
  BY DEF TypeOK
<1>2. t = [x \in DOMAIN toolIndex \cup {key} |->
             IF x \in DOMAIN toolIndex THEN toolIndex[x] ELSE idx]
  BY DEF SetDefault
<1> HIDE DEF t
<1>3. DOMAIN t = DOMAIN toolIndex \cup {key}
  BY <1>2
<1>4. ASSUME NEW x \in DOMAIN t PROVE t[x] \in 0 .. (next - 1)
  <2>1. CASE x \in DOMAIN toolIndex
    <3>1. t[x] = toolIndex[x] /\ toolIndex[x] \in 0 .. (nextIndex - 1)
      BY <1>1, <1>2, <2>1
    <3> QED
      BY <1>1, <3>1
  <2>2. CASE x \notin DOMAIN toolIndex
    <3>1. t[x] = idx
      BY <1>2, <1>3, <2>2
    <3> QED
      BY <3>1
  <2> QED
    BY <2>1, <2>2
<1>5. t \in [DOMAIN t -> 0 .. (next - 1)]
  BY <1>2, <1>3, <1>4
<1> QED
  BY <1>1, <1>3, <1>5 DEF t

LEMMA DeltaType ==
  ASSUME NEW t \in {"role", "text", "call", "finish", "done"}, NEW body \in Seq(Nat)
  PROVE  /\ Delta(t, body) \in Reply
         /\ \A finish \in {"stop", "tool_calls"} :
              [Delta(t, body) EXCEPT !.finish = finish] \in Reply
         /\ \A idx \in Nat, call \in CallId \cup {None},
               of \in [message : Nat, call : Int, indexed : BOOLEAN] :
              [Delta(t, body) EXCEPT !.idx = idx, !.call = call, !.of = of] \in Reply
<1>1. Delta(t, body) \in Reply
  BY DEF Delta, Reply
<1> QED
  BY <1>1 DEF Reply

\* The chunk that is yielded for the first fragment.
CallDelta ==
  [Delta("call", Token(Head(cur.frags).args)) EXCEPT
     !.idx = IndexFor(Head(cur.frags)), !.call = Head(cur.frags).id,
     !.of = Origin(Head(cur.frags))]

LEMMA CallDeltaType ==
  ASSUME TypeOK, cur.frags # <<>>
  PROVE  LET f == Head(cur.frags)
         IN /\ CallDelta \in Reply /\ CallDelta.type = "call" /\ CallDelta.body = Token(f.args)
            /\ CallDelta.idx = IndexFor(f) /\ CallDelta.call = f.id /\ CallDelta.of = Origin(f)
<1> DEFINE f == Head(cur.frags)
           idx == IndexFor(f)
           of == Origin(f)
           body == Token(f.args)
<1>1. f \in CallFrag
  BY HeadFrag
<1>2. f.id \in CallId \cup {None} /\ idx \in Nat
  BY <1>1, IndexType DEF CallFrag
<1>3. body \in Seq(Nat)
  BY <1>1 DEF Token, CallFrag
<1>4. of \in [message : Nat, call : Int, indexed : BOOLEAN]
  <2>0. log \in Seq(Reply)
    BY DEF TypeOK
  <2>1. Len(messages) \in Nat /\ Len(log) \in Nat
    BY <2>0, LatestType
  <2>2. f.origin \in Nat
    BY <1>1 DEF CallFrag
  <2> HIDE DEF f
  <2> QED
    BY <2>1, <2>2 DEF Origin
<1>5. CallDelta = [Delta("call", body) EXCEPT !.idx = idx, !.call = f.id, !.of = of]
  BY DEF CallDelta
<1> HIDE DEF idx, of, body
<1>6. CallDelta \in Reply
  BY <1>2, <1>3, <1>4, <1>5, DeltaType
<1>7. /\ CallDelta.type = "call" /\ CallDelta.body = body
      /\ CallDelta.idx = idx /\ CallDelta.call = f.id /\ CallDelta.of = of
  BY <1>5 DEF Delta
<1> QED
  BY <1>6, <1>7 DEF idx, of, body

LEMMA TypeStep == TypeOK /\ [Next]_vars => TypeOK'
<1> SUFFICES ASSUME TypeOK, [Next]_vars PROVE TypeOK'
  OBVIOUS
<1>0. <<>> \in Seq(Nat)
  OBVIOUS
<1>1. ASSUME NEW k \in Chunks, StartsAnswer(k) PROVE TypeOK'
  <2> DEFINE n == Len(messages) + 1
             grown == Append(messages, AddChunk(NewMessage("assistant", <<>>), Deliver(k, n), TRUE))
  <2>1. grown \in Seq(ChatMessage) /\ DOMAIN grown = 1 .. n
    BY StartsAnswerType
  <2>2. /\ Receive(Deliver(k, n), grown) /\ streamed' = streamed \cup {n} /\ late' = late
    BY <1>1 DEF StartsAnswer
  <2> HIDE DEF grown
  <2>3. /\ n \in Nat /\ n \in DOMAIN grown /\ grown # <<>>
        /\ streamed \subseteq DOMAIN grown /\ late \subseteq streamed
    BY <2>1, LatestType, SMTT(30) DEF TypeOK
  <2>4. streamed' \subseteq DOMAIN grown /\ late' \subseteq streamed'
    BY <2>2, <2>3
  <2> QED
    BY <2>1, <2>2, <2>3, <2>4, ReceiveType
<1>2. ASSUME NEW k \in Chunks, GoesOn(k) PROVE TypeOK'
  <2> DEFINE n == Len(messages)
             grown == [messages EXCEPT ![n] = AddChunk(@, Deliver(k, n), FALSE)]
  <2>1. grown \in Seq(ChatMessage) /\ DOMAIN grown = 1 .. n
    BY GoesOnType
  <2>2. /\ Receive(Deliver(k, n), grown) /\ n \in streamed /\ streamed' = streamed
        /\ late' = late \/ late' = late \cup {n}
    BY <1>2 DEF GoesOn
  <2> HIDE DEF grown
  <2>3. /\ n \in Nat /\ n \in DOMAIN grown /\ grown # <<>>
        /\ streamed \subseteq DOMAIN grown /\ late \subseteq streamed
    BY <2>1, LatestType, SMTT(30) DEF TypeOK
  <2>4. streamed' \subseteq DOMAIN grown /\ late' \subseteq streamed'
    BY <2>2, <2>3
  <2> QED
    BY <2>1, <2>2, <2>3, <2>4, ReceiveType
<1>3. CASE ToolsAnswer
  BY <1>3, ToolsAnswerType, SkippedType
<1>4. ASSUME NEW thinks \in BOOLEAN, Answers(thinks) PROVE TypeOK'
  BY <1>4, AnswersType, SkippedType
<1>5. ASSUME NEW e \in Reply, Yield(e), UNCHANGED <<run, toolIndex, nextIndex>>,
             pc' \in {"stream", "finished", "end"}, pending' \in BOOLEAN,
             cur' = cur \/ cur' = [cur EXCEPT !.text = 0]
      PROVE  TypeOK'
  <2>1. log' \in Seq(Reply)
    BY <1>5 DEF Yield, TypeOK
  <2>2. cur' \in [reasoning : {0}, text : Nat, frags : Seq(CallFrag)]
    BY <1>5, SMTT(30) DEF TypeOK
  <2>3. UNCHANGED <<messages, streamed, late, delivered, fed, toolIndex, nextIndex>>
    BY <1>5 DEF run
  <2> QED
    BY <1>5, <2>1, <2>2, <2>3, SMTT(30) DEF TypeOK
<1>6. CASE Role
  <2>1. Delta("role", <<>>) \in Reply
    BY <1>0, DeltaType
  <2> QED
    BY <1>5, <1>6, <2>1 DEF Role, TypeOK
<1>7. CASE EmitText
  <2>1. <<cur.text>> \in Seq(Nat)
    BY DEF TypeOK
  <2>2. Delta("text", <<cur.text>>) \in Reply
    BY <2>1, DeltaType
  <2> QED
    BY <1>5, <1>7, <2>2 DEF EmitText, TypeOK
<1>8. CASE EmitCall
  <2> DEFINE f == Head(cur.frags)
             idx == IndexFor(f)
  <2>1. /\ pc = "stream" /\ cur.frags # <<>> /\ pending' = TRUE /\ UNCHANGED <<pc, run>>
        /\ toolIndex' = IF f.index # None THEN toolIndex ELSE SetDefault(KeyFor(f), idx)
        /\ nextIndex' = NextAfter(idx) /\ Yield(CallDelta)
        /\ cur' = [cur EXCEPT !.frags = Tail(@)]
    BY <1>8 DEF EmitCall, PopFragment, CallDelta
  <2>2. f \in CallFrag /\ Tail(cur.frags) \in Seq(CallFrag)
    BY <2>1, HeadFrag
  <2>3. log' \in Seq(Reply)
    BY <2>1, CallDeltaType DEF Yield, TypeOK
  <2>4. cur' \in [reasoning : {0}, text : Nat, frags : Seq(CallFrag)]
    BY <2>1, <2>2 DEF TypeOK
  <2>5. /\ KeyFor(f) \in {"id", "pos"} \X Nat \X Nat /\ idx \in Nat /\ nextIndex' \in Nat
        /\ idx < nextIndex' /\ nextIndex <= nextIndex'
    BY <2>1, <2>2, IndexType
  <2> HIDE DEF idx, f
  <2>6. DOMAIN toolIndex' \subseteq {"id", "pos"} \X Nat \X Nat
        /\ toolIndex' \in [DOMAIN toolIndex' -> 0 .. (nextIndex' - 1)]
    <3>1. CASE f.index = None
      BY <2>1, <2>5, <3>1, SetDefaultType
    <3>2. CASE f.index # None
      <4>1. toolIndex' = toolIndex
        BY <2>1, <3>2
      <4>2. /\ toolIndex \in [DOMAIN toolIndex -> 0 .. (nextIndex - 1)] /\ nextIndex \in Nat
            /\ DOMAIN toolIndex \subseteq {"id", "pos"} \X Nat \X Nat
        BY DEF TypeOK
      <4>3. 0 .. (nextIndex - 1) \subseteq 0 .. (nextIndex' - 1)
        BY <2>5, <4>2
      <4>4. toolIndex \in [DOMAIN toolIndex -> 0 .. (nextIndex' - 1)]
        BY <4>2, <4>3
      <4> QED
        BY <4>1, <4>2, <4>4
    <3> QED
      BY <3>1, <3>2
  <2>7. UNCHANGED <<messages, streamed, late, delivered, fed>>
    BY <2>1 DEF run
  <2> QED
    BY <2>1, <2>3, <2>4, <2>5, <2>6, <2>7 DEF TypeOK
<1>9. CASE Finish
  <2>1. FinishReason \in {"stop", "tool_calls"}
    BY DEF FinishReason
  <2>2. [Delta("finish", <<>>) EXCEPT !.finish = FinishReason] \in Reply
    BY <1>0, <2>1, DeltaType
  <2> QED
    BY <1>5, <1>9, <2>2 DEF Finish, TypeOK
<1>10. CASE Done
  <2>1. Delta("done", <<>>) \in Reply
    BY <1>0, DeltaType
  <2> QED
    BY <1>5, <1>10, <2>1 DEF Done, TypeOK
<1>11. CASE GraphRaises \/ Disconnect \/ UNCHANGED vars
  <2>1. /\ pc' = pc \/ pc' \in {"broken", "gone"}
        /\ UNCHANGED <<messages, streamed, late, delivered, fed, cur, pending, toolIndex,
                       nextIndex, log>>
    BY <1>11 DEF GraphRaises, Disconnect, vars, run
  <2> QED
    BY <2>1 DEF TypeOK
<1> QED
  BY <1>1, <1>2, <1>3, <1>4, <1>6, <1>7, <1>8, <1>9, <1>10, <1>11 DEF Next, Emit

\* The chat generator's variables and the messages of its run keep their types, for any
\* chunks and any number of them, and every index in tool_index is below next_index.
THEOREM ChatTypeCorrect == Spec => []TypeOK
<1> QED
  BY InitType, TypeStep, PTL DEF Spec

-----------------------------------------------------------------------------
(* What the steps of the run change.                                       *)

LEMMA StartsAnswerStep ==
  ASSUME TypeOK, NEW k \in Chunks, StartsAnswer(k)
  PROVE  LET n == Len(messages) + 1
             c == Deliver(k, n)
         IN /\ pc = "stream" /\ Spent /\ UNCHANGED <<pc, pending, toolIndex, nextIndex, log>>
            /\ c.text \in Nat /\ c.frags \in Seq(CallFrag)
            /\ cur'.text = c.text /\ cur'.frags = c.frags
            /\ fed' = fed + 2 + Len(c.frags)
            /\ Len(messages') = n /\ DOMAIN messages' = 1 .. n /\ Latest' = messages'[n]
            /\ \A i \in DOMAIN messages : messages'[i] = messages[i]
            /\ messages'[n].id = n /\ messages'[n].role = "assistant"
            /\ messages'[n].text = Token(c.text)
            /\ messages'[n].calls = AddFragments(<<>>, c.frags, TRUE)
            /\ n \notin DOMAIN messages /\ streamed' = streamed \cup {n} /\ late' = late
<1> DEFINE n == Len(messages) + 1
           c == Deliver(k, n)
           m == AddChunk(NewMessage("assistant", <<>>), c, TRUE)
<1>1. Len(messages) \in Nat /\ DOMAIN messages = 1 .. Len(messages) /\ fed \in Nat
  BY LatestType DEF TypeOK
<1>2. /\ m.id = n /\ m.role = "assistant" /\ m.text = Token(c.text)
      /\ m.calls = AddFragments(<<>>, c.frags, TRUE)
      /\ Len(Append(messages, m)) = n /\ DOMAIN Append(messages, m) = 1 .. n
      /\ Append(messages, m)[n] = m /\ \A i \in DOMAIN messages : Append(messages, m)[i] = messages[i]
  BY StartsAnswerType
<1>3. c.text \in Nat /\ c.frags \in Seq(CallFrag)
  BY <1>1, DeliverType
<1>4. /\ Receive(c, Append(messages, m)) /\ streamed' = streamed \cup {n} /\ late' = late
  BY DEF StartsAnswer
<1> HIDE DEF m, c
<1>5. /\ pc = "stream" /\ Spent /\ UNCHANGED <<pc, pending, toolIndex, nextIndex, log>>
      /\ messages' = Append(messages, m) /\ fed' = fed + 2 + Len(c.frags)
      /\ cur'.text = c.text /\ cur'.frags = c.frags
  BY <1>4 DEF Receive, Waiting, Contents
<1>6. Latest' = messages'[n]
  BY <1>2, <1>5 DEF Latest, LastMessage
<1>7. n \notin DOMAIN messages
  BY <1>1
<1> QED
  BY <1>2, <1>3, <1>4, <1>5, <1>6, <1>7 DEF c

LEMMA GoesOnStep ==
  ASSUME TypeOK, NEW k \in Chunks, GoesOn(k)
  PROVE  LET n == Len(messages)
             c == Deliver(k, n)
         IN /\ pc = "stream" /\ Spent /\ UNCHANGED <<pc, pending, toolIndex, nextIndex, log>>
            /\ c.text \in Nat /\ c.frags \in Seq(CallFrag)
            /\ cur'.text = c.text /\ cur'.frags = c.frags
            /\ fed' = fed + 2 + Len(c.frags)
            /\ Len(messages') = n /\ DOMAIN messages' = 1 .. n /\ Latest' = messages'[n]
            /\ \A i \in DOMAIN messages \ {n} : messages'[i] = messages[i]
            /\ messages'[n].id = Latest.id /\ messages'[n].role = Latest.role
            /\ messages'[n].text = Latest.text \o Token(c.text)
            /\ messages'[n].calls = AddFragments(Latest.calls, c.frags, FALSE)
            /\ n \in streamed /\ streamed' = streamed
            /\ late' = IF c.text # 0 /\ Latest.calls # <<>> THEN late \cup {n} ELSE late
<1> DEFINE n == Len(messages)
           c == Deliver(k, n)
           m == AddChunk(messages[n], c, FALSE)
           grown == [messages EXCEPT ![n] = AddChunk(@, c, FALSE)]
<1>1. Len(messages) \in Nat /\ DOMAIN messages = 1 .. Len(messages) /\ fed \in Nat
  BY LatestType DEF TypeOK
<1>2. /\ m.id = Latest.id /\ m.role = Latest.role /\ m.text = Latest.text \o Token(c.text)
      /\ m.calls = AddFragments(Latest.calls, c.frags, FALSE)
      /\ Len(grown) = n /\ DOMAIN grown = 1 .. n
      /\ grown[n] = m /\ \A i \in DOMAIN messages \ {n} : grown[i] = messages[i]
  BY GoesOnType
<1>3. c.text \in Nat /\ c.frags \in Seq(CallFrag)
  BY <1>1, DeliverType
<1>4. /\ Receive(c, grown) /\ n \in streamed /\ streamed' = streamed
      /\ late' = IF c.text # 0 /\ Latest.calls # <<>> THEN late \cup {n} ELSE late
  BY DEF GoesOn
<1> HIDE DEF m, c, grown
<1>5. /\ pc = "stream" /\ Spent /\ UNCHANGED <<pc, pending, toolIndex, nextIndex, log>>
      /\ messages' = grown /\ fed' = fed + 2 + Len(c.frags)
      /\ cur'.text = c.text /\ cur'.frags = c.frags
  BY <1>4 DEF Receive, Waiting, Contents
<1>6. Latest' = messages'[n]
  BY <1>2, <1>5 DEF Latest, LastMessage
<1> QED
  BY <1>2, <1>3, <1>4, <1>5, <1>6 DEF c

LEMMA SkippedStep ==
  ASSUME TypeOK, ToolsAnswer \/ \E thinks \in BOOLEAN : Answers(thinks)
  PROVE  /\ pc = "stream" /\ Spent
         /\ UNCHANGED <<pc, streamed, late, cur, pending, toolIndex, nextIndex, log>>
         /\ fed' \in Nat /\ fed <= fed'
         /\ Len(messages') \in Nat /\ Len(messages) < Len(messages')
         /\ DOMAIN messages' = 1 .. Len(messages')
         /\ \A i \in DOMAIN messages : messages'[i] = messages[i]
         /\ \A i \in DOMAIN messages' \ DOMAIN messages :
              /\ messages'[i].id = i /\ messages'[i].role \in {"tool", "assistant"}
              /\ messages'[i].calls = <<>>
<1>1. PICK more \in Seq(ChatMessage) :
        /\ Skipped(more) /\ more # <<>>
        /\ \A i \in DOMAIN more :
             /\ more[i].role \in {"tool", "assistant"} /\ more[i].id = Len(messages) + i
             /\ more[i].calls = <<>>
  BY ToolsAnswerType, AnswersType
<1>2. /\ TypeOK' /\ Len(messages') = Len(messages) + Len(more)
      /\ \A i \in DOMAIN messages : messages'[i] = messages[i]
      /\ \A i \in DOMAIN more : messages'[Len(messages) + i] = more[i]
  BY <1>1, SkippedType
<1>3. /\ pc = "stream" /\ Spent
      /\ UNCHANGED <<pc, streamed, late, cur, pending, toolIndex, nextIndex, log>>
      /\ fed' = fed + Len(more)
  BY <1>1 DEF Skipped, Waiting
<1>4. Len(messages) \in Nat /\ DOMAIN messages = 1 .. Len(messages) /\ fed \in Nat
  BY LatestType DEF TypeOK
<1>5. DOMAIN more = 1 .. Len(more) /\ Len(more) \in Nat /\ Len(more) # 0
  BY <1>1
<1>6. messages' \in Seq(ChatMessage)
  BY <1>2 DEF TypeOK
<1>7. DOMAIN messages' = 1 .. Len(messages')
  BY <1>6
<1>8. ASSUME NEW i \in DOMAIN messages' \ DOMAIN messages
      PROVE  /\ messages'[i].id = i /\ messages'[i].role \in {"tool", "assistant"}
             /\ messages'[i].calls = <<>>
  <2>1. i - Len(messages) \in DOMAIN more /\ Len(messages) + (i - Len(messages)) = i
    BY <1>2, <1>4, <1>5, <1>7
  <2>2. messages'[i] = more[i - Len(messages)]
    BY <1>2, <2>1
  <2> QED
    BY <1>1, <2>1, <2>2
<1> QED
  BY <1>2, <1>3, <1>4, <1>5, <1>7, <1>8

LEMMA LogMore ==
  ASSUME TypeOK, NEW e, Yield(e)
  PROVE  /\ Len(log) \in Nat /\ DOMAIN log = 1 .. Len(log) /\ DOMAIN log' = 1 .. (Len(log) + 1)
         /\ log'[Len(log) + 1] = e /\ \A i \in DOMAIN log : log'[i] = log[i]
<1>1. log \in Seq(Reply) /\ log' = Append(log, e)
  BY DEF TypeOK, Yield
<1> QED
  BY <1>1

-----------------------------------------------------------------------------
(* The finish chunk.  A message that has been delivered and has no text    *)
(* after a piece of a call was followed by its calls, so pending_tool_call *)
(* says whether it has any.                                                *)

LEMMA AnswerFinish ==
  ASSUME TypeOK
  PROVE  /\ ChatAnswer(messages).finish =
              IF Latest.role = "assistant" /\ ToolCalls(Latest) # <<>> THEN "tool_calls" ELSE "stop"
         /\ ToolCalls(Latest) # <<>> => Latest.calls # <<>>
<1>1. PICK asked : asked = ToolCalls(Latest)
  OBVIOUS
<1>2. /\ messages # <<>> /\ Latest = LastMessage(messages) /\ asked \in Seq(Call)
      /\ \A i \in DOMAIN asked : \E n \in DOMAIN Latest.calls : asked[i] = Latest.calls[n]
  <2>1. PICK m : m = Latest
    OBVIOUS
  <2>2. m.calls \in Seq(Call)
    BY <2>1, LatestType
  <2>3. /\ ToolCalls(m) \in Seq(Call)
        /\ \A i \in DOMAIN ToolCalls(m) : \E n \in DOMAIN m.calls : ToolCalls(m)[i] = m.calls[n]
    BY <2>2, ToolCallsAre
  <2> QED
    BY <1>1, <2>1, <2>3 DEF TypeOK, Latest
<1> DEFINE calls == OpenaiToolCalls(Latest)
<1>3. calls = <<>> <=> asked = <<>>
  <2>1. DOMAIN calls = DOMAIN asked
    BY <1>1 DEF OpenaiToolCalls
  <2>2. asked = <<>> => calls = <<>>
    BY <1>1, <2>1 DEF OpenaiToolCalls
  <2>3. asked # <<>> => 1 \in DOMAIN asked
    BY <1>2
  <2> HIDE DEF calls
  <2>4. calls = <<>> => DOMAIN calls = {}
    OBVIOUS
  <2> QED
    BY <2>1, <2>2, <2>3, <2>4
<1>4. PendingCalls(messages) = IF Latest.role = "assistant" THEN calls ELSE <<>>
  BY <1>2 DEF PendingCalls, Latest
<1> HIDE DEF calls
<1>5. Latest.calls = <<>> => asked = <<>>
  <2>1. Latest.calls = <<>> => DOMAIN Latest.calls = {}
    OBVIOUS
  <2>2. asked # <<>> => 1 \in DOMAIN asked
    BY <1>2
  <2> QED
    BY <1>2, <2>1, <2>2
<1> QED
  BY <1>1, <1>3, <1>4, <1>5 DEF ChatAnswer

Unfinished == pc \in {"start", "stream"} => \A i \in DOMAIN log : log[i].type # "finish"

Roles ==
  /\ \A n \in streamed : messages[n].role = "assistant"
  /\ 1 \notin streamed /\ messages[1].role = "user"
  /\ Len(messages) = 1 => ~pending /\ Spent

\* Text of a message without calls comes before its calls; once all of a chunk is
\* told, the last delta is of a call if there is one.
CallsLast ==
  Len(messages) \in streamed \ late =>
    /\ cur.text # 0 => (Latest.calls = <<>> <=> cur.frags = <<>>)
    /\ cur.text = 0 /\ cur.frags # <<>> => Latest.calls # <<>>
    /\ Spent /\ (Latest.text # <<>> \/ Latest.calls # <<>>) => (pending <=> Latest.calls # <<>>)

FinishInv == Unfinished /\ Roles /\ CallsLast /\ FinishMatches

LEMMA FinishInit == Init => FinishInv
<1> SUFFICES ASSUME Init PROVE FinishInv
  OBVIOUS
<1>1. /\ streamed = {} /\ ~pending /\ log = <<>> /\ cur.text = 0 /\ cur.frags = <<>>
      /\ messages[1].role = "user"
  BY DEF Init, Nothing, Message
<1>2. DOMAIN log = {}
  BY <1>1
<1> QED
  BY <1>1, <1>2 DEF FinishInv, Unfinished, Roles, CallsLast, FinishMatches, Spent

\* A chunk for message n, new or the last, whose calls were calls.
LEMMA ChunkCallsLast ==
  ASSUME TypeOK, NEW n, NEW c, NEW calls \in Seq(Call), NEW text \in Seq(Nat),
         Len(messages') = n, Latest' = messages'[n],
         c.text \in Nat, c.frags \in Seq(CallFrag),
         cur'.text = c.text, cur'.frags = c.frags, pending' = pending,
         messages'[n].text = text \o Token(c.text),
         NEW first, messages'[n].calls = AddFragments(calls, c.frags, first),
         text # <<>> \/ calls # <<>> => (pending <=> calls # <<>>),
         c.text # 0 => calls = <<>>
  PROVE  CallsLast'
<1>1. messages'[n].calls = <<>> <=> calls = <<>> /\ c.frags = <<>>
  BY AddFragmentsType
<1>2. c.text = 0 => messages'[n].text = text
  BY DEF Token
<1> QED
  BY <1>1, <1>2 DEF CallsLast, Spent

LEMMA FinishStep == TypeOK /\ FinishInv /\ [Next]_vars => FinishInv'
<1> SUFFICES ASSUME TypeOK, FinishInv, [Next]_vars PROVE FinishInv'
  OBVIOUS
<1>1. /\ Unfinished /\ Roles /\ CallsLast /\ FinishMatches
      /\ Len(messages) \in Nat \ {0} /\ DOMAIN messages = 1 .. Len(messages)
      /\ streamed \subseteq DOMAIN messages /\ late \subseteq streamed
      /\ Latest = messages[Len(messages)] /\ Latest.calls \in Seq(Call) /\ Latest.text \in Seq(Nat)
  BY LatestType DEF FinishInv, TypeOK
\* While the run goes on nothing is finished.
<1>2. ASSUME pc = "stream", UNCHANGED <<pc, log>> PROVE Unfinished' /\ FinishMatches'
  BY <1>1, <1>2 DEF Unfinished, FinishMatches
<1>3. ASSUME UNCHANGED <<messages, streamed, late>>
      PROVE  /\ Latest' = Latest /\ (Concludes' <=> Concludes)
             /\ ChatAnswer(messages)' = ChatAnswer(messages)
  BY <1>3 DEF Latest, Concludes
<1>4. ASSUME NEW k \in Chunks, StartsAnswer(k) PROVE FinishInv'
  <2> DEFINE n == Len(messages) + 1
             c == Deliver(k, n)
  <2>1. /\ pc = "stream" /\ UNCHANGED <<pc, pending, log>>
        /\ c.text \in Nat /\ c.frags \in Seq(CallFrag) /\ cur'.text = c.text /\ cur'.frags = c.frags
        /\ Len(messages') = n /\ Latest' = messages'[n]
        /\ \A i \in DOMAIN messages : messages'[i] = messages[i]
        /\ messages'[n].role = "assistant" /\ messages'[n].text = Token(c.text)
        /\ messages'[n].calls = AddFragments(<<>>, c.frags, TRUE)
        /\ n \notin DOMAIN messages /\ streamed' = streamed \cup {n} /\ late' = late
    BY <1>4, StartsAnswerStep
  <2> HIDE DEF c
  <2>2. <<>> \in Seq(Call) /\ <<>> \in Seq(Nat) /\ <<>> \o Token(c.text) = Token(c.text)
    BY <2>1 DEF Token
  <2>3. CallsLast'
    <3>1. PICK first : first = TRUE
      OBVIOUS
    <3>2. messages'[n].calls = AddFragments(<<>>, c.frags, first)
      BY <2>1, <3>1
    <3> QED
      BY <2>1, <2>2, <3>2, ChunkCallsLast
  <2>4. Roles'
    BY <1>1, <2>1 DEF Roles
  <2> QED
    BY <1>2, <2>1, <2>3, <2>4 DEF FinishInv
<1>5. ASSUME NEW k \in Chunks, GoesOn(k) PROVE FinishInv'
  <2> DEFINE n == Len(messages)
             c == Deliver(k, n)
  <2>1. /\ pc = "stream" /\ Spent /\ UNCHANGED <<pc, pending, log>>
        /\ c.text \in Nat /\ c.frags \in Seq(CallFrag) /\ cur'.text = c.text /\ cur'.frags = c.frags
        /\ Len(messages') = n /\ Latest' = messages'[n]
        /\ \A i \in DOMAIN messages \ {n} : messages'[i] = messages[i]
        /\ messages'[n].role = Latest.role /\ messages'[n].text = Latest.text \o Token(c.text)
        /\ messages'[n].calls = AddFragments(Latest.calls, c.frags, FALSE)
        /\ n \in streamed /\ streamed' = streamed
        /\ late' = IF c.text # 0 /\ Latest.calls # <<>> THEN late \cup {n} ELSE late
    BY <1>5, GoesOnStep
  <2> HIDE DEF c
  <2>2. ASSUME n \in late' PROVE CallsLast'
    BY <2>1, <2>2 DEF CallsLast
  <2>3. ASSUME n \notin late' PROVE CallsLast'
    <3>1. n \notin late /\ (c.text # 0 => Latest.calls = <<>>)
      BY <2>1, <2>3
    <3>2. Latest.text # <<>> \/ Latest.calls # <<>> => (pending <=> Latest.calls # <<>>)
      BY <1>1, <2>1, <3>1 DEF CallsLast
    <3>3. PICK first, x, calls, text : /\ first = FALSE /\ x = c /\ calls = Latest.calls
                                       /\ text = Latest.text
      OBVIOUS
    <3>4. /\ calls \in Seq(Call) /\ text \in Seq(Nat)
          /\ x.text \in Nat /\ x.frags \in Seq(CallFrag)
          /\ cur'.text = x.text /\ cur'.frags = x.frags
          /\ messages'[n].text = text \o Token(x.text)
          /\ messages'[n].calls = AddFragments(calls, x.frags, first)
          /\ text # <<>> \/ calls # <<>> => (pending <=> calls # <<>>)
          /\ x.text # 0 => calls = <<>>
      BY <1>1, <2>1, <3>1, <3>2, <3>3
    <3> QED
      BY <2>1, <3>4, ChunkCallsLast
  <2>4. Roles'
    <3>1. n # 1 /\ \A i \in streamed : messages'[i].role = "assistant"
      BY <1>1, <2>1 DEF Roles
    <3> QED
      BY <1>1, <2>1, <3>1 DEF Roles
  <2> QED
    BY <1>2, <2>1, <2>2, <2>3, <2>4 DEF FinishInv
<1>6. CASE ToolsAnswer \/ \E thinks \in BOOLEAN : Answers(thinks)
  <2>1. /\ pc = "stream" /\ UNCHANGED <<pc, streamed, late, cur, pending, log>>
        /\ Len(messages') \in Nat /\ Len(messages) < Len(messages')
        /\ \A i \in DOMAIN messages : messages'[i] = messages[i]
    BY <1>6, SkippedStep
  <2> DEFINE new == Len(messages')
  <2>2. new \notin streamed' /\ new # 1
    <3>1. new \in Nat /\ new > Len(messages) /\ streamed' \subseteq 1 .. Len(messages)
      BY <1>1, <2>1
    <3> HIDE DEF new
    <3> QED
      BY <1>1, <3>1
  <2>3. CallsLast' /\ Roles'
    BY <1>1, <2>1, <2>2, SMTT(30) DEF CallsLast, Roles
  <2> QED
    BY <1>2, <2>1, <2>3 DEF FinishInv
\* What is yielded before the finish chunk, and [DONE].
<1>7. ASSUME NEW e, Yield(e), e.type # "finish", UNCHANGED run, pc' = "stream" => pc \in {"start", "stream"},
             pc' # "start"
      PROVE  Unfinished' /\ FinishMatches'
  <2>1. UNCHANGED <<messages, streamed, late>>
    BY <1>7 DEF run
  <2>2. \A i \in DOMAIN log' : log'[i].type = "finish" => i \in DOMAIN log /\ log'[i] = log[i]
    BY <1>7, LogMore
  <2> QED
    BY <1>1, <1>3, <1>7, <2>1, <2>2 DEF Unfinished, FinishMatches
<1>8. CASE Role
  <2>1. /\ Yield(Delta("role", <<>>)) /\ pc = "start" /\ pc' = "stream"
        /\ UNCHANGED <<messages, streamed, late, cur, pending>> /\ UNCHANGED run
    BY <1>8 DEF Role, run
  <2>2. Delta("role", <<>>).type # "finish"
    BY DEF Delta
  <2>3. CallsLast' /\ Roles'
    BY <1>1, <1>3, <2>1 DEF CallsLast, Roles, Spent
  <2> QED
    BY <1>7, <2>1, <2>2, <2>3 DEF FinishInv
<1>9. CASE EmitText
  <2>1. /\ Yield(Delta("text", <<cur.text>>)) /\ pc = "stream" /\ pc' = "stream" /\ cur.text # 0
        /\ UNCHANGED <<messages, streamed, late>> /\ UNCHANGED run /\ pending' = FALSE
    BY <1>9 DEF EmitText, run
  <2>2. Delta("text", <<cur.text>>).type # "finish"
    BY DEF Delta
  <2>3. cur'.text = 0 /\ cur'.frags = cur.frags
    BY <1>9 DEF EmitText, TypeOK
  <2>4. CallsLast'
    BY <1>1, <1>3, <2>1, <2>3 DEF CallsLast, Spent
  <2>5. Roles'
    BY <1>1, <2>1 DEF Roles, Spent
  <2> QED
    BY <1>7, <2>1, <2>2, <2>4, <2>5 DEF FinishInv
<1>10. CASE EmitCall
  <2>1. /\ Yield(CallDelta) /\ pc = "stream" /\ pc' = "stream" /\ cur.text = 0 /\ cur.frags # <<>>
        /\ UNCHANGED <<messages, streamed, late>> /\ UNCHANGED run /\ pending' = TRUE
    BY <1>10 DEF EmitCall, CallDelta, run
  <2>2. CallDelta.type # "finish"
    BY <2>1, CallDeltaType
  <2>3. cur'.text = 0
    BY <1>10 DEF EmitCall, PopFragment, TypeOK
  <2>4. CallsLast'
    BY <1>1, <1>3, <2>1, <2>3 DEF CallsLast, Spent
  <2>5. Roles'
    BY <1>1, <2>1 DEF Roles, Spent
  <2> QED
    BY <1>7, <2>1, <2>2, <2>4, <2>5 DEF FinishInv
<1>11. CASE Finish
  <2> DEFINE e == [Delta("finish", <<>>) EXCEPT !.finish = FinishReason]
  <2>1. /\ Yield(e) /\ pc = "stream" /\ Spent /\ pc' = "finished"
        /\ UNCHANGED <<messages, streamed, late, cur, pending>>
    BY <1>11 DEF Finish, Waiting, run
  <2>2. e.finish = IF pending THEN "tool_calls" ELSE "stop"
    BY DEF Delta, FinishReason
  <2> HIDE DEF e
  <2>3. ASSUME Concludes PROVE e.finish = ChatAnswer(messages).finish
    <3>1. CASE /\ Len(messages) \in streamed \ late
               /\ IF Latest.calls = <<>> THEN Latest.text # <<>> ELSE ToolCalls(Latest) # <<>>
      <4>1. (pending <=> Latest.calls # <<>>) /\ Latest.role = "assistant"
        BY <1>1, <2>1, <3>1 DEF CallsLast, Roles
      <4> QED
        BY <2>2, <3>1, <4>1, AnswerFinish
    <3>2. CASE Len(messages) = 1
      <4>1. ~pending /\ Latest.role = "user"
        BY <1>1, <3>2 DEF Roles
      <4> QED
        BY <2>2, <4>1, AnswerFinish
    <3> QED
      BY <2>3, <3>1, <3>2 DEF Concludes
  <2>4. \A i \in DOMAIN log' : log'[i] = e \/ (i \in DOMAIN log /\ log'[i] = log[i])
    BY <2>1, LogMore
  <2>5. FinishMatches'
    BY <1>1, <1>3, <2>1, <2>3, <2>4 DEF FinishMatches
  <2>6. CallsLast' /\ Roles'
    BY <1>1, <1>3, <2>1 DEF CallsLast, Roles, Spent
  <2> QED
    BY <2>1, <2>5, <2>6 DEF FinishInv, Unfinished
<1>12. CASE Done
  <2>1. /\ Yield(Delta("done", <<>>)) /\ pc = "finished" /\ pc' = "end"
        /\ UNCHANGED <<messages, streamed, late, cur, pending>> /\ UNCHANGED run
    BY <1>12 DEF Done, run
  <2>2. Delta("done", <<>>).type # "finish"
    BY DEF Delta
  <2>3. CallsLast' /\ Roles'
    BY <1>1, <1>3, <2>1 DEF CallsLast, Roles, Spent
  <2> QED
    BY <1>7, <2>1, <2>2, <2>3 DEF FinishInv
<1>13. CASE GraphRaises \/ Disconnect \/ UNCHANGED vars
  <2>1. /\ pc' = pc \/ pc' \in {"broken", "gone"}
        /\ UNCHANGED <<messages, streamed, late, cur, pending, log>>
    BY <1>13 DEF GraphRaises, Disconnect, vars, run
  <2>2. CallsLast' /\ Roles'
    BY <1>1, <1>3, <2>1 DEF CallsLast, Roles, Spent
  <2>3. Unfinished' /\ FinishMatches'
    BY <1>1, <1>3, <2>1 DEF Unfinished, FinishMatches
  <2> QED
    BY <2>2, <2>3 DEF FinishInv
<1> QED
  BY <1>4, <1>5, <1>6, <1>8, <1>9, <1>10, <1>11, <1>12, <1>13 DEF Next, Emit

\* FinishMatches: when a run ends with what a model says, or no model answered, the
\* finish_reason of the stream is that of the answer that is not streamed.
THEOREM ChatFinishMatches == Spec => []FinishMatches
<1>1. FinishInv => FinishMatches
  BY DEF FinishInv
<1> QED
  BY <1>1, InitType, TypeStep, FinishInit, FinishStep, PTL DEF Spec

-----------------------------------------------------------------------------
(* What is said reaches the client.  What models have said is what has     *)
(* been sent and what is left of the last chunk; what is left was said     *)
(* later, and in the order in which it will be taken.                      *)

LEMMA TokensConcat ==
  ASSUME NEW S, NEW s \in Seq(S), NEW t \in Seq(S)
  PROVE  Tokens(s \o t) = Tokens(s) \cup Tokens(t)
<1> DEFINE u == s \o t
<1>1. /\ Len(s) \in Nat /\ Len(t) \in Nat /\ DOMAIN s = 1 .. Len(s) /\ DOMAIN t = 1 .. Len(t)
      /\ DOMAIN u = 1 .. (Len(s) + Len(t))
      /\ \A i \in DOMAIN s : u[i] = s[i]
      /\ \A i \in DOMAIN t : u[Len(s) + i] = t[i]
  OBVIOUS
<1> HIDE DEF u
<1>2. ASSUME NEW i \in DOMAIN u PROVE u[i] \in Tokens(s) \cup Tokens(t)
  <2>1. CASE i \in DOMAIN s
    BY <1>1, <2>1 DEF Tokens
  <2>2. CASE i \notin DOMAIN s
    <3>1. i - Len(s) \in DOMAIN t /\ Len(s) + (i - Len(s)) = i
      BY <1>1, <2>2
    <3>2. u[i] = t[i - Len(s)]
      BY <1>1, <3>1
    <3> QED
      BY <3>1, <3>2 DEF Tokens
  <2> QED
    BY <2>1, <2>2
<1>3. \A i \in DOMAIN s : i \in DOMAIN u /\ u[i] = s[i]
  BY <1>1
<1>4. \A i \in DOMAIN t : Len(s) + i \in DOMAIN u /\ u[Len(s) + i] = t[i]
  BY <1>1
<1>5. Tokens(u) \subseteq Tokens(s) \cup Tokens(t)
  BY <1>2 DEF Tokens
<1>6. Tokens(s) \subseteq Tokens(u)
  BY <1>3 DEF Tokens
<1>7. Tokens(t) \subseteq Tokens(u)
  BY <1>4 DEF Tokens
<1> QED
  BY <1>5, <1>6, <1>7 DEF u

LEMMA TokensToken == ASSUME NEW t \in Nat PROVE Tokens(Token(t)) = {t} \ {0} /\ Token(t) \in Seq(Nat)
<1>1. DOMAIN <<>> = {} /\ DOMAIN <<t>> = {1} /\ <<t>>[1] = t
  OBVIOUS
<1> QED
  BY <1>1 DEF Tokens, Token

ArgTokens(calls) == UNION {Tokens(calls[n].args) : n \in DOMAIN calls}
FragTokens(frags) == {frags[j].args : j \in DOMAIN frags} \ {0}

LEMMA AddFragmentTokens ==
  ASSUME NEW calls \in Seq(Call), NEW f \in CallFrag, NEW first
  PROVE  ArgTokens(AddFragment(calls, f, first)) = ArgTokens(calls) \cup ({f.args} \ {0})
<1>1. f.args \in Nat
  BY DEF CallFrag
<1>2. Tokens(Token(f.args)) = {f.args} \ {0} /\ Token(f.args) \in Seq(Nat)
  BY <1>1, TokensToken
<1>3. PICK grown : grown = AddFragment(calls, f, first)
  OBVIOUS
<1>4. ASSUME NEW m \in DOMAIN calls, grown = [calls EXCEPT ![m] = Taken(calls, f, m)]
      PROVE  ArgTokens(grown) = ArgTokens(calls) \cup ({f.args} \ {0})
  <2>1. PICK t : t = Taken(calls, f, m)
    OBVIOUS
  <2>2. Tokens(t.args) = Tokens(calls[m].args) \cup ({f.args} \ {0})
    <3>1. calls[m] \in Call
      OBVIOUS
    <3>2. calls[m].args \in Seq(Nat) /\ t.args = calls[m].args \o Token(f.args)
      BY <2>1, <3>1 DEF Taken, Merged, Call
    <3> QED
      BY <1>2, <3>2, TokensConcat
  <2>3. /\ DOMAIN grown = DOMAIN calls /\ grown[m] = t
        /\ \A n \in DOMAIN calls \ {m} : grown[n] = calls[n]
    BY <1>4, <2>1
  <2> DEFINE others == UNION {Tokens(calls[n].args) : n \in DOMAIN calls \ {m}}
  <2>4. ArgTokens(calls) = others \cup Tokens(calls[m].args)
    BY DEF ArgTokens
  <2>5. ArgTokens(grown) = others \cup Tokens(grown[m].args)
    <3>1. others = UNION {Tokens(grown[n].args) : n \in DOMAIN calls \ {m}}
      BY <2>3
    <3> HIDE DEF others
    <3>2. DOMAIN grown = (DOMAIN calls \ {m}) \cup {m}
      BY <2>3
    <3> QED
      BY <3>1, <3>2 DEF ArgTokens
  <2> HIDE DEF others
  <2> QED
    BY <2>2, <2>3, <2>4, <2>5
<1>5. ASSUME grown = Append(calls, NewCall(calls, f))
      PROVE  ArgTokens(grown) = ArgTokens(calls) \cup ({f.args} \ {0})
  <2>1. PICK new : new = NewCall(calls, f) /\ new.args = Token(f.args)
    <3>1. NewCall(calls, f).args = Token(f.args)
      BY DEF NewCall
    <3> QED
      BY <3>1
  <2>2. grown = Append(calls, new)
    BY <1>5, <2>1
  <2>3. /\ DOMAIN grown = DOMAIN calls \cup {Len(calls) + 1} /\ grown[Len(calls) + 1] = new
        /\ \A n \in DOMAIN calls : grown[n] = calls[n]
    BY <2>2
  <2>4. Tokens(grown[Len(calls) + 1].args) = {f.args} \ {0}
    BY <1>2, <2>1, <2>3
  <2> QED
    BY <2>3, <2>4 DEF ArgTokens
<1> QED
  BY <1>3, <1>4, <1>5, FragmentAdded

LEMMA AddFragmentsTokens ==
  ASSUME NEW calls \in Seq(Call), NEW frags \in Seq(CallFrag), NEW first
  PROVE  ArgTokens(AddFragments(calls, frags, first)) = ArgTokens(calls) \cup FragTokens(frags)
<1>1. Len(frags) \in Nat /\ DOMAIN frags = 1 .. Len(frags)
      /\ \A n \in 1 .. Len(frags) : frags[n] \in CallFrag
  OBVIOUS
<1>2. PICK f : AddsUp(f, calls, frags, first)
  BY <1>1, AddFragmentsSteps
<1> DEFINE First(k) == {frags[j].args : j \in 1 .. k} \ {0}
           T == {k \in 0 .. Len(frags) : /\ f[k] \in Seq(Call)
                                         /\ ArgTokens(f[k]) = ArgTokens(calls) \cup First(k)}
<1>3. 0 \in T
  BY <1>1, <1>2 DEF AddsUp
<1>4. ASSUME NEW k \in 0 .. (Len(frags) - 1), k \in T PROVE k + 1 \in T
  <2>1. k + 1 \in 1 .. Len(frags) /\ f[k + 1] = AddFragment(f[k], frags[k + 1], first)
    BY <1>1, <1>2 DEF AddsUp
  <2>2. /\ f[k] \in Seq(Call) /\ ArgTokens(f[k]) = ArgTokens(calls) \cup First(k)
        /\ frags[k + 1] \in CallFrag
    BY <1>1, <1>4, <2>1
  <2>3. f[k + 1] \in Seq(Call) /\ ArgTokens(f[k + 1]) = ArgTokens(f[k]) \cup ({frags[k + 1].args} \ {0})
    BY <2>1, <2>2, AddFragmentType, AddFragmentTokens
  <2>4. First(k + 1) = First(k) \cup ({frags[k + 1].args} \ {0})
    <3>1. 1 .. (k + 1) = 1 .. k \cup {k + 1}
      BY <1>1
    <3> QED
      BY <3>1
  <2> HIDE DEF First
  <2> QED
    BY <1>1, <2>1, <2>2, <2>3, <2>4
<1> HIDE DEF T
<1>5. Len(frags) \in T
  BY <1>1, <1>3, <1>4, UpTo
<1> QED
  BY <1>1, <1>2, <1>5 DEF T, FragTokens, AddsUp

\* What a chunk adds to what a message says.
SaidMore(text, calls, t, frags, first) ==
  Tokens(text \o Token(t)) \cup ArgTokens(AddFragments(calls, frags, first))
    = Tokens(text) \cup ArgTokens(calls) \cup ({t} \ {0}) \cup FragTokens(frags)
LEMMA SaysMore ==
  ASSUME NEW text \in Seq(Nat), NEW calls \in Seq(Call),
         NEW t \in Nat, NEW frags \in Seq(CallFrag), NEW first
  PROVE  SaidMore(text, calls, t, frags, first)
<1>1. Tokens(text \o Token(t)) = Tokens(text) \cup ({t} \ {0})
  <2>1. Tokens(Token(t)) = {t} \ {0} /\ Token(t) \in Seq(Nat)
    BY TokensToken
  <2>2. Tokens(text \o Token(t)) = Tokens(text) \cup Tokens(Token(t))
    BY <2>1, TokensConcat
  <2> QED
    BY <2>1, <2>2
<1>2. ArgTokens(AddFragments(calls, frags, first)) = ArgTokens(calls) \cup FragTokens(frags)
  BY AddFragmentsTokens
<1> QED
  BY <1>1, <1>2 DEF SaidMore

LEMMA OfModelIs == ASSUME NEW m PROVE OfModel(m) = Tokens(m.text) \cup ArgTokens(m.calls)
  BY DEF OfModel, ArgTokens

\* What is left of the last chunk, and the order it will be taken in.
ChatLeft == ({cur.text} \ {0}) \cup FragTokens(cur.frags)
Ascending ==
  /\ \A j \in DOMAIN cur.frags : cur.frags[j].args # 0 => cur.text < cur.frags[j].args
  /\ \A i, j \in DOMAIN cur.frags :
       i < j /\ cur.frags[i].args # 0 /\ cur.frags[j].args # 0
         => cur.frags[i].args < cur.frags[j].args

SentInOrder ==
  \A i, j \in Deltas : i < j =>
    \A x \in Tokens(log[i].body), y \in Tokens(log[j].body) : x < y

Account ==
  /\ Spoken = Sent \cup ChatLeft
  /\ Spoken \subseteq 0 .. fed
  /\ SentInOrder
  /\ Ascending
  /\ \A x \in Sent, y \in ChatLeft : x < y
  /\ pc \in {"finished", "end"} => Spent

LEMMA AccountInit == Init => Account
<1> SUFFICES ASSUME Init PROVE Account
  OBVIOUS
<1>1. streamed = {} /\ log = <<>> /\ cur.text = 0 /\ cur.frags = <<>> /\ pc = "start"
  BY DEF Init, Nothing
<1>2. DOMAIN log = {} /\ DOMAIN cur.frags = {}
  BY <1>1
<1>3. Deltas = {}
  BY <1>2 DEF Deltas
<1>4. Sent = {} /\ ChatLeft = {} /\ Spoken = {}
  BY <1>1, <1>2, <1>3 DEF Sent, ChatLeft, Spoken, FragTokens
<1> QED
  BY <1>1, <1>2, <1>3, <1>4 DEF Account, SentInOrder, Ascending

\* What is yielded is sent.
LEMMA SentMore ==
  ASSUME TypeOK, NEW e, Yield(e), SentInOrder,
         e.type \in {"text", "call"} => \A x \in Sent, y \in Tokens(e.body) : x < y
  PROVE  /\ Sent' = Sent \cup (IF e.type \in {"text", "call"} THEN Tokens(e.body) ELSE {})
         /\ SentInOrder'
<1> DEFINE n == Len(log) + 1
<1>1. /\ Len(log) \in Nat /\ DOMAIN log = 1 .. Len(log) /\ DOMAIN log' = 1 .. n
      /\ log'[n] = e /\ \A i \in DOMAIN log : log'[i] = log[i]
  BY LogMore
<1>2. n \notin DOMAIN log /\ \A i \in DOMAIN log : i < n
  BY <1>1
<1>3. DOMAIN log' = DOMAIN log \cup {n}
  BY <1>1
<1> HIDE DEF n
<1>4. Deltas' = Deltas \cup (IF e.type \in {"text", "call"} THEN {n} ELSE {})
  BY <1>1, <1>3 DEF Deltas
<1>5. \A i \in Deltas : i \in DOMAIN log /\ log'[i] = log[i] /\ i < n
  BY <1>1, <1>2 DEF Deltas
<1>6. UNION {Tokens(log'[i].body) : i \in Deltas} = Sent
  BY <1>5 DEF Sent
<1>7. Sent' = UNION {Tokens(log'[i].body) : i \in Deltas'}
  BY DEF Sent
<1>8. CASE e.type \notin {"text", "call"}
  <2>1. Deltas' = Deltas
    BY <1>4, <1>8
  <2>2. SentInOrder'
    BY <1>5, <2>1 DEF SentInOrder
  <2> QED
    BY <1>6, <1>7, <1>8, <2>1, <2>2
<1>9. CASE e.type \in {"text", "call"}
  <2>1. Deltas' = Deltas \cup {n}
    BY <1>4, <1>9
  <2>2. Sent' = Sent \cup Tokens(e.body)
    <3>1. Sent' = (UNION {Tokens(log'[i].body) : i \in Deltas}) \cup Tokens(log'[n].body)
      BY <1>7, <2>1
    <3> QED
      BY <1>1, <1>6, <3>1
  <2>3. ASSUME NEW i \in Deltas, NEW x \in Tokens(log'[i].body) PROVE x \in Sent
    BY <1>5, <2>3 DEF Sent
  <2>4. n \in Nat /\ Deltas \subseteq Nat
    BY <1>1 DEF n, Deltas
  <2>5. SentInOrder'
    <3> SUFFICES ASSUME NEW i \in Deltas', NEW j \in Deltas', i < j,
                        NEW x \in Tokens(log'[i].body), NEW y \in Tokens(log'[j].body)
                 PROVE  x < y
      BY DEF SentInOrder
    <3>1. i \in Deltas
      BY <1>5, <2>1, <2>4
    <3>2. CASE j \in Deltas
      BY <1>5, <3>1, <3>2 DEF SentInOrder
    <3>3. CASE j = n
      BY <1>1, <1>9, <2>3, <3>1, <3>3
    <3> QED
      BY <2>1, <3>2, <3>3
  <2> QED
    BY <1>9, <2>2, <2>5
<1> QED
  BY <1>8, <1>9

\* The tokens of a chunk are those that follow the last one handed out.
LEMMA ChunkTokens ==
  ASSUME NEW k \in Chunks, NEW n \in Nat, fed \in Nat
  PROVE  LET c == Deliver(k, n)
         IN /\ ({c.text} \ {0}) \cup FragTokens(c.frags) \subseteq (fed + 1) .. (fed + 2 + Len(c.frags))
            /\ \A j \in DOMAIN c.frags : c.frags[j].args # 0 => c.text < c.frags[j].args
            /\ \A i, j \in DOMAIN c.frags :
                 i < j /\ c.frags[i].args # 0 /\ c.frags[j].args # 0
                   => c.frags[i].args < c.frags[j].args
<1> DEFINE c == Deliver(k, n)
<1>1. /\ c.frags \in Seq(CallFrag) /\ c.text = (IF k.text THEN fed + 2 ELSE 0)
      /\ \A j \in DOMAIN c.frags : c.frags[j].args = IF k.frags[j].args THEN fed + 2 + j ELSE 0
  BY DeliverType
<1> HIDE DEF c
<1>2. Len(c.frags) \in Nat /\ DOMAIN c.frags = 1 .. Len(c.frags)
  BY <1>1
<1>3. \A j \in DOMAIN c.frags : j \in 1 .. Len(c.frags)
        /\ c.frags[j].args \in {0, fed + 2 + j}
  BY <1>1, <1>2
<1>4. c.text \in {0, fed + 2}
  BY <1>1
<1>5. FragTokens(c.frags) \subseteq (fed + 1) .. (fed + 2 + Len(c.frags))
  <2>1. ASSUME NEW j \in DOMAIN c.frags, c.frags[j].args # 0
        PROVE  c.frags[j].args \in (fed + 1) .. (fed + 2 + Len(c.frags))
    <3>1. j \in 1 .. Len(c.frags) /\ c.frags[j].args = fed + 2 + j
      BY <1>3, <2>1
    <3>2. \A l \in Nat : \A i \in 1 .. l : fed + 2 + i \in (fed + 1) .. (fed + 2 + l)
      OBVIOUS
    <3>3. fed + 2 + j \in (fed + 1) .. (fed + 2 + Len(c.frags))
      BY <1>2, <3>1, <3>2
    <3> QED
      BY <3>1, <3>3
  <2> QED
    BY <2>1 DEF FragTokens
<1>6. {c.text} \ {0} \subseteq (fed + 1) .. (fed + 2 + Len(c.frags))
  <2>1. fed + 2 \in (fed + 1) .. (fed + 2 + Len(c.frags))
    BY <1>2
  <2> QED
    BY <1>4, <2>1
<1>7. \A j \in DOMAIN c.frags : c.frags[j].args # 0 => c.text < c.frags[j].args
  BY <1>2, <1>3, <1>4
<1>8. \A i, j \in DOMAIN c.frags :
        i < j /\ c.frags[i].args # 0 /\ c.frags[j].args # 0 => c.frags[i].args < c.frags[j].args
  BY <1>2, <1>3
<1> QED
  BY <1>5, <1>6, <1>7, <1>8 DEF c

\* Steps that yield no delta.
LEMMA AccountQuiet ==
  ASSUME TypeOK, Account, UNCHANGED <<messages, streamed, fed, cur>>,
         pc' \in {"finished", "end"} => Spent \/ pc' = pc,
         \/ log' = log
         \/ \E e : Yield(e) /\ e.type \notin {"text", "call"}
  PROVE  Account'
<1>1. Sent' = Sent /\ SentInOrder'
  <2>1. CASE log' = log
    BY <2>1 DEF Sent, Deltas, SentInOrder, Account
  <2>2. ASSUME NEW e, Yield(e), e.type \notin {"text", "call"} PROVE Sent' = Sent /\ SentInOrder'
    BY <2>2, SentMore DEF Account
  <2> QED
    BY <2>1, <2>2
<1>2. ChatLeft' = ChatLeft /\ Spoken' = Spoken /\ (Ascending' <=> Ascending) /\ (Spent' <=> Spent)
  BY DEF ChatLeft, Spoken, Ascending, Spent
<1> QED
  BY <1>1, <1>2 DEF Account

\* A chunk that arrives.
LEMMA AccountChunk ==
  ASSUME TypeOK, Account, pc = "stream", Spent, UNCHANGED <<pc, log>>,
         NEW k \in Chunks, NEW n \in Nat,
         LET c == Deliver(k, n)
         IN /\ cur'.text = c.text /\ cur'.frags = c.frags /\ fed' = fed + 2 + Len(c.frags)
            /\ Spoken' = Spoken \cup ({c.text} \ {0}) \cup FragTokens(c.frags)
  PROVE  Account'
<1> DEFINE c == Deliver(k, n)
           new == ({c.text} \ {0}) \cup FragTokens(c.frags)
<1>1. fed \in Nat
  BY DEF TypeOK
<1>2. /\ new \subseteq (fed + 1) .. (fed + 2 + Len(c.frags))
      /\ \A j \in DOMAIN c.frags : c.frags[j].args # 0 => c.text < c.frags[j].args
      /\ \A i, j \in DOMAIN c.frags :
           i < j /\ c.frags[i].args # 0 /\ c.frags[j].args # 0 => c.frags[i].args < c.frags[j].args
  BY <1>1, ChunkTokens
<1>3. /\ cur'.text = c.text /\ cur'.frags = c.frags /\ fed' = fed + 2 + Len(c.frags)
      /\ Spoken' = Spoken \cup new
  OBVIOUS
<1>4. Len(c.frags) \in Nat
  <2>1. c.frags \in Seq(CallFrag)
    BY <1>1, DeliverType
  <2> HIDE DEF c
  <2> QED
    BY <2>1
<1> HIDE DEF c
<1>5. ChatLeft' = new /\ Ascending'
  BY <1>2, <1>3 DEF ChatLeft, Ascending
<1>6. ChatLeft = {}
  <2>1. cur.frags = <<>> /\ cur.text = 0
    BY DEF Spent
  <2>2. DOMAIN cur.frags = {}
    BY <2>1
  <2> QED
    BY <2>1, <2>2 DEF ChatLeft, FragTokens
<1>7. Sent' = Sent /\ SentInOrder'
  BY DEF Sent, Deltas, SentInOrder, Account
<1> HIDE DEF new
<1>8. Spoken = Sent /\ Sent \subseteq 0 .. fed
  BY <1>6 DEF Account
<1>9. Spoken' = Sent' \cup ChatLeft'
  BY <1>3, <1>5, <1>7, <1>8
<1>10. fed' \in Nat /\ fed < fed' /\ fed' = fed + 2 + Len(c.frags)
  <2>1. \A a, l \in Nat : a + 2 + l \in Nat /\ a < a + 2 + l
    OBVIOUS
  <2> QED
    BY <1>1, <1>3, <1>4, <2>1
<1>11. Spoken' \subseteq 0 .. fed'
  <2>1. 0 .. fed \subseteq 0 .. fed' /\ (fed + 1) .. fed' \subseteq 0 .. fed'
    <3>1. \A a, b \in Nat : a < b => 0 .. a \subseteq 0 .. b /\ (a + 1) .. b \subseteq 0 .. b
      OBVIOUS
    <3> QED
      BY <1>1, <1>10, <3>1
  <2>2. new \subseteq (fed + 1) .. fed'
    BY <1>2, <1>10
  <2> QED
    BY <1>3, <1>8, <2>1, <2>2
<1>12. \A x \in Sent', y \in ChatLeft' : x < y
  <2>1. \A x \in 0 .. fed, y \in (fed + 1) .. fed' : x < y
    BY <1>1, <1>10
  <2>2. new \subseteq (fed + 1) .. fed'
    BY <1>2, <1>10
  <2> QED
    BY <1>5, <1>7, <1>8, <2>1, <2>2
<1>13. pc' \notin {"finished", "end"}
  OBVIOUS
<1> QED
  BY <1>5, <1>7, <1>9, <1>11, <1>12, <1>13 DEF Account

\* Text or the first fragment taken out of the chunk and sent.
LEMMA AccountTaken ==
  ASSUME TypeOK, Account, pc = "stream", UNCHANGED <<pc, messages, streamed, fed>>,
         NEW e, Yield(e), e.type \in {"text", "call"},
         ChatLeft = Tokens(e.body) \cup ChatLeft', Ascending',
         \A x \in Tokens(e.body), y \in ChatLeft' : x < y
  PROVE  Account'
<1>1. Sent' = Sent \cup Tokens(e.body) /\ SentInOrder'
  BY SentMore DEF Account
<1>2. Spoken' = Spoken
  BY DEF Spoken
<1>3. \A x \in Sent', y \in ChatLeft' : x < y
  BY <1>1 DEF Account
<1> QED
  BY <1>1, <1>2, <1>3 DEF Account

LEMMA AccountStep == TypeOK /\ Account /\ [Next]_vars => Account'
<1> SUFFICES ASSUME TypeOK, Account, [Next]_vars PROVE Account'
  OBVIOUS
<1>1. /\ Len(messages) \in Nat \ {0} /\ DOMAIN messages = 1 .. Len(messages)
      /\ streamed \subseteq DOMAIN messages /\ fed \in Nat
      /\ Latest = messages[Len(messages)] /\ Latest.calls \in Seq(Call) /\ Latest.text \in Seq(Nat)
  BY LatestType DEF TypeOK
<1>2. ASSUME NEW k \in Chunks, StartsAnswer(k) PROVE Account'
  <2> DEFINE n == Len(messages) + 1
             c == Deliver(k, n)
             m == messages'[n]
  <2>0. PICK first : first = TRUE
    OBVIOUS
  <2>1. /\ pc = "stream" /\ Spent /\ UNCHANGED <<pc, log>>
        /\ c.text \in Nat /\ c.frags \in Seq(CallFrag) /\ cur'.text = c.text /\ cur'.frags = c.frags
        /\ fed' = fed + 2 + Len(c.frags)
        /\ \A i \in DOMAIN messages : messages'[i] = messages[i]
        /\ m.text = Token(c.text) /\ m.calls = AddFragments(<<>>, c.frags, first)
        /\ n \notin DOMAIN messages /\ streamed' = streamed \cup {n}
    BY <1>2, <2>0, StartsAnswerStep
  <2> HIDE DEF c, m
  <2>2. /\ <<>> \in Seq(Call) /\ <<>> \in Seq(Nat) /\ <<>> \o Token(c.text) = Token(c.text)
        /\ Tokens(<<>>) = {} /\ ArgTokens(<<>>) = {}
    BY <2>1 DEF Token, Tokens, ArgTokens
  <2>3. OfModel(m) = Tokens(<<>>) \cup ArgTokens(<<>>) \cup ({c.text} \ {0}) \cup FragTokens(c.frags)
    <3>1. OfModel(m) = Tokens(m.text) \cup ArgTokens(m.calls)
      BY OfModelIs
    <3>2. Tokens(<<>> \o Token(c.text)) \cup ArgTokens(AddFragments(<<>>, c.frags, first))
            = Tokens(<<>>) \cup ArgTokens(<<>>) \cup ({c.text} \ {0}) \cup FragTokens(c.frags)
      <4>1. \A text \in Seq(Nat), calls \in Seq(Call) :
              SaidMore(text, calls, c.text, c.frags, first)
        BY <2>1, SaysMore
      <4> QED
        BY <2>2, <4>1 DEF SaidMore
    <3>3. m.text = <<>> \o Token(c.text) /\ m.calls = AddFragments(<<>>, c.frags, first)
      BY <2>1, <2>2
    <3> QED
      BY <3>1, <3>2, <3>3
  <2>4. \A i \in streamed : OfModel(messages'[i]) = OfModel(messages[i])
    BY <1>1, <2>1
  <2>5. Spoken' = Spoken \cup OfModel(m)
    <3>1. Spoken' = UNION {OfModel(messages'[i]) : i \in streamed \cup {n}}
      BY <2>1 DEF Spoken
    <3>2. UNION {OfModel(messages'[i]) : i \in streamed} = Spoken
      BY <2>4 DEF Spoken
    <3>3. Spoken' = (UNION {OfModel(messages'[i]) : i \in streamed}) \cup OfModel(messages'[n])
      BY <3>1
    <3> QED
      BY <3>2, <3>3 DEF m
  <2>6. Spoken' = Spoken \cup ({c.text} \ {0}) \cup FragTokens(c.frags)
    BY <2>2, <2>3, <2>5
  <2>7. n \in Nat
    BY <1>1
  <2> QED
    BY <2>1, <2>6, <2>7, AccountChunk DEF c
<1>3. ASSUME NEW k \in Chunks, GoesOn(k) PROVE Account'
  <2> DEFINE n == Len(messages)
             c == Deliver(k, n)
             m == messages'[n]
  <2>0. PICK first : first = FALSE
    OBVIOUS
  <2>1. /\ pc = "stream" /\ Spent /\ UNCHANGED <<pc, log>>
        /\ c.text \in Nat /\ c.frags \in Seq(CallFrag) /\ cur'.text = c.text /\ cur'.frags = c.frags
        /\ fed' = fed + 2 + Len(c.frags)
        /\ \A i \in DOMAIN messages \ {n} : messages'[i] = messages[i]
        /\ m.text = Latest.text \o Token(c.text) /\ m.calls = AddFragments(Latest.calls, c.frags, first)
        /\ n \in streamed /\ streamed' = streamed
    BY <1>3, <2>0, GoesOnStep
  <2> HIDE DEF c, m
  <2>2. OfModel(Latest) = Tokens(Latest.text) \cup ArgTokens(Latest.calls)
    BY DEF OfModel, ArgTokens
  <2>3. OfModel(m) = OfModel(Latest) \cup ({c.text} \ {0}) \cup FragTokens(c.frags)
    <3>1. OfModel(m) = Tokens(Latest.text) \cup ArgTokens(Latest.calls)
                         \cup ({c.text} \ {0}) \cup FragTokens(c.frags)
      <4>1. OfModel(m) = Tokens(m.text) \cup ArgTokens(m.calls)
        BY OfModelIs
      <4>2. Tokens(Latest.text \o Token(c.text)) \cup ArgTokens(AddFragments(Latest.calls, c.frags, first))
              = Tokens(Latest.text) \cup ArgTokens(Latest.calls)
                  \cup ({c.text} \ {0}) \cup FragTokens(c.frags)
        <5>1. \A text \in Seq(Nat), calls \in Seq(Call) :
                SaidMore(text, calls, c.text, c.frags, first)
          BY <2>1, SaysMore
        <5>2. Latest.text \in Seq(Nat) /\ Latest.calls \in Seq(Call)
          BY <1>1
        <5> QED
          BY <5>1, <5>2 DEF SaidMore
      <4>3. m.text = Latest.text \o Token(c.text) /\ m.calls = AddFragments(Latest.calls, c.frags, first)
        BY <2>1
      <4> QED
        BY <4>1, <4>2, <4>3
    <3> QED
      BY <2>2, <3>1
  <2> DEFINE others == UNION {OfModel(messages[i]) : i \in streamed \ {n}}
  <2>4. Spoken = others \cup OfModel(Latest)
    BY <1>1, <2>1 DEF Spoken
  <2>5. Spoken' = others \cup OfModel(m)
    <3>1. \A i \in streamed \ {n} : OfModel(messages'[i]) = OfModel(messages[i])
      BY <1>1, <2>1
    <3>2. others = UNION {OfModel(messages'[i]) : i \in streamed \ {n}}
      BY <3>1
    <3>3. Spoken' = UNION {OfModel(messages'[i]) : i \in streamed}
      BY <2>1 DEF Spoken
    <3> HIDE DEF others
    <3> QED
      BY <2>1, <3>2, <3>3 DEF m
  <2> HIDE DEF others
  <2>6. Spoken' = Spoken \cup ({c.text} \ {0}) \cup FragTokens(c.frags)
    BY <2>3, <2>4, <2>5
  <2> QED
    BY <1>1, <2>1, <2>6, AccountChunk DEF c
<1>4. CASE ToolsAnswer \/ \E thinks \in BOOLEAN : Answers(thinks)
  <2>1. /\ pc = "stream" /\ UNCHANGED <<pc, streamed, cur, log>>
        /\ fed' \in Nat /\ fed <= fed'
        /\ \A i \in DOMAIN messages : messages'[i] = messages[i]
    BY <1>4, SkippedStep
  <2>2. Spoken' = Spoken
    <3>1. \A i \in streamed : OfModel(messages'[i]) = OfModel(messages[i])
      BY <1>1, <2>1
    <3> QED
      BY <2>1, <3>1 DEF Spoken
  <2>3. Sent' = Sent /\ (SentInOrder' <=> SentInOrder)
    BY <2>1 DEF Sent, Deltas, SentInOrder
  <2>4. ChatLeft' = ChatLeft /\ (Ascending' <=> Ascending)
    BY <2>1 DEF ChatLeft, Ascending
  <2>5. 0 .. fed \subseteq 0 .. fed'
    BY <1>1, <2>1
  <2> QED
    BY <2>1, <2>2, <2>3, <2>4, <2>5 DEF Account
<1>5. CASE EmitText
  <2> DEFINE e == Delta("text", <<cur.text>>)
  <2>1. /\ Yield(e) /\ pc = "stream" /\ cur.text # 0 /\ UNCHANGED <<pc, messages, streamed, fed>>
        /\ cur' = [cur EXCEPT !.text = 0]
    BY <1>5 DEF EmitText, run
  <2>2. cur'.text = 0 /\ cur'.frags = cur.frags /\ cur.text \in Nat /\ cur.frags \in Seq(CallFrag)
    BY <2>1 DEF TypeOK
  <2>3. e.type = "text" /\ Tokens(e.body) = {cur.text}
    <3>1. e.type = "text" /\ e.body = <<cur.text>>
      BY DEF Delta
    <3>2. DOMAIN <<cur.text>> = {1} /\ <<cur.text>>[1] = cur.text
      OBVIOUS
    <3> QED
      BY <3>1, <3>2 DEF Tokens
  <2> HIDE DEF e
  <2>4. ChatLeft' = FragTokens(cur.frags) /\ ChatLeft = {cur.text} \cup FragTokens(cur.frags)
    BY <2>1, <2>2 DEF ChatLeft
  <2>5. \A j \in DOMAIN cur.frags : cur.frags[j].args \in Nat
    <3>1. \A j \in DOMAIN cur.frags : cur.frags[j] \in CallFrag
      BY <2>2
    <3> QED
      BY <3>1 DEF CallFrag
  <2>6. Ascending /\ Ascending'
    BY <2>2, <2>5 DEF Account, Ascending
  <2>7. \A x \in FragTokens(cur.frags) : cur.text < x
    BY <2>6 DEF Ascending, FragTokens
  <2> QED
    BY <2>1, <2>3, <2>4, <2>6, <2>7, AccountTaken
<1>6. CASE EmitCall
  <2> DEFINE f == Head(cur.frags)
             rest == Tail(cur.frags)
             e == CallDelta
  <2>1. /\ Yield(e) /\ pc = "stream" /\ cur.text = 0 /\ cur.frags # <<>>
        /\ UNCHANGED <<pc, messages, streamed, fed>> /\ cur' = [cur EXCEPT !.frags = rest]
    BY <1>6 DEF EmitCall, CallDelta, PopFragment, run
  <2>2. /\ f \in CallFrag /\ f = cur.frags[1] /\ 1 \in DOMAIN cur.frags
        /\ \A j \in DOMAIN rest : j + 1 \in DOMAIN cur.frags /\ rest[j] = cur.frags[j + 1]
    BY <2>1, HeadFrag
  <2>3. e.type = "call" /\ e.body = Token(f.args)
    BY <2>1, CallDeltaType
  <2>4. cur'.text = 0 /\ cur'.frags = rest
    BY <2>1 DEF TypeOK
  <2>5. f.args \in Nat
    BY <2>2 DEF CallFrag
  <2>6. Tokens(e.body) = {f.args} \ {0}
    BY <2>3, <2>5, TokensToken
  <2>7. /\ DOMAIN cur.frags = 1 .. Len(cur.frags) /\ Len(cur.frags) \in Nat
        /\ DOMAIN rest = 1 .. (Len(cur.frags) - 1)
    <3>1. cur.frags \in Seq(CallFrag)
      BY DEF TypeOK
    <3> QED
      BY <2>1, <3>1
  <2> HIDE DEF e, f, rest
  <2>8. FragTokens(cur.frags) = ({f.args} \ {0}) \cup FragTokens(rest)
    <3>1. ASSUME NEW j \in DOMAIN cur.frags, j # 1
          PROVE  j - 1 \in DOMAIN rest /\ rest[j - 1] = cur.frags[j]
      <4>1. j - 1 \in DOMAIN rest /\ (j - 1) + 1 = j
        BY <2>7, <3>1
      <4> QED
        BY <2>2, <4>1
    <3> QED
      BY <2>2, <3>1 DEF FragTokens
  <2>9. ChatLeft = Tokens(e.body) \cup ChatLeft'
    BY <2>1, <2>4, <2>6, <2>8 DEF ChatLeft
  <2>10. Ascending
    BY DEF Account
  <2>11. ASSUME NEW i \in DOMAIN rest, NEW j \in DOMAIN rest, i < j
         PROVE  i + 1 < j + 1 /\ 1 < j + 1
    BY <2>7, <2>11
  <2>12. Ascending'
    BY <2>1, <2>2, <2>4, <2>10, <2>11 DEF Ascending
  <2>13. ASSUME NEW j \in DOMAIN rest, rest[j].args # 0, f.args # 0 PROVE f.args < rest[j].args
    <3>1. 1 < j + 1
      BY <2>7
    <3> QED
      BY <2>2, <2>10, <2>13, <3>1 DEF Ascending
  <2>14. \A x \in Tokens(e.body), y \in ChatLeft' : x < y
    BY <2>4, <2>6, <2>13 DEF ChatLeft, FragTokens
  <2> QED
    BY <2>1, <2>3, <2>9, <2>12, <2>14, AccountTaken
<1>7. CASE Role \/ Finish \/ Done
  <2>1. /\ UNCHANGED <<messages, streamed, fed, cur>>
        /\ pc' \in {"finished", "end"} => Spent \/ pc' = pc
    BY <1>7 DEF Role, Finish, Done, Waiting, run, Account
  <2>2. \E e : Yield(e) /\ e.type \notin {"text", "call"}
    BY <1>7 DEF Role, Finish, Done, Delta
  <2> QED
    BY <2>1, <2>2, AccountQuiet
<1>8. CASE GraphRaises \/ Disconnect \/ UNCHANGED vars
  <2>1. /\ UNCHANGED <<messages, streamed, fed, cur, log>>
        /\ pc' = pc \/ pc' \in {"broken", "gone"}
    BY <1>8 DEF GraphRaises, Disconnect, vars, run
  <2> QED
    BY <2>1, AccountQuiet
<1> QED
  BY <1>2, <1>3, <1>4, <1>5, <1>6, <1>7, <1>8 DEF Next, Emit

\* Faithful: what models say and the arguments of their calls reach the client in the
\* order they were produced, each once, nothing else does, and nothing is missing when
\* the stream has ended.
THEOREM ChatFaithful == Spec => []Faithful
<1>1. Account => Faithful
  <2> SUFFICES ASSUME Account PROVE Faithful
    OBVIOUS
  <2>1. Sent \subseteq Spoken
    BY DEF Account
  <2>2. ASSUME IsOver PROVE Spoken \subseteq Sent
    <3>1. cur.text = 0 /\ cur.frags = <<>>
      BY <2>2 DEF Account, IsOver, Spent
    <3>2. DOMAIN cur.frags = {}
      BY <3>1
    <3>3. ChatLeft = {}
      BY <3>1, <3>2 DEF ChatLeft, FragTokens
    <3> QED
      BY <3>3 DEF Account
  <2> QED
    BY <2>1, <2>2 DEF Account, Faithful, SentInOrder
<1> QED
  BY <1>1, InitType, TypeStep, AccountInit, AccountStep, PTL DEF Spec

-----------------------------------------------------------------------------
(* Indices.  What has been told about calls is still in tool_index, which  *)
(* gives two keys two indices; a key made up for a fragment that has       *)
(* neither index nor id is its own index, and below next_index.            *)

CallEvents == {i \in DOMAIN log : log[i].type = "call"}

\* What is left of the chunk is pieces of the last message.
FromPieces ==
  \A j \in DOMAIN cur.frags : \E g \in Pieces :
    /\ cur.frags[j].index = g.index /\ cur.frags[j].origin = g.origin
    /\ cur.frags[j].id = IF g.id = None THEN None ELSE <<Len(messages), g.id>>

KeysApart ==
  /\ \A x, y \in DOMAIN toolIndex : toolIndex[x] = toolIndex[y] => x = y
  /\ \A x \in DOMAIN toolIndex : x[1] = "pos" => x = <<"pos", toolIndex[x], 0>>

\* Where a delta of a call comes from, in each of the three ways a provider may
\* name calls.
ByIndex(e) ==
  \E g \in Pieces : g.index # None /\ g.index = e.idx /\ g.origin = e.of.call
ById(e) ==
  \E g \in Pieces :
    /\ g.index = None /\ g.id # None /\ g.origin = e.of.call
    /\ <<"id", e.of.message, g.id>> \in DOMAIN toolIndex
    /\ toolIndex[<<"id", e.of.message, g.id>>] = e.idx
ByPosition(e, i) ==
  /\ e.of.call = -(i - 1)
  /\ <<"pos", e.idx, 0>> \in DOMAIN toolIndex /\ toolIndex[<<"pos", e.idx, 0>>] = e.idx

CallTold(i) ==
  /\ log[i].idx \in Nat /\ log[i].idx < nextIndex
  /\ log[i].of \in [message : Nat, call : Int, indexed : BOOLEAN]
  /\ log[i].of.message \in DOMAIN messages
  /\ log[i].of.indexed => ByIndex(log[i])
  /\ ~log[i].of.indexed /\ log[i].call # None => ById(log[i])
  /\ ~log[i].of.indexed /\ log[i].call = None => ByPosition(log[i], i)

\* A call without a name gets an index that none has had.
Unnamed(i) == ~log[i].of.indexed /\ log[i].call = None
NewIndex == \A i, j \in CallEvents : i < j /\ Unnamed(j) => log[i].idx # log[j].idx

IndexInv == FromPieces /\ KeysApart /\ (\A i \in CallEvents : CallTold(i)) /\ NewIndex

LEMMA PieceType == Pieces \subseteq Fragment
<1>1. ASSUME NEW k \in Chunks, NEW j \in DOMAIN k.frags PROVE k.frags[j] \in Fragment
  <2>1. k.frags \in Seq(Fragment)
    BY ChatChunksAssumption DEF ChunkKind
  <2> QED
    BY <2>1
<1> QED
  BY <1>1 DEF Pieces

LEMMA ToldApart ==
  ASSUME Coherent, KeysApart, NewIndex, NEW i \in CallEvents, NEW j \in CallEvents,
         CallTold(i), CallTold(j), log[i].of.indexed = log[j].of.indexed,
         log[i].of.indexed => log[i].of.message = log[j].of.message,
         DOMAIN log \subseteq Nat \ {0}
  PROVE  log[i].idx = log[j].idx <=> log[i].of = log[j].of
<1> DEFINE a == log[i].of
           b == log[j].of
<1>1. /\ a \in [message : Nat, call : Int, indexed : BOOLEAN]
      /\ b \in [message : Nat, call : Int, indexed : BOOLEAN]
      /\ a.indexed = b.indexed
  BY DEF CallTold
<1>2. a = b <=> a.message = b.message /\ a.call = b.call
  BY <1>1
<1>3. CASE a.indexed
  <2>1. PICK f \in Pieces : f.index # None /\ f.index = log[i].idx /\ f.origin = a.call
    BY <1>3 DEF CallTold, ByIndex
  <2>2. PICK g \in Pieces : g.index # None /\ g.index = log[j].idx /\ g.origin = b.call
    BY <1>1, <1>3 DEF CallTold, ByIndex
  <2>3. f.index = g.index <=> f.origin = g.origin
    BY <2>1, <2>2 DEF Coherent, Followable
  <2>4. a.message = b.message
    BY <1>3
  <2> QED
    BY <1>2, <2>1, <2>2, <2>3, <2>4
<1>4. CASE ~a.indexed /\ log[i].call # None /\ log[j].call # None
  <2>1. PICK f \in Pieces :
          /\ f.index = None /\ f.id # None /\ f.origin = a.call
          /\ <<"id", a.message, f.id>> \in DOMAIN toolIndex
          /\ toolIndex[<<"id", a.message, f.id>>] = log[i].idx
    BY <1>4 DEF CallTold, ById
  <2>2. PICK g \in Pieces :
          /\ g.index = None /\ g.id # None /\ g.origin = b.call
          /\ <<"id", b.message, g.id>> \in DOMAIN toolIndex
          /\ toolIndex[<<"id", b.message, g.id>>] = log[j].idx
    BY <1>1, <1>4 DEF CallTold, ById
  <2>3. f.id = g.id <=> f.origin = g.origin
    BY <2>1, <2>2 DEF Coherent, Followable
  <2>4. log[i].idx = log[j].idx <=> <<"id", a.message, f.id>> = <<"id", b.message, g.id>>
    BY <2>1, <2>2 DEF KeysApart
  <2>5. <<"id", a.message, f.id>> = <<"id", b.message, g.id>> <=> a.message = b.message /\ f.id = g.id
    OBVIOUS
  <2> QED
    BY <1>2, <2>1, <2>2, <2>3, <2>4, <2>5
\* A named call and one that is not.
<1>5. ASSUME NEW m \in CallEvents, NEW n \in CallEvents, CallTold(m), CallTold(n),
             ~log[m].of.indexed, ~log[n].of.indexed, log[m].call # None, log[n].call = None
      PROVE  log[m].idx # log[n].idx /\ log[m].of.call # log[n].of.call
  <2>1. PICK f \in Pieces :
          /\ f.index = None /\ f.id # None /\ f.origin = log[m].of.call
          /\ <<"id", log[m].of.message, f.id>> \in DOMAIN toolIndex
          /\ toolIndex[<<"id", log[m].of.message, f.id>>] = log[m].idx
    BY <1>5 DEF CallTold, ById
  <2>2. /\ log[n].of.call = -(n - 1) /\ <<"pos", log[n].idx, 0>> \in DOMAIN toolIndex
        /\ toolIndex[<<"pos", log[n].idx, 0>>] = log[n].idx
    BY <1>5 DEF CallTold, ByPosition
  <2>3. f.origin # 0 /\ f.origin \in Nat
    <3>1. f.origin # 0
      BY <2>1 DEF Coherent, Followable
    <3>2. f \in Fragment
      BY PieceType
    <3> QED
      BY <3>1, <3>2 DEF Fragment
  <2>4. n \in Nat /\ n >= 1
    <3>1. n \in DOMAIN log
      BY DEF CallEvents
    <3> QED
      BY <3>1
  <2>5. log[m].of.call # log[n].of.call
    BY <2>1, <2>2, <2>3, <2>4
  <2>6. <<"id", log[m].of.message, f.id>> # <<"pos", log[n].idx, 0>>
    OBVIOUS
  <2> QED
    BY <2>1, <2>2, <2>5, <2>6 DEF KeysApart
<1>6. CASE ~a.indexed /\ log[i].call # None /\ log[j].call = None
  BY <1>1, <1>2, <1>5, <1>6
<1>7. CASE ~a.indexed /\ log[i].call = None /\ log[j].call # None
  BY <1>1, <1>2, <1>5, <1>7
<1>8. CASE ~a.indexed /\ log[i].call = None /\ log[j].call = None
  <2>1. i \in Nat /\ j \in Nat
    BY DEF CallEvents
  <2>2. a.call = -(i - 1) /\ b.call = -(j - 1)
    BY <1>1, <1>8 DEF CallTold, ByPosition
  <2>3. i # j => log[i].idx # log[j].idx
    BY <1>1, <1>8, <2>1 DEF NewIndex, Unnamed
  <2>4. i # j => a.call # b.call
    BY <2>1, <2>2
  <2> QED
    BY <1>2, <2>3, <2>4
<1> QED
  BY <1>3, <1>4, <1>6, <1>7, <1>8

LEMMA IndexInit == Init => IndexInv
<1> SUFFICES ASSUME Init PROVE IndexInv
  OBVIOUS
<1>1. log = <<>> /\ cur.frags = <<>> /\ toolIndex = <<>>
  BY DEF Init, Nothing
<1>2. DOMAIN log = {} /\ DOMAIN cur.frags = {} /\ DOMAIN toolIndex = {}
  BY <1>1
<1>3. CallEvents = {}
  BY <1>2 DEF CallEvents
<1> QED
  BY <1>2, <1>3 DEF IndexInv, FromPieces, KeysApart, NewIndex

\* What was told stays true when tool_index and the log grow.
LEMMA StaysTold ==
  ASSUME NEW i \in CallEvents, CallTold(i), log'[i] = log[i],
         DOMAIN messages \subseteq DOMAIN messages', DOMAIN toolIndex \subseteq DOMAIN toolIndex',
         \A x \in DOMAIN toolIndex : toolIndex'[x] = toolIndex[x],
         nextIndex \in Nat, nextIndex' \in Nat, nextIndex <= nextIndex'
  PROVE  CallTold(i)'
<1>0. PICK e : e = log[i] /\ e = log'[i]
  OBVIOUS
<1>1. /\ e.idx \in Nat /\ e.idx < nextIndex'
      /\ e.of \in [message : Nat, call : Int, indexed : BOOLEAN] /\ e.of.message \in DOMAIN messages'
      /\ e.of.indexed => ByIndex(e)
      /\ ~e.of.indexed /\ e.call # None => ById(e)
      /\ ~e.of.indexed /\ e.call = None => ByPosition(e, i)
  BY <1>0 DEF CallTold
<1>2. ById(e) => ById(e)'
  BY DEF ById
<1>3. ByPosition(e, i) => ByPosition(e, i)'
  BY DEF ByPosition
<1>4. ByIndex(e) => ByIndex(e)'
  BY DEF ByIndex
<1> QED
  BY <1>0, <1>1, <1>2, <1>3, <1>4 DEF CallTold

\* Steps that yield nothing about calls.
LEMMA IndexQuiet ==
  ASSUME TypeOK, IndexInv, UNCHANGED <<toolIndex, nextIndex>>,
         DOMAIN messages \subseteq DOMAIN messages', FromPieces',
         log' = log \/ \E e : Yield(e) /\ e.type # "call"
  PROVE  IndexInv'
<1>1. CallEvents' = CallEvents /\ \A i \in CallEvents : log'[i] = log[i]
  <2>1. CASE log' = log
    BY <2>1 DEF CallEvents
  <2>2. ASSUME NEW e, Yield(e), e.type # "call"
        PROVE  CallEvents' = CallEvents /\ \A i \in CallEvents : log'[i] = log[i]
    BY <2>2, LogMore DEF CallEvents
  <2> QED
    BY <2>1, <2>2
<1>2. nextIndex \in Nat
  BY DEF TypeOK
<1>3. \A i \in CallEvents : CallTold(i)'
  BY <1>1, <1>2, StaysTold DEF IndexInv
<1>4. KeysApart'
  BY DEF IndexInv, KeysApart
<1>5. NewIndex'
  BY <1>1 DEF IndexInv, NewIndex, Unnamed
<1> QED
  BY <1>1, <1>3, <1>4, <1>5 DEF IndexInv

LEMMA ChunkFromPieces ==
  ASSUME TypeOK, NEW k \in Chunks, NEW n \in Nat, Len(messages') = n,
         cur'.frags = Deliver(k, n).frags
  PROVE  FromPieces'
<1> DEFINE c == Deliver(k, n)
<1>1. /\ fed \in Nat
      /\ \A j \in DOMAIN c.frags :
           /\ j \in DOMAIN k.frags
           /\ c.frags[j].index = k.frags[j].index /\ c.frags[j].origin = k.frags[j].origin
           /\ c.frags[j].id = IF k.frags[j].id = None THEN None ELSE <<n, k.frags[j].id>>
  BY DeliverType, ZenonT(60) DEF TypeOK
<1>2. cur'.frags = c.frags
  OBVIOUS
<1> HIDE DEF c
<1>3. \A j \in DOMAIN k.frags : k.frags[j] \in Pieces
  BY DEF Pieces
<1> QED
  BY <1>1, <1>2, <1>3 DEF FromPieces

\* The index of a fragment that has none: the one of its key, which from now on is
\* in tool_index.
LEMMA KeyGetsIndex ==
  ASSUME TypeOK, KeysApart, NEW f \in CallFrag, f.index = None,
         toolIndex' = SetDefault(KeyFor(f), IndexFor(f))
  PROVE  /\ DOMAIN toolIndex' = DOMAIN toolIndex \cup {KeyFor(f)}
         /\ \A x \in DOMAIN toolIndex : toolIndex'[x] = toolIndex[x]
         /\ toolIndex'[KeyFor(f)] = IndexFor(f)
         /\ KeysApart'
         /\ f.id = None => IndexFor(f) = nextIndex /\ KeyFor(f) = <<"pos", IndexFor(f), 0>>
<1> DEFINE key == KeyFor(f)
           idx == IndexFor(f)
<1>1. idx = IF key \in DOMAIN toolIndex THEN toolIndex[key] ELSE nextIndex
  BY DEF IndexFor
<1>2. toolIndex' = [x \in DOMAIN toolIndex \cup {key} |->
                      IF x \in DOMAIN toolIndex THEN toolIndex[x] ELSE idx]
  BY DEF SetDefault
<1>3. toolIndex \in [DOMAIN toolIndex -> 0 .. (nextIndex - 1)] /\ nextIndex \in Nat
  BY DEF TypeOK
<1>4. \A x \in DOMAIN toolIndex : toolIndex[x] # nextIndex
  <2>1. \A x \in DOMAIN toolIndex : toolIndex[x] \in 0 .. (nextIndex - 1)
    BY <1>3
  <2> QED
    BY <1>3, <2>1
<1>5. key = <<"pos", nextIndex, 0>> \/ (key[1] = "id" /\ f.id # None)
  BY DEF KeyFor
<1>6. f.id = None => key = <<"pos", nextIndex, 0>>
  BY DEF KeyFor
<1> HIDE DEF key, idx
<1>7. DOMAIN toolIndex' = DOMAIN toolIndex \cup {key}
  BY <1>2
<1>8. \A x \in DOMAIN toolIndex : toolIndex'[x] = toolIndex[x]
  BY <1>2
<1>9. toolIndex'[key] = idx
  BY <1>1, <1>2
<1>10. <<"pos", nextIndex, 0>> \notin DOMAIN toolIndex
  <2> SUFFICES ASSUME <<"pos", nextIndex, 0>> \in DOMAIN toolIndex PROVE FALSE
    OBVIOUS
  <2> DEFINE x == <<"pos", nextIndex, 0>>
  <2>1. x \in DOMAIN toolIndex /\ x[1] = "pos" /\ x[2] = nextIndex
    OBVIOUS
  <2>2. x = <<"pos", toolIndex[x], 0>>
    BY <2>1 DEF KeysApart
  <2> DEFINE v == toolIndex[x]
  <2> HIDE DEF v
  <2>3. <<"pos", v, 0>>[2] = v
    OBVIOUS
  <2>4. v = nextIndex
    BY <2>1, <2>2, <2>3 DEF v
  <2> QED
    BY <1>4, <2>1, <2>4 DEF v
<1>11. f.id = None => idx = nextIndex /\ key = <<"pos", idx, 0>>
  BY <1>1, <1>6, <1>10
<1>12. CASE key \in DOMAIN toolIndex
  <2>1. DOMAIN toolIndex' = DOMAIN toolIndex
    BY <1>7, <1>12
  <2>2. KeysApart'
    BY <1>8, <2>1 DEF KeysApart
  <2> QED
    BY <1>7, <1>8, <1>9, <1>11, <2>2 DEF key, idx
<1>13. CASE key \notin DOMAIN toolIndex
  <2>1. toolIndex'[key] = nextIndex
    BY <1>1, <1>9, <1>13
  <2>2. \A x, y \in DOMAIN toolIndex' : toolIndex'[x] = toolIndex'[y] => x = y
    BY <1>4, <1>7, <1>8, <2>1 DEF KeysApart
  <2>3. \A x \in DOMAIN toolIndex' : x[1] = "pos" => x = <<"pos", toolIndex'[x], 0>>
    BY <1>5, <1>7, <1>8, <2>1 DEF KeysApart
  <2>4. KeysApart'
    BY <2>2, <2>3 DEF KeysApart
  <2> QED
    BY <1>7, <1>8, <1>9, <1>11, <2>4 DEF key, idx
<1> QED
  BY <1>12, <1>13

\* The delta of a call.
LEMMA IndexCall ==
  ASSUME TypeOK, Coherent, IndexInv, EmitCall
  PROVE  IndexInv'
<1> DEFINE f == Head(cur.frags)
           rest == Tail(cur.frags)
           idx == IndexFor(f)
<1>0. PICK n : n = Len(log) + 1
  OBVIOUS
<1>1. /\ cur.frags # <<>> /\ Yield(CallDelta) /\ messages' = messages
      /\ toolIndex' = IF f.index # None THEN toolIndex ELSE SetDefault(KeyFor(f), idx)
      /\ nextIndex' = NextAfter(idx) /\ cur' = [cur EXCEPT !.frags = rest]
  BY DEF EmitCall, CallDelta, PopFragment, run
<1>2. /\ f \in CallFrag /\ f = cur.frags[1] /\ 1 \in DOMAIN cur.frags
      /\ \A j \in DOMAIN rest : j + 1 \in DOMAIN cur.frags /\ rest[j] = cur.frags[j + 1]
  BY <1>1, HeadFrag
<1>3. PICK g \in Pieces :
        /\ f.index = g.index /\ f.origin = g.origin
        /\ f.id = IF g.id = None THEN None ELSE <<Len(messages), g.id>>
  BY <1>2 DEF IndexInv, FromPieces
<1>4. FromPieces /\ KeysApart /\ (\A i \in CallEvents : CallTold(i)) /\ NewIndex
  BY DEF IndexInv
<1>5. FromPieces'
  <2>1. cur'.frags = rest
    BY <1>1 DEF TypeOK
  <2> HIDE DEF rest, f
  <2>2. ASSUME NEW j \in DOMAIN rest
        PROVE  \E h \in Pieces :
                 /\ rest[j].index = h.index /\ rest[j].origin = h.origin
                 /\ rest[j].id = IF h.id = None THEN None ELSE <<Len(messages), h.id>>
    BY <1>2, <1>4, ZenonT(60) DEF FromPieces
  <2>3. Len(messages') = Len(messages)
    BY <1>1
  <2> QED
    BY <2>1, <2>2, <2>3 DEF FromPieces
<1>6. /\ idx \in Nat /\ nextIndex \in Nat /\ nextIndex' \in Nat /\ idx < nextIndex' /\ nextIndex <= nextIndex'
  BY <1>1, <1>2, IndexType DEF TypeOK
<1>7. /\ CallDelta.type = "call" /\ CallDelta.idx = idx /\ CallDelta.call = f.id
      /\ CallDelta.of = [message |-> Len(messages), indexed |-> f.index # None,
                         call |-> IF f.origin = 0 THEN -Len(log) ELSE f.origin]
  BY <1>1, CallDeltaType DEF Origin
<1>8. PICK e : e = CallDelta
  OBVIOUS
<1>9. /\ Len(log) \in Nat /\ DOMAIN log = 1 .. Len(log) /\ DOMAIN log' = 1 .. n
      /\ log'[n] = e /\ \A i \in DOMAIN log : log'[i] = log[i]
  BY <1>0, <1>1, <1>8, LogMore
<1>10. /\ e.type = "call" /\ e.idx = idx /\ e.call = f.id /\ e.of.message = Len(messages)
       /\ e.of.indexed = (f.index # None) /\ e.of.call = IF f.origin = 0 THEN -Len(log) ELSE f.origin
       /\ e.of \in [message : Nat, call : Int, indexed : BOOLEAN]
  <2>1. Len(messages) \in Nat /\ Len(log) \in Nat
    BY <1>9, LatestType
  <2>2. f.origin \in Nat
    BY <1>2 DEF CallFrag
  <2> HIDE DEF f, idx
  <2>3. PICK message, call, indexed :
          /\ message = Len(messages) /\ call = (IF f.origin = 0 THEN -Len(log) ELSE f.origin)
          /\ indexed = (f.index # None)
    OBVIOUS
  <2>4. e.of = [message |-> message, indexed |-> indexed, call |-> call]
    BY <1>7, <1>8, <2>3
  <2>5. e.of.message = message /\ e.of.indexed = indexed /\ e.of.call = call
    BY <2>4
  <2>6. message \in Nat /\ call \in Int /\ indexed \in BOOLEAN
    BY <2>1, <2>2, <2>3
  <2>7. e.of \in [message : Nat, call : Int, indexed : BOOLEAN]
    BY <2>4, <2>6
  <2>8. e.type = "call" /\ e.idx = idx /\ e.call = f.id
    BY <1>7, <1>8
  <2> QED
    BY <2>3, <2>5, <2>7, <2>8
<1>11. Len(messages) \in DOMAIN messages /\ DOMAIN messages' = DOMAIN messages
  BY <1>1, LatestType
<1>12. \A x \in DOMAIN toolIndex : toolIndex'[x] = toolIndex[x]
  <2>1. CASE f.index # None
    BY <1>1, <1>4, <2>1 DEF KeysApart
  <2>2. CASE f.index = None
    BY <1>1, <1>2, <1>4, <2>2, KeyGetsIndex
  <2> QED
    BY <2>1, <2>2
<1>13. DOMAIN toolIndex \subseteq DOMAIN toolIndex' /\ KeysApart'
  <2>1. CASE f.index # None
    BY <1>1, <1>4, <2>1 DEF KeysApart
  <2>2. CASE f.index = None
    BY <1>1, <1>2, <1>4, <2>2, KeyGetsIndex
  <2> QED
    BY <2>1, <2>2
<1> HIDE DEF f, idx, rest
<1>14. CallEvents' = CallEvents \cup {n} /\ n \notin CallEvents /\ n \in Nat
       /\ \A i \in CallEvents : i < n /\ log'[i] = log[i]
  BY <1>0, <1>9, <1>10 DEF CallEvents
<1>15. \A i \in CallEvents : CallTold(i)'
  BY <1>4, <1>6, <1>11, <1>12, <1>13, <1>14, StaysTold
<1>16. e.of.indexed => ByIndex(e)
  <2> SUFFICES ASSUME e.of.indexed PROVE ByIndex(e)
    OBVIOUS
  <2>1. g.index # None /\ idx = g.index
    BY <1>3, <1>10 DEF idx, IndexFor
  <2>2. g.origin # 0
    BY <2>1 DEF Coherent, Followable
  <2> QED
    BY <1>3, <1>10, <2>1, <2>2 DEF ByIndex
<1>17. ~e.of.indexed /\ e.call # None => ById(e)'
  <2> SUFFICES ASSUME ~e.of.indexed, e.call # None PROVE ById(e)'
    OBVIOUS
  <2>1. f.index = None /\ g.index = None /\ g.id # None /\ f.id = <<Len(messages), g.id>>
    BY <1>3, <1>10
  <2>2. KeyFor(f) = <<"id", Len(messages), g.id>>
    <3>1. f.id # None
      BY <1>10
    <3>2. f.id[1] = Len(messages) /\ f.id[2] = g.id
      BY <2>1
    <3> QED
      BY <3>1, <3>2 DEF KeyFor
  <2>3. <<"id", Len(messages), g.id>> \in DOMAIN toolIndex'
        /\ toolIndex'[<<"id", Len(messages), g.id>>] = idx
    BY <1>1, <1>2, <1>4, <2>1, <2>2, KeyGetsIndex DEF f, idx
  <2>4. g.origin # 0
    BY <2>1 DEF Coherent, Followable
  <2> QED
    BY <1>3, <1>10, <2>1, <2>3, <2>4 DEF ById
<1>18. ~e.of.indexed /\ e.call = None => ByPosition(e, n)' /\ idx = nextIndex
  <2> SUFFICES ASSUME ~e.of.indexed, e.call = None PROVE ByPosition(e, n)' /\ idx = nextIndex
    OBVIOUS
  <2>1. f.index = None /\ f.id = None /\ g.index = None /\ g.id = None
    <3>1. f.index = None /\ f.id = None
      BY <1>10
    <3>2. g.id = None
      <4> SUFFICES ASSUME g.id # None PROVE FALSE
        OBVIOUS
      <4>1. f.id = <<Len(messages), g.id>> /\ f.id \notin CallId
        BY <1>3, <3>1, NoneIsNoCall DEF CallId
      <4>2. g.id \in Nat /\ Len(messages) \in Nat
        <5>1. g \in Fragment
          BY PieceType
        <5> QED
          BY <5>1, LatestType DEF Fragment
      <4> QED
        BY <4>1, <4>2 DEF CallId
    <3> QED
      BY <1>3, <3>1, <3>2
  <2>2. idx = nextIndex /\ KeyFor(f) = <<"pos", idx, 0>>
    BY <1>1, <1>2, <1>4, <2>1, KeyGetsIndex DEF f, idx
  <2>3. <<"pos", idx, 0>> \in DOMAIN toolIndex' /\ toolIndex'[<<"pos", idx, 0>>] = idx
    BY <1>1, <1>2, <1>4, <2>1, <2>2, KeyGetsIndex DEF f, idx
  <2>4. g.origin = 0
    BY <2>1 DEF Coherent, Followable
  <2>5. e.of.call = -(n - 1)
    BY <1>0, <1>3, <1>9, <1>10, <2>4
  <2> QED
    BY <1>10, <2>2, <2>3, <2>5 DEF ByPosition
<1>19. CallTold(n)'
  <2>1. ByIndex(e) => ByIndex(e)'
    BY DEF ByIndex
  <2> QED
    BY <1>6, <1>9, <1>10, <1>11, <1>16, <1>17, <1>18, <2>1 DEF CallTold
<1>20. NewIndex'
  <2>1. ASSUME NEW i \in CallEvents, ~e.of.indexed, e.call = None PROVE log[i].idx # e.idx
    <3>1. idx = nextIndex /\ log[i].idx < nextIndex /\ log[i].idx \in Nat
      BY <1>4, <1>18, <2>1 DEF CallTold
    <3> QED
      BY <1>6, <1>10, <3>1
  <2>2. \A i \in CallEvents : ~(n < i)
    BY <1>0, <1>9, <1>14 DEF CallEvents
  <2> SUFFICES ASSUME NEW i \in CallEvents', NEW j \in CallEvents', i < j, Unnamed(j)'
               PROVE  log'[i].idx # log'[j].idx
    BY DEF NewIndex
  <2>3. i \in CallEvents
    BY <1>14, <2>2
  <2>4. CASE j \in CallEvents
    BY <1>4, <1>14, <2>3, <2>4 DEF NewIndex, Unnamed
  <2>5. CASE j = n
    BY <1>9, <1>14, <2>1, <2>3, <2>5 DEF Unnamed
  <2> QED
    BY <1>14, <2>4, <2>5
<1>21. \A i \in CallEvents' : CallTold(i)'
  BY <1>14, <1>15, <1>19
<1> QED
  BY <1>5, <1>13, <1>20, <1>21 DEF IndexInv

LEMMA IndexStep == TypeOK /\ Coherent /\ IndexInv /\ [Next]_vars => IndexInv'
<1> SUFFICES ASSUME TypeOK, Coherent, IndexInv, [Next]_vars PROVE IndexInv'
  OBVIOUS
<1>1. FromPieces /\ Len(messages) \in Nat \ {0} /\ DOMAIN messages = 1 .. Len(messages)
  BY LatestType DEF IndexInv
<1>2. ASSUME NEW k \in Chunks, StartsAnswer(k) PROVE IndexInv'
  <2> DEFINE n == Len(messages) + 1
  <2>1. /\ UNCHANGED <<toolIndex, nextIndex, log>> /\ cur'.frags = Deliver(k, n).frags
        /\ Len(messages') = n /\ DOMAIN messages' = 1 .. n
    BY <1>2, StartsAnswerStep
  <2>2. n \in Nat /\ DOMAIN messages \subseteq DOMAIN messages'
    BY <1>1, <2>1
  <2>3. FromPieces'
    BY <2>1, <2>2, ChunkFromPieces
  <2> QED
    BY <2>1, <2>2, <2>3, IndexQuiet
<1>3. ASSUME NEW k \in Chunks, GoesOn(k) PROVE IndexInv'
  <2> DEFINE n == Len(messages)
  <2>1. /\ UNCHANGED <<toolIndex, nextIndex, log>> /\ cur'.frags = Deliver(k, n).frags
        /\ Len(messages') = n /\ DOMAIN messages' = 1 .. n
    BY <1>3, GoesOnStep
  <2>2. n \in Nat /\ DOMAIN messages \subseteq DOMAIN messages'
    BY <1>1, <2>1
  <2>3. FromPieces'
    BY <2>1, <2>2, ChunkFromPieces
  <2> QED
    BY <2>1, <2>2, <2>3, IndexQuiet
<1>4. CASE ToolsAnswer \/ \E thinks \in BOOLEAN : Answers(thinks)
  <2>1. /\ UNCHANGED <<toolIndex, nextIndex, log, cur>> /\ Spent
        /\ DOMAIN messages' = 1 .. Len(messages') /\ Len(messages') \in Nat
        /\ Len(messages) < Len(messages')
    BY <1>4, SkippedStep
  <2>2. DOMAIN messages \subseteq DOMAIN messages'
    BY <1>1, <2>1
  <2>3. DOMAIN cur'.frags = {}
    <3>1. cur'.frags = <<>>
      BY <2>1 DEF Spent
    <3> QED
      BY <3>1
  <2>4. FromPieces'
    BY <2>3 DEF FromPieces
  <2> QED
    BY <2>1, <2>2, <2>4, IndexQuiet
<1>5. CASE Role \/ EmitText \/ Finish \/ Done
  <2>1. /\ UNCHANGED <<toolIndex, nextIndex, messages>>
        /\ cur' = cur \/ cur' = [cur EXCEPT !.text = 0]
    BY <1>5 DEF Role, EmitText, Finish, Done, run
  <2>2. cur'.frags = cur.frags
    BY <2>1 DEF TypeOK
  <2>3. \E e : Yield(e) /\ e.type # "call"
    BY <1>5 DEF Role, EmitText, Finish, Done, Delta
  <2>4. FromPieces'
    BY <1>1, <2>1, <2>2 DEF FromPieces
  <2> QED
    BY <2>1, <2>3, <2>4, IndexQuiet
<1>6. CASE GraphRaises \/ Disconnect \/ UNCHANGED vars
  <2>1. UNCHANGED <<toolIndex, nextIndex, messages, cur, log>>
    BY <1>6 DEF GraphRaises, Disconnect, vars, run
  <2>2. FromPieces'
    BY <1>1, <2>1 DEF FromPieces
  <2> QED
    BY <2>1, <2>2, IndexQuiet
<1> QED
  BY <1>2, <1>3, <1>4, <1>5, <1>6, IndexCall DEF Next, Emit

\* CallsApart: for a provider that can be followed, two deltas have the same index
\* exactly when they are of the same call, as long as it numbers all the calls of the
\* message or none of the whole run.
THEOREM ChatCallsApart == ASSUME Coherent PROVE Spec => []CallsApart
<1>1. TypeOK /\ IndexInv => CallsApart
  <2> SUFFICES ASSUME TypeOK, IndexInv, NEW i \in CallEvents, NEW j \in CallEvents,
                      \/ /\ log[i].of.message = log[j].of.message
                         /\ Numbered({log[i].of.message}) # BOOLEAN
                      \/ Numbered(DOMAIN messages) = {FALSE}
               PROVE  log[i].idx = log[j].idx <=> log[i].of = log[j].of
    BY DEF CallsApart, CallEvents
  <2>1. CallTold(i) /\ CallTold(j) /\ KeysApart /\ NewIndex
    BY DEF IndexInv
  <2>2. DOMAIN log \subseteq Nat \ {0}
    <3>1. log \in Seq(Reply)
      BY DEF TypeOK
    <3> QED
      BY <3>1
  <2>3. /\ log[i].of.indexed \in BOOLEAN /\ log[j].of.indexed \in BOOLEAN
        /\ log[i].of.message \in DOMAIN messages /\ log[j].of.message \in DOMAIN messages
    BY <2>1 DEF CallTold
  <2>4. \A m : /\ log[i].of.message \in m => log[i].of.indexed \in Numbered(m)
               /\ log[j].of.message \in m => log[j].of.indexed \in Numbered(m)
    BY DEF Numbered, CallEvents
  <2>5. CASE /\ log[i].of.message = log[j].of.message
             /\ Numbered({log[i].of.message}) # BOOLEAN
    <3>1. \A m : Numbered(m) \subseteq BOOLEAN
      BY DEF IndexInv, CallTold, Numbered, CallEvents
    <3>2. log[i].of.indexed = log[j].of.indexed
      BY <2>3, <2>4, <2>5, <3>1
    <3> QED
      BY <2>1, <2>2, <2>5, <3>2, ToldApart
  <2>6. CASE Numbered(DOMAIN messages) = {FALSE}
    <3>1. ~log[i].of.indexed /\ ~log[j].of.indexed
      BY <2>3, <2>4, <2>6
    <3> QED
      BY <2>1, <2>2, <2>3, <3>1, ToldApart
  <2> QED
    BY <2>5, <2>6
<1>2. Init => TypeOK /\ IndexInv
  BY InitType, IndexInit
<1>3. TypeOK /\ IndexInv /\ [Next]_vars => TypeOK' /\ IndexInv'
  BY TypeStep, IndexStep
<1> QED
  BY <1>1, <1>2, <1>3, PTL DEF Spec

-----------------------------------------------------------------------------
(* Items.  Every item of a list comes from one place in one message, and   *)
(* no two from the same place.                                             *)

ItemId == ({"msg", "rs", "fco"} \X Nat) \cup ({"fc"} \X Nat \X (CallId \cup {None}))
ChatItem ==
  {x \in [type : {"reasoning", "function_call", "message", "function_call_output"}, id : ItemId,
          role : {"user", "assistant", None}, call : CallId \cup {None},
          body : Seq(Nat) \cup [object : Seq(Nat)]] : Content(x) \in Seq(Nat)}

LEMMA ThoughtsType == ASSUME NEW m \in ChatMessage PROVE Thoughts(m) \in Seq(Seq(Nat))
  BY ThoughtsAre DEF ChatMessage

LEMMA ItemType ==
  ASSUME NEW t \in {"reasoning", "message", "function_call_output"},
         NEW id \in ItemId, NEW role \in {"user", "assistant", None},
         NEW call \in CallId \cup {None}, NEW body \in Seq(Nat)
  PROVE  /\ Item(t, id, role, call, body) \in ChatItem
         /\ Item(t, id, role, call, body).type = t /\ Item(t, id, role, call, body).id = id
         /\ Item(t, id, role, call, body).call = call
<1>1. PICK x : x = Item(t, id, role, call, body)
  OBVIOUS
<1>2. /\ x.type = t /\ x.id = id /\ x.call = call /\ x.body = body
      /\ x = [type |-> t, id |-> id, role |-> role, call |-> call, body |-> body]
  BY <1>1 DEF Item
<1>3. Content(x) = body
  BY <1>2 DEF Content
<1> QED
  BY <1>1, <1>2, <1>3 DEF ChatItem

LEMMA CallItemType ==
  ASSUME NEW m \in ChatMessage, NEW call \in Call
  PROVE  LET x == CallItem(m, call)
         IN /\ x \in ChatItem /\ x.type = "function_call" /\ x.call = call.id
            /\ x.id = <<"fc", m.id, call.id>> /\ Content(x) = call.args
<1>1. PICK x : x = CallItem(m, call)
  OBVIOUS
<1>2. m.id \in Nat /\ call.id \in CallId \cup {None} /\ call.args \in Seq(Nat)
  BY DEF ChatMessage, Call
<1>3. PICK id, body : id = FunctionCallId(m, call.id) /\ body = Object(call.args)
  OBVIOUS
<1>4. id = <<"fc", m.id, call.id>> /\ id \in ItemId
  BY <1>2, <1>3 DEF FunctionCallId, ItemId
<1>5. body \in [object : Seq(Nat)] /\ body.object = call.args
  BY <1>2, <1>3 DEF Object
<1>6. /\ x = [type |-> "function_call", id |-> id, role |-> None, call |-> call.id, body |-> body]
      /\ x.type = "function_call" /\ x.call = call.id /\ x.id = id /\ x.body = body
  BY <1>1, <1>3 DEF CallItem, Item
<1>7. Content(x) = call.args
  BY <1>5, <1>6 DEF Content
<1>8. x \in ChatItem
  BY <1>2, <1>4, <1>5, <1>6, <1>7 DEF ChatItem
<1> QED
  BY <1>1, <1>4, <1>6, <1>7, <1>8

\* Each part of a message's items is a sequence, and of whom its items are.
LEMMA ReasoningItemsType ==
  ASSUME NEW m \in ChatMessage
  PROVE  /\ ReasoningItems(m) \in Seq(ChatItem)
         /\ \A a \in DOMAIN ReasoningItems(m) :
              ReasoningItems(m)[a].type = "reasoning" /\ ReasoningItems(m)[a].id = <<"rs", m.id>>
<1>1. Thoughts(m) \in Seq(Seq(Nat)) /\ m.id \in Nat
  BY ThoughtsType DEF ChatMessage
<1>2. PICK s : s = Thoughts(m)
  OBVIOUS
<1>3. s \in Seq(Seq(Nat)) /\ Len(s) \in Nat /\ DOMAIN s = 1 .. Len(s) /\ \A a \in DOMAIN s : s[a] \in Seq(Nat)
  BY <1>1, <1>2
<1> DEFINE item(a) == Item("reasoning", ReasoningId(m), None, None, s[a])
<1>4. ReasoningItems(m) = [a \in 1 .. Len(s) |-> item(a)]
  BY <1>2, <1>3 DEF ReasoningItems
<1>5. ReasoningId(m) \in ItemId /\ ReasoningId(m) = <<"rs", m.id>>
  BY <1>1 DEF ReasoningId, ItemId
<1>6. ASSUME NEW a \in 1 .. Len(s)
      PROVE  item(a) \in ChatItem /\ item(a).type = "reasoning" /\ item(a).id = <<"rs", m.id>>
  <2>1. PICK id, body : id = ReasoningId(m) /\ body = s[a]
    OBVIOUS
  <2>2. id \in ItemId /\ body \in Seq(Nat)
    BY <1>3, <1>5, <2>1
  <2>3. Item("reasoning", id, None, None, body) \in ChatItem
        /\ Item("reasoning", id, None, None, body).type = "reasoning"
        /\ Item("reasoning", id, None, None, body).id = id
    BY <2>2, ItemType
  <2> QED
    BY <1>5, <2>1, <2>3
<1> HIDE DEF item
<1>7. ReasoningItems(m) \in [1 .. Len(s) -> ChatItem]
  BY <1>4, <1>6
<1> QED
  BY <1>3, <1>4, <1>6, <1>7

LEMMA CallItemsType ==
  ASSUME NEW m \in ChatMessage
  PROVE  /\ CallItems(m) \in Seq(ChatItem) /\ DOMAIN CallItems(m) = DOMAIN ToolCalls(m)
         /\ \A a \in DOMAIN CallItems(m) :
              /\ CallItems(m)[a].type = "function_call" /\ CallItems(m)[a].call = ToolCalls(m)[a].id
              /\ CallItems(m)[a].id = <<"fc", m.id, ToolCalls(m)[a].id>>
              /\ Content(CallItems(m)[a]) = ToolCalls(m)[a].args
<1>1. ToolCalls(m) \in Seq(Call)
  <2>1. m.calls \in Seq(Call)
    BY DEF ChatMessage
  <2> QED
    BY <2>1, ToolCallsAre
<1>2. PICK s : s = ToolCalls(m)
  OBVIOUS
<1>3. s \in Seq(Call) /\ Len(s) \in Nat /\ DOMAIN s = 1 .. Len(s) /\ \A a \in DOMAIN s : s[a] \in Call
  BY <1>1, <1>2
<1> DEFINE item(a) == CallItem(m, s[a])
<1>4. CallItems(m) = [a \in 1 .. Len(s) |-> item(a)]
  BY <1>2, <1>3 DEF CallItems
<1>5. ASSUME NEW a \in 1 .. Len(s)
      PROVE  /\ item(a) \in ChatItem /\ item(a).type = "function_call" /\ item(a).call = s[a].id
             /\ item(a).id = <<"fc", m.id, s[a].id>> /\ Content(item(a)) = s[a].args
  <2>1. PICK call : call = s[a] /\ call \in Call
    BY <1>3
  <2> QED
    BY <2>1, CallItemType
<1> HIDE DEF item
<1>6. CallItems(m) \in [1 .. Len(s) -> ChatItem]
  BY <1>4, <1>5
<1> QED
  BY <1>2, <1>3, <1>4, <1>5, <1>6

LEMMA TextItemsType ==
  ASSUME NEW m \in ChatMessage
  PROVE  /\ TextItems(m) \in Seq(ChatItem) /\ Len(TextItems(m)) <= 1
         /\ \A a \in DOMAIN TextItems(m) :
              TextItems(m)[a].type = "message" /\ TextItems(m)[a].id = <<"msg", m.id>>
<1>1. m.text \in Seq(Nat) /\ m.id \in Nat
  BY DEF ChatMessage
<1>2. MessageId(m) \in ItemId /\ MessageId(m) = <<"msg", m.id>>
  BY <1>1 DEF MessageId, ItemId
<1>3. PICK x : x = Item("message", MessageId(m), "assistant", None, m.text)
  OBVIOUS
<1>4. x \in ChatItem /\ x.type = "message" /\ x.id = <<"msg", m.id>>
  <2>1. PICK id, body : id = MessageId(m) /\ body = m.text
    OBVIOUS
  <2>2. id \in ItemId /\ body \in Seq(Nat)
    BY <1>1, <1>2, <2>1
  <2>3. Item("message", id, "assistant", None, body) \in ChatItem
        /\ Item("message", id, "assistant", None, body).type = "message"
        /\ Item("message", id, "assistant", None, body).id = id
    BY <2>2, ItemType
  <2> QED
    BY <1>2, <1>3, <2>1, <2>3
<1>5. TextItems(m) = <<x>> \/ TextItems(m) = <<>>
  BY <1>3 DEF TextItems
<1>6. CASE TextItems(m) = <<>>
  BY <1>6
<1>7. CASE TextItems(m) = <<x>>
  <2>1. <<x>> \in Seq(ChatItem) /\ Len(<<x>>) = 1 /\ DOMAIN <<x>> = {1} /\ <<x>>[1] = x
    BY <1>4
  <2> QED
    BY <1>4, <1>7, <2>1
<1> QED
  BY <1>5, <1>6, <1>7

\* The items of a message: of one that is not the assistant's there is one; else those
\* with the same id are its reasoning, or calls with the same id.
LEMMA ItemsOfType ==
  ASSUME NEW m \in ChatMessage
  PROVE  /\ ItemsOf(m) \in Seq(ChatItem)
         /\ \A a \in DOMAIN ItemsOf(m) : ItemsOf(m)[a].id[2] = m.id
         /\ \A a, b \in DOMAIN ItemsOf(m) :
              (a # b /\ ItemsOf(m)[a].id = ItemsOf(m)[b].id) =>
                /\ ItemsOf(m)[a].type = ItemsOf(m)[b].type
                /\ \/ ItemsOf(m)[a].type = "reasoning"
                   \/ /\ ItemsOf(m)[a].type = "function_call"
                      /\ \E c, d \in DOMAIN m.calls :
                           /\ c # d /\ m.calls[c].id = m.calls[d].id
                           /\ ItemsOf(m)[a].call = m.calls[c].id
<1>1. m.role \in {"user", "assistant", "tool"} /\ m.id \in Nat /\ m.text \in Seq(Nat)
      /\ m.answers \in CallId \cup {None}
  BY DEF ChatMessage
<1>2. CASE m.role = "assistant"
  <2>1. PICK r, c, t : r = ReasoningItems(m) /\ c = CallItems(m) /\ t = TextItems(m)
    OBVIOUS
  <2>2. /\ r \in Seq(ChatItem) /\ c \in Seq(ChatItem) /\ t \in Seq(ChatItem)
        /\ \A a \in DOMAIN r : r[a].type = "reasoning" /\ r[a].id = <<"rs", m.id>>
        /\ DOMAIN c = DOMAIN ToolCalls(m)
        /\ \A a \in DOMAIN c : /\ c[a].type = "function_call" /\ c[a].call = ToolCalls(m)[a].id
                               /\ c[a].id = <<"fc", m.id, ToolCalls(m)[a].id>>
        /\ Len(t) <= 1 /\ \A a \in DOMAIN t : t[a].type = "message" /\ t[a].id = <<"msg", m.id>>
    BY <2>1, ReasoningItemsType, CallItemsType, TextItemsType
  <2>3. PICK s : s = ItemsOf(m)
    OBVIOUS
  <2>4. s = r \o c \o t
    BY <1>2, <2>1, <2>3 DEF ItemsOf, AiItems
  <2>5. PICK x, y, z : x = Len(r) /\ y = Len(c) /\ z = Len(t)
    OBVIOUS
  <2>6. /\ x \in Nat /\ y \in Nat /\ z \in 0 .. 1 /\ s \in Seq(ChatItem)
        /\ DOMAIN r = 1 .. x /\ DOMAIN c = 1 .. y /\ DOMAIN t = 1 .. z /\ DOMAIN s = 1 .. (x + y + z)
        /\ \A a \in 1 .. x : s[a] = r[a]
        /\ \A a \in 1 .. y : s[x + a] = c[a]
        /\ \A a \in 1 .. z : s[x + y + a] = t[a]
    BY <2>2, <2>4, <2>5
  <2>7. ASSUME NEW a \in DOMAIN s
        PROVE  \/ a <= x /\ s[a].type = "reasoning" /\ s[a].id = <<"rs", m.id>>
               \/ /\ a > x /\ a <= x + y /\ a - x \in DOMAIN ToolCalls(m)
                  /\ s[a].type = "function_call" /\ s[a].call = ToolCalls(m)[a - x].id
                  /\ s[a].id = <<"fc", m.id, ToolCalls(m)[a - x].id>>
               \/ a = x + y + 1 /\ s[a].type = "message" /\ s[a].id = <<"msg", m.id>>
    <3>0. a \in Nat /\ a >= 1 /\ a <= x + y + z
      BY <2>6
    <3>1. CASE a <= x
      BY <2>2, <2>6, <3>0, <3>1
    <3>2. CASE a > x /\ a <= x + y
      <4>1. a - x \in 1 .. y /\ x + (a - x) = a
        BY <2>6, <3>0, <3>2
      <4>2. s[a] = c[a - x] /\ a - x \in DOMAIN c
        BY <2>6, <4>1
      <4> QED
        BY <2>2, <3>2, <4>2
    <3>3. CASE a > x + y
      <4>1. a = x + y + 1 /\ 1 \in 1 .. z
        BY <2>6, <3>0, <3>3
      <4>2. s[a] = t[1] /\ 1 \in DOMAIN t
        BY <2>6, <4>1
      <4> QED
        BY <2>2, <4>1, <4>2
    <3> QED
      BY <2>6, <3>0, <3>1, <3>2, <3>3
  <2>8. \A a \in DOMAIN s : s[a].id[2] = m.id
    BY <2>7
  <2>9. ASSUME NEW a \in DOMAIN s, NEW b \in DOMAIN s, a # b, s[a].id = s[b].id
        PROVE  /\ s[a].type = s[b].type
               /\ \/ s[a].type = "reasoning"
                  \/ /\ s[a].type = "function_call"
                     /\ \E u, v \in DOMAIN m.calls :
                          /\ u # v /\ m.calls[u].id = m.calls[v].id
                          /\ s[a].call = m.calls[u].id
    <3>1. CASE s[a].type = "reasoning"
      <4>1. s[a].id[1] = "rs"
        BY <2>7, <3>1
      <4> QED
        BY <2>7, <2>9, <3>1, <4>1
    <3>2. CASE s[a].type = "message"
      <4>1. s[a].id[1] = "msg" /\ a = x + y + 1
        BY <2>7, <3>2
      <4>2. b = x + y + 1
        BY <2>7, <2>9, <4>1
      <4> QED
        BY <2>9, <4>1, <4>2
    <3>3. CASE s[a].type = "function_call"
      <4>1. /\ s[a].id[1] = "fc" /\ s[a].id[3] = ToolCalls(m)[a - x].id
            /\ a - x \in DOMAIN ToolCalls(m) /\ s[a].call = ToolCalls(m)[a - x].id
        BY <2>7, <3>3
      <4>2. /\ s[b].type = "function_call" /\ b - x \in DOMAIN ToolCalls(m)
            /\ s[b].id[3] = ToolCalls(m)[b - x].id
        BY <2>7, <2>9, <4>1
      <4>3. a - x # b - x
        BY <2>6, <2>9
      <4>4. PICK u, v \in DOMAIN m.calls : /\ u # v /\ ToolCalls(m)[a - x] = m.calls[u]
                                          /\ ToolCalls(m)[b - x] = m.calls[v]
        <5>1. m.calls \in Seq(Call)
          BY DEF ChatMessage
        <5>2. \A i, j \in DOMAIN ToolCalls(m) : i # j =>
                \E n, k \in DOMAIN m.calls : /\ n # k /\ ToolCalls(m)[i] = m.calls[n]
                                             /\ ToolCalls(m)[j] = m.calls[k]
          BY <5>1, ToolCallsAre
        <5>3. PICK i, j : i = a - x /\ j = b - x
          OBVIOUS
        <5> QED
          BY <4>1, <4>2, <4>3, <5>2, <5>3
      <4> QED
        BY <2>9, <3>3, <4>1, <4>2, <4>4
    <3> QED
      BY <2>7, <3>1, <3>2, <3>3
  <2> QED
    BY <2>3, <2>6, <2>8, <2>9
<1>3. ASSUME NEW x \in ChatItem, ItemsOf(m) = <<x>>, x.id[2] = m.id
      PROVE  /\ ItemsOf(m) \in Seq(ChatItem)
             /\ \A a \in DOMAIN ItemsOf(m) : a = 1 /\ ItemsOf(m)[a].id[2] = m.id
  BY <1>3
<1>4. CASE m.role = "user"
  <2>1. PICK x : x = Item("message", MessageId(m), m.role, None, m.text)
    OBVIOUS
  <2>2. MessageId(m) \in ItemId /\ MessageId(m)[2] = m.id
    BY <1>1 DEF MessageId, ItemId
  <2>3. x \in ChatItem /\ x.id[2] = m.id
    <3>1. PICK id, body : id = MessageId(m) /\ body = m.text
      OBVIOUS
    <3>2. id \in ItemId /\ body \in Seq(Nat)
      BY <1>1, <2>2, <3>1
    <3>3. Item("message", id, "user", None, body) \in ChatItem
          /\ Item("message", id, "user", None, body).id = id
      BY <3>2, ItemType, SMTT(30)
    <3>4. id[2] = m.id
      BY <2>2, <3>1
    <3> QED
      BY <1>4, <2>1, <3>1, <3>3, <3>4
  <2>4. ItemsOf(m) = <<x>>
    BY <1>4, <2>1 DEF ItemsOf
  <2> QED
    BY <1>3, <2>3, <2>4
<1>5. CASE m.role = "tool"
  <2>1. PICK x : x = Item("function_call_output", OutputId(m), None, m.answers, m.text)
    OBVIOUS
  <2>2. OutputId(m) \in ItemId /\ OutputId(m)[2] = m.id
    BY <1>1 DEF OutputId, ItemId
  <2>3. x \in ChatItem /\ x.id[2] = m.id
    <3>1. PICK id, call, body : id = OutputId(m) /\ call = m.answers /\ body = m.text
      OBVIOUS
    <3>2. id \in ItemId /\ call \in CallId \cup {None} /\ body \in Seq(Nat) /\ id[2] = m.id
      BY <1>1, <2>2, <3>1
    <3>3. Item("function_call_output", id, None, call, body) \in ChatItem
          /\ Item("function_call_output", id, None, call, body).id = id
      BY <3>2, ItemType
    <3> QED
      BY <2>1, <3>1, <3>2, <3>3
  <2>4. ItemsOf(m) = <<x>>
    BY <1>5, <2>1 DEF ItemsOf
  <2> QED
    BY <1>3, <2>3, <2>4
<1> QED
  BY <1>1, <1>2, <1>4, <1>5

\* The items of the conversation.
LEMMA ItemListType ==
  ASSUME TypeOK
  PROVE  /\ ItemList(messages) \in Seq(ChatItem)
         /\ \E p : ComesFrom(p, ItemList(messages), [n \in DOMAIN messages |-> ItemsOf(messages[n])])
<1>1. messages \in Seq(ChatMessage) /\ DOMAIN messages = 1 .. Len(messages) /\ Len(messages) \in Nat
  BY LatestType DEF TypeOK
<1>2. \A n \in DOMAIN messages : ItemsOf(messages[n]) \in Seq(ChatItem)
  BY <1>1, ItemsOfType
<1> DEFINE ss == [n \in DOMAIN messages |-> ItemsOf(messages[n])]
<1>3. ss \in [1 .. Len(messages) -> Seq(ChatItem)]
  BY <1>1, <1>2
<1>4. ss \in Seq(Seq(ChatItem))
  BY <1>1, <1>3
<1>5. ItemList(messages) = Concat(ss)
  BY DEF ItemList
<1> HIDE DEF ss
<1>6. Concat(ss) \in Seq(ChatItem) /\ \E p : ComesFrom(p, Concat(ss), ss)
  BY <1>4, ConcatPlaces
<1> QED
  BY <1>5, <1>6 DEF ss

\* PageHonest: whatever the limit, a page that does not say there is more has all the
\* items of the conversation, however long it is.
THEOREM PagesAreHonest == Spec => []PageHonest
<1>1. TypeOK => PageHonest
  <2> SUFFICES ASSUME TypeOK, NEW limit \in 0 .. (Len(ItemList(messages)) + 1),
                      ~Page(ItemList(messages), limit).more
               PROVE  Page(ItemList(messages), limit).data = ItemList(messages)
    BY DEF PageHonest
  <2>1. PICK s : s = ItemList(messages)
    OBVIOUS
  <2>2. s \in Seq(ChatItem) /\ limit \in 0 .. (Len(s) + 1) /\ Len(s) \in Nat
    BY <2>1, ItemListType
  <2>3. /\ Page(s, limit).data = Slice(s, limit)
        /\ Page(s, limit).more = (Len(Slice(s, limit)) = limit)
    BY DEF Page, HasMore
  <2>4. Slice(s, limit) = SubSeq(s, 1, IF limit < Len(s) THEN limit ELSE Len(s))
    BY <2>2 DEF Slice
  <2>5. CASE limit <= Len(s)
    <3>1. Slice(s, limit) = SubSeq(s, 1, limit)
      BY <2>2, <2>4, <2>5
    <3>2. Len(Slice(s, limit)) = limit
      BY <2>2, <2>5, <3>1
    <3> QED
      BY <2>1, <2>3, <3>2
  <2>6. CASE limit > Len(s)
    <3>1. Slice(s, limit) = SubSeq(s, 1, Len(s))
      BY <2>2, <2>4, <2>6
    <3>2. Slice(s, limit) = s
      BY <2>2, <3>1
    <3> QED
      BY <2>1, <2>3, <3>2
  <2> QED
    BY <2>2, <2>5, <2>6
<1> QED
  BY <1>1, InitType, TypeStep, PTL DEF Spec

\* A call or a fragment of message n has its id and its index from the pieces of its
\* upstream call.
Stems(c, n) ==
  /\ c.id # None => \E g \in Pieces : g.id # None /\ c.id = <<n, g.id>> /\ c.origin = g.origin
  /\ c.index # None => \E g \in Pieces : g.index = c.index /\ c.origin = g.origin
AllStem(calls, n) == \A a \in DOMAIN calls : Stems(calls[a], n)

\* Each message has its place as its id.
Named == \A n \in DOMAIN messages : messages[n].id = n /\ AllStem(messages[n].calls, n)

LEMMA AddFragmentNamed ==
  ASSUME Coherent, NEW n, NEW calls \in Seq(Call), AllStem(calls, n),
         NEW f \in CallFrag, Stems(f, n), NEW first
  PROVE  AllStem(AddFragment(calls, f, first), n)
<1>1. PICK grown : grown = AddFragment(calls, f, first)
  OBVIOUS
<1>2. ASSUME NEW m \in DOMAIN calls, Joins(calls[m], f), grown = [calls EXCEPT ![m] = Taken(calls, f, m)]
      PROVE  AllStem(grown, n)
  <2>1. PICK c, t : c = calls[m] /\ t = Taken(calls, f, m)
    OBVIOUS
  <2>2. c \in Call /\ Stems(c, n) /\ c.index = f.index /\ f.index # None
    BY <1>2, <2>1 DEF AllStem, Joins
  <2>3. t.origin = c.origin /\ t.index = c.index /\ (t.id = c.id \/ t.id = f.id)
    BY <2>1, <2>2 DEF Taken, Merged, IdOf, Call
  <2>4. c.origin = f.origin
    <3>1. PICK g \in Pieces : g.index = c.index /\ c.origin = g.origin
      BY <2>2 DEF Stems
    <3>2. PICK h \in Pieces : h.index = f.index /\ f.origin = h.origin
      BY <2>2 DEF Stems
    <3> QED
      BY <2>2, <3>1, <3>2 DEF Coherent, Followable
  <2>5. Stems(t, n)
    BY <2>2, <2>3, <2>4 DEF Stems
  <2>6. grown = [calls EXCEPT ![m] = t]
    BY <1>2, <2>1
  <2> QED
    BY <2>5, <2>6 DEF AllStem
<1>3. ASSUME grown = Append(calls, NewCall(calls, f)) PROVE AllStem(grown, n)
  <2>1. PICK new : new = NewCall(calls, f)
    OBVIOUS
  <2>2. new.origin = f.origin /\ new.index = f.index /\ new.id = f.id
    BY <2>1 DEF NewCall
  <2>3. Stems(new, n)
    BY <2>2 DEF Stems
  <2>4. /\ DOMAIN grown = DOMAIN calls \cup {Len(calls) + 1} /\ grown[Len(calls) + 1] = new
        /\ \A m \in DOMAIN calls : grown[m] = calls[m]
    BY <1>3, <2>1
  <2> QED
    BY <2>3, <2>4 DEF AllStem
<1> QED
  BY <1>1, <1>2, <1>3, FragmentAdded

LEMMA AddFragmentsNamed ==
  ASSUME Coherent, NEW at, NEW calls \in Seq(Call), AllStem(calls, at),
         NEW frags \in Seq(CallFrag), AllStem(frags, at), NEW first
  PROVE  AllStem(AddFragments(calls, frags, first), at)
<1>1. Len(frags) \in Nat /\ DOMAIN frags = 1 .. Len(frags)
      /\ \A i \in 1 .. Len(frags) : frags[i] \in CallFrag
  OBVIOUS
<1>2. PICK f : AddsUp(f, calls, frags, first)
  BY <1>1, AddFragmentsSteps
<1> DEFINE T == {k \in 0 .. Len(frags) : f[k] \in Seq(Call) /\ AllStem(f[k], at)}
<1>3. 0 \in T
  BY <1>1, <1>2 DEF AddsUp
<1>4. ASSUME NEW k \in 0 .. (Len(frags) - 1), k \in T PROVE k + 1 \in T
  <2>1. k + 1 \in 1 .. Len(frags) /\ f[k + 1] = AddFragment(f[k], frags[k + 1], first)
    BY <1>1, <1>2 DEF AddsUp
  <2>2. PICK g, h : g = frags[k + 1] /\ h = f[k]
    OBVIOUS
  <2>3. h \in Seq(Call) /\ AllStem(h, at) /\ g \in CallFrag /\ Stems(g, at)
    BY <1>1, <1>4, <2>1, <2>2 DEF AllStem
  <2>4. AddFragment(h, g, first) \in Seq(Call) /\ AllStem(AddFragment(h, g, first), at)
    BY <2>3, AddFragmentType, AddFragmentNamed
  <2> QED
    BY <1>1, <2>1, <2>2, <2>4
<1> HIDE DEF T
<1>5. Len(frags) \in T
  BY <1>1, <1>3, <1>4, UpTo
<1> QED
  BY <1>2, <1>5 DEF T, AddsUp

\* The calls of a message that a chunk is added to.
LEMMA DeliverNamed ==
  ASSUME Coherent, TypeOK, NEW k \in Chunks, NEW n \in Nat, NEW calls \in Seq(Call),
         AllStem(calls, n), NEW first
  PROVE  AllStem(AddFragments(calls, Deliver(k, n).frags, first), n)
<1>1. PICK frags : frags = Deliver(k, n).frags
  OBVIOUS
<1>2. /\ frags \in Seq(CallFrag)
      /\ \A j \in DOMAIN frags :
           /\ j \in DOMAIN k.frags /\ frags[j].origin = k.frags[j].origin
           /\ frags[j].index = k.frags[j].index
           /\ frags[j].id = IF k.frags[j].id = None THEN None ELSE <<n, k.frags[j].id>>
  BY <1>1, DeliverType, ZenonT(60) DEF TypeOK
<1>3. \A j \in DOMAIN k.frags : k.frags[j] \in Pieces
  BY DEF Pieces
<1>4. \A j \in DOMAIN frags : frags[j].id # None =>
        \E g \in Pieces : g.id # None /\ frags[j].id = <<n, g.id>> /\ frags[j].origin = g.origin
  BY <1>2, <1>3
<1>5. \A j \in DOMAIN frags : \E g \in Pieces : g.index = frags[j].index /\ frags[j].origin = g.origin
  BY <1>2, <1>3
<1>6. AllStem(frags, n)
  BY <1>4, <1>5 DEF AllStem, Stems
<1> QED
  BY <1>1, <1>2, <1>6, AddFragmentsNamed

LEMMA NamedInit == Init => Named
<1> SUFFICES ASSUME Init PROVE Named
  OBVIOUS
<1>1. PICK m : m = Message(1, "user", <<1>>)
  OBVIOUS
<1>2. m.id = 1 /\ m.calls = <<>> /\ messages = <<m>>
  BY <1>1 DEF Init, Message
<1>3. DOMAIN messages = {1} /\ messages[1] = m
  BY <1>2
<1>4. AllStem(<<>>, 1)
  BY DEF AllStem
<1> QED
  BY <1>2, <1>3, <1>4 DEF Named

LEMMA NamedStep == Coherent /\ TypeOK /\ Named /\ [Next]_vars => Named'
<1> SUFFICES ASSUME Coherent, TypeOK, Named, [Next]_vars PROVE Named'
  OBVIOUS
<1>1. /\ Len(messages) \in Nat \ {0} /\ DOMAIN messages = 1 .. Len(messages)
      /\ Latest = messages[Len(messages)] /\ Latest.calls \in Seq(Call)
  BY LatestType
<1>2. \A n : AllStem(<<>>, n)
  BY DEF AllStem
<1>3. ASSUME NEW k \in Chunks, StartsAnswer(k) PROVE Named'
  <2>1. PICK n, m, first : n = Len(messages) + 1 /\ m = messages'[n] /\ first = TRUE
    OBVIOUS
  <2>2. /\ DOMAIN messages' = 1 .. n /\ \A i \in DOMAIN messages : messages'[i] = messages[i]
        /\ m.id = n /\ m.calls = AddFragments(<<>>, Deliver(k, n).frags, first)
    BY <1>3, <2>1, StartsAnswerStep
  <2>3. n \in Nat /\ <<>> \in Seq(Call)
    BY <1>1, <2>1
  <2>4. AllStem(m.calls, n)
    BY <1>2, <2>2, <2>3, DeliverNamed
  <2>5. \A i \in DOMAIN messages' : i = n \/ i \in DOMAIN messages
    BY <1>1, <2>1, <2>2
  <2> QED
    BY <2>1, <2>2, <2>4, <2>5 DEF Named
<1>4. ASSUME NEW k \in Chunks, GoesOn(k) PROVE Named'
  <2>1. PICK n, m, first : n = Len(messages) /\ m = messages'[n] /\ first = FALSE
    OBVIOUS
  <2>2. /\ DOMAIN messages' = 1 .. n /\ \A i \in DOMAIN messages \ {n} : messages'[i] = messages[i]
        /\ m.id = Latest.id /\ m.calls = AddFragments(Latest.calls, Deliver(k, n).frags, first)
    BY <1>4, <2>1, GoesOnStep
  <2>3. n \in Nat /\ n \in DOMAIN messages /\ Latest = messages[n] /\ DOMAIN messages' = DOMAIN messages
    BY <1>1, <2>1, <2>2
  <2>4. Latest.id = n /\ AllStem(Latest.calls, n)
    BY <2>3 DEF Named
  <2>5. AllStem(m.calls, n)
    BY <1>1, <2>2, <2>3, <2>4, DeliverNamed
  <2> QED
    BY <2>1, <2>2, <2>3, <2>4, <2>5 DEF Named
<1>5. CASE ToolsAnswer \/ \E thinks \in BOOLEAN : Answers(thinks)
  <2>1. /\ \A i \in DOMAIN messages : messages'[i] = messages[i]
        /\ \A i \in DOMAIN messages' \ DOMAIN messages :
             messages'[i].id = i /\ messages'[i].calls = <<>>
    BY <1>5, SkippedStep
  <2> QED
    BY <1>2, <2>1 DEF Named
<1>6. CASE messages' = messages
  BY <1>6 DEF Named
<1>7. ASSUME Role \/ EmitText \/ EmitCall \/ Finish \/ Done \/ GraphRaises \/ Disconnect \/ UNCHANGED vars
      PROVE  messages' = messages
  BY <1>7 DEF Role, EmitText, EmitCall, Finish, Done, GraphRaises, Disconnect, vars, run
<1> QED
  BY <1>3, <1>4, <1>5, <1>6, <1>7 DEF Next, Emit

\* ItemIdsUnique: no two items of a conversation have the same id, but for the
\* reasoning of one message, the calls to which a provider gave no id, and those that
\* LangChain keeps of one upstream call.
THEOREM ItemIdsAreUnique == ASSUME Coherent PROVE Spec => []ItemIdsUnique
<1>1. TypeOK /\ Named => ItemIdsUnique
  <2> SUFFICES ASSUME TypeOK, Named PROVE ItemIdsUnique
    OBVIOUS
  <2>1. PICK s, ss : s = ItemList(messages) /\ ss = [n \in DOMAIN messages |-> ItemsOf(messages[n])]
    OBVIOUS
  <2>2. PICK p : ComesFrom(p, s, ss)
    BY <2>1, ItemListType
  <2>3. \A n \in DOMAIN messages : messages[n] \in ChatMessage
    BY LatestType DEF TypeOK
  <2>4. DOMAIN ss = DOMAIN messages /\ \A n \in DOMAIN messages : ss[n] = ItemsOf(messages[n])
    BY <2>1
  <2> SUFFICES ASSUME NEW i \in DOMAIN s, NEW j \in DOMAIN s, i # j, s[i].id = s[j].id
               PROVE  /\ s[i].type = s[j].type
                      /\ \/ s[i].type = "reasoning"
                         \/ s[i].type = "function_call" /\ (s[i].call = None \/ Parted(s[i].call))
    BY <2>1 DEF ItemIdsUnique
  <2>5. PICK n, a, m, b : n = p[i][1] /\ a = p[i][2] /\ m = p[j][1] /\ b = p[j][2]
    OBVIOUS
  <2>6. /\ n \in DOMAIN messages /\ a \in DOMAIN ItemsOf(messages[n]) /\ s[i] = ItemsOf(messages[n])[a]
        /\ m \in DOMAIN messages /\ b \in DOMAIN ItemsOf(messages[m]) /\ s[j] = ItemsOf(messages[m])[b]
        /\ n # m \/ a # b
    BY <2>2, <2>4, <2>5 DEF ComesFrom
  <2>7. s[i].id[2] = n /\ s[j].id[2] = m
    BY <2>3, <2>6, ItemsOfType DEF Named
  <2>8. n = m /\ a # b
    BY <2>6, <2>7
  <2>9. /\ s[i].type = s[j].type
        /\ \/ s[i].type = "reasoning"
           \/ /\ s[i].type = "function_call"
              /\ \E c, d \in DOMAIN messages[n].calls :
                   /\ c # d /\ messages[n].calls[c].id = messages[n].calls[d].id
                   /\ s[i].call = messages[n].calls[c].id
    BY <2>3, <2>6, <2>8, ItemsOfType
  <2>10. ASSUME NEW c \in DOMAIN messages[n].calls, NEW d \in DOMAIN messages[n].calls, c # d,
                messages[n].calls[c].id = messages[n].calls[d].id, messages[n].calls[c].id # None
         PROVE  Parted(messages[n].calls[c].id)
    <3>1. PICK x, y : x = messages[n].calls[c] /\ y = messages[n].calls[d]
      OBVIOUS
    <3>2. PICK g \in Pieces : g.id # None /\ x.id = <<n, g.id>> /\ x.origin = g.origin
      BY <2>6, <2>10, <3>1 DEF Named, AllStem, Stems
    <3>3. PICK h \in Pieces : h.id # None /\ y.id = <<n, h.id>> /\ y.origin = h.origin
      BY <2>6, <2>10, <3>1 DEF Named, AllStem, Stems
    <3>4. g.id = h.id
      <4>1. x.id = y.id
        BY <2>10, <3>1
      <4>2. PICK v, w : v = g.id /\ w = h.id
        OBVIOUS
      <4>3. <<n, v>> = <<n, w>>
        BY <3>2, <3>3, <4>1, <4>2
      <4>4. v = w
        BY <4>3
      <4> QED
        BY <4>2, <4>4
    <3>5. g.origin = h.origin /\ g.origin # 0
      BY <3>2, <3>3, <3>4 DEF Coherent, Followable
    <3> QED
      BY <2>6, <2>10, <3>1, <3>2, <3>3, <3>5 DEF Parted
  <2> QED
    BY <2>9, <2>10
<1> QED
  BY <1>1, InitType, TypeStep, NamedInit, NamedStep, PTL DEF Spec


-----------------------------------------------------------------------------
(* Sequences put together.  With Flat the conversion of messages to items, *)
(* what is kept of them and what they say are the same thing done thrice.  *)

\* The functions that make sequences out of things, and what such a function makes of
\* the elements of s, one after the other.
Renders(X, S) == [X -> Seq(S)]
Flat(b, s) == Concat([i \in DOMAIN s |-> b[s[i]]])

LEMMA ConcatTokens ==
  ASSUME NEW S, NEW ss \in Seq(Seq(S))
  PROVE  Tokens(Concat(ss)) = UNION {Tokens(ss[n]) : n \in DOMAIN ss}
<1>1. PICK k : k = Len(ss)
  OBVIOUS
<1>2. k \in Nat /\ DOMAIN ss = 1 .. k /\ \A n \in 1 .. k : ss[n] \in Seq(S)
  BY <1>1
<1>3. PICK f : /\ f = [n \in 0 .. k |-> IF n = 0 THEN <<>> ELSE f[n - 1] \o ss[n]]
               /\ Concat(ss) = f[k]
  BY <1>1, <1>2, ConcatSteps
<1> DEFINE T == {n \in 0 .. k : /\ f[n] \in Seq(S)
                                /\ Tokens(f[n]) = UNION {Tokens(ss[i]) : i \in 1 .. n}}
<1>4. 0 \in T
  <2>1. f[0] = <<>> /\ <<>> \in Seq(S) /\ DOMAIN <<>> = {} /\ 1 .. 0 = {} /\ 0 \in 0 .. k
    BY <1>2, <1>3
  <2>2. Tokens(f[0]) = {}
    BY <2>1 DEF Tokens
  <2> QED
    BY <2>1, <2>2
<1>5. ASSUME NEW n \in 0 .. (k - 1), n \in T PROVE n + 1 \in T
  <2>1. /\ n + 1 \in 1 .. k /\ n + 1 \in 0 .. k /\ (n + 1) - 1 = n /\ n + 1 # 0
        /\ 1 .. (n + 1) = (1 .. n) \cup {n + 1}
    BY <1>2, SMTT(30)
  <2>2. /\ f[n + 1] = f[n] \o ss[n + 1] /\ f[n] \in Seq(S) /\ ss[n + 1] \in Seq(S)
        /\ Tokens(f[n]) = UNION {Tokens(ss[i]) : i \in 1 .. n}
    BY <1>2, <1>3, <1>5, <2>1
  <2>3. Tokens(f[n + 1]) = Tokens(f[n]) \cup Tokens(ss[n + 1]) /\ f[n + 1] \in Seq(S)
    <3>1. PICK u, v : u = f[n] /\ v = ss[n + 1]
      OBVIOUS
    <3>2. Tokens(u \o v) = Tokens(u) \cup Tokens(v) /\ u \o v \in Seq(S)
      BY <2>2, <3>1, TokensConcat
    <3> QED
      BY <2>2, <3>1, <3>2
  <2>4. UNION {Tokens(ss[i]) : i \in 1 .. (n + 1)}
          = (UNION {Tokens(ss[i]) : i \in 1 .. n}) \cup Tokens(ss[n + 1])
    BY <2>1
  <2> QED
    BY <2>1, <2>2, <2>3, <2>4
<1> HIDE DEF T
<1>6. k \in T
  BY <1>2, <1>4, <1>5, UpTo
<1> QED
  BY <1>2, <1>3, <1>6 DEF T

LEMMA FlatJoin ==
  ASSUME NEW X, NEW S, NEW b \in Renders(X, S), NEW s \in Seq(X), NEW t \in Seq(X)
  PROVE  Flat(b, s) \in Seq(S) /\ Flat(b, s \o t) = Flat(b, s) \o Flat(b, t)
<1>1. PICK k, l, u : k = Len(s) /\ l = Len(t) /\ u = s \o t
  OBVIOUS
<1>2. /\ k \in Nat /\ l \in Nat /\ DOMAIN s = 1 .. k /\ DOMAIN t = 1 .. l /\ DOMAIN u = 1 .. (k + l)
      /\ \A i \in 1 .. k : u[i] = s[i] /\ s[i] \in X
      /\ \A i \in 1 .. l : u[k + i] = t[i] /\ t[i] \in X
  BY <1>1
<1>3. PICK ss, tt, uu : /\ ss = [i \in 1 .. k |-> b[s[i]]] /\ tt = [i \in 1 .. l |-> b[t[i]]]
                        /\ uu = [i \in 1 .. (k + l) |-> b[u[i]]]
  OBVIOUS
<1>4. Flat(b, s) = Concat(ss) /\ Flat(b, t) = Concat(tt) /\ Flat(b, u) = Concat(uu)
  BY <1>2, <1>3 DEF Flat
<1>5. ss \in [1 .. k -> Seq(S)] /\ tt \in [1 .. l -> Seq(S)]
  BY <1>2, <1>3 DEF Renders
<1>6. ss \in Seq(Seq(S)) /\ tt \in Seq(Seq(S)) /\ Len(ss) = k /\ Len(tt) = l
  BY <1>2, <1>5
<1>7. uu = ss \o tt
  <2>1. PICK w : w = ss \o tt
    OBVIOUS
  <2>2. /\ w \in Seq(Seq(S)) /\ DOMAIN w = 1 .. (k + l)
        /\ \A i \in 1 .. k : w[i] = ss[i]
        /\ \A i \in 1 .. l : w[k + i] = tt[i]
    <3>1. PICK Q : Q = Seq(S)
      OBVIOUS
    <3>2. ss \in Seq(Q) /\ tt \in Seq(Q)
      BY <1>6, <3>1
    <3>3. /\ ss \o tt \in Seq(Q)
          /\ DOMAIN (ss \o tt) = 1 .. (Len(ss) + Len(tt))
          /\ \A i \in 1 .. Len(ss) : (ss \o tt)[i] = ss[i]
          /\ \A i \in 1 .. Len(tt) : (ss \o tt)[Len(ss) + i] = tt[i]
      BY <3>2, Joined
    <3> QED
      BY <1>6, <2>1, <3>1, <3>3
  <2>3. ASSUME NEW i \in 1 .. (k + l) PROVE w[i] = uu[i]
    <3>1. CASE i \in 1 .. k
      BY <1>2, <1>3, <2>2, <3>1
    <3>2. CASE i \notin 1 .. k
      <4>1. i - k \in 1 .. l /\ k + (i - k) = i
        BY <1>2, <3>2
      <4>2. w[i] = tt[i - k] /\ u[i] = t[i - k]
        BY <1>2, <2>2, <4>1
      <4> QED
        BY <1>3, <4>1, <4>2
    <3> QED
      BY <3>1, <3>2
  <2>4. DOMAIN uu = 1 .. (k + l) /\ uu = [i \in 1 .. (k + l) |-> uu[i]]
    BY <1>3
  <2>5. w = [i \in 1 .. (k + l) |-> w[i]]
    BY <2>2
  <2> QED
    BY <2>1, <2>3, <2>4, <2>5
<1>8. Concat(ss) \in Seq(S)
  BY <1>6, ConcatPlaces
<1>9. Concat(ss \o tt) = Concat(ss) \o Concat(tt)
  BY <1>6, ConcatJoin
<1> QED
  BY <1>1, <1>4, <1>7, <1>8, <1>9

LEMMA FlatShort ==
  ASSUME NEW X, NEW S, NEW b \in Renders(X, S)
  PROVE  Flat(b, <<>>) = <<>> /\ \A x \in X : Flat(b, <<x>>) = b[x]
<1>1. Flat(b, <<>>) = <<>>
  <2>1. [i \in DOMAIN <<>> |-> b[<<>>[i]]] = <<>>
    OBVIOUS
  <2>2. Concat(<<>>) = <<>>
    <3>1. <<>> \in Seq(S)
      OBVIOUS
    <3> QED
      BY <3>1, ConcatShort
  <2> QED
    BY <2>1, <2>2 DEF Flat
<1>2. ASSUME NEW x \in X PROVE Flat(b, <<x>>) = b[x]
  <2>1. PICK y : y = b[x]
    OBVIOUS
  <2>2. DOMAIN <<x>> = {1} /\ <<x>>[1] = x /\ y \in Seq(S)
    BY <2>1 DEF Renders
  <2>3. [i \in DOMAIN <<x>> |-> b[<<x>>[i]]] = <<y>>
    BY <2>1, <2>2
  <2>4. Concat(<<y>>) = y
    BY <2>2, ConcatShort
  <2> QED
    BY <2>1, <2>3, <2>4 DEF Flat
<1> QED
  BY <1>1, <1>2

LEMMA FlatConcat ==
  ASSUME NEW X, NEW S, NEW b \in Renders(X, S), NEW ss \in Seq(Seq(X))
  PROVE  Flat(b, Concat(ss)) = Concat([n \in DOMAIN ss |-> Flat(b, ss[n])])
<1>0. \A s, t \in Seq(X) : Flat(b, s \o t) = Flat(b, s) \o Flat(b, t)
  BY FlatJoin
<1>1. PICK k, tt : k = Len(ss) /\ tt = [n \in DOMAIN ss |-> Flat(b, ss[n])]
  OBVIOUS
<1>2. k \in Nat /\ DOMAIN ss = 1 .. k /\ \A n \in 1 .. k : ss[n] \in Seq(X)
  BY <1>1
<1>3. tt = [n \in 1 .. k |-> Flat(b, ss[n])] /\ Len(tt) = k
  BY <1>1, <1>2
<1>4. PICK f : /\ f = [n \in 0 .. k |-> IF n = 0 THEN <<>> ELSE f[n - 1] \o ss[n]]
               /\ Concat(ss) = f[k]
  BY <1>1, <1>2, ConcatSteps
<1>5. PICK g : /\ g = [n \in 0 .. k |-> IF n = 0 THEN <<>> ELSE g[n - 1] \o tt[n]]
               /\ Concat(tt) = g[k]
  BY <1>2, <1>3, ConcatSteps
<1> DEFINE T == {n \in 0 .. k : f[n] \in Seq(X) /\ Flat(b, f[n]) = g[n]}
<1>6. 0 \in T
  <2>1. f[0] = <<>> /\ g[0] = <<>> /\ <<>> \in Seq(X) /\ 0 \in 0 .. k
    BY <1>2, <1>4, <1>5
  <2>2. Flat(b, <<>>) = <<>>
    BY FlatShort
  <2> QED
    BY <2>1, <2>2
<1>7. ASSUME NEW n \in 0 .. (k - 1), n \in T PROVE n + 1 \in T
  <2>1. n + 1 \in 1 .. k /\ n + 1 \in 0 .. k /\ (n + 1) - 1 = n /\ n + 1 # 0
    BY <1>2
  <2>2. f[n + 1] = f[n] \o ss[n + 1] /\ g[n + 1] = g[n] \o Flat(b, ss[n + 1])
    BY <1>3, <1>4, <1>5, <2>1
  <2>3. f[n] \in Seq(X) /\ ss[n + 1] \in Seq(X) /\ Flat(b, f[n]) = g[n]
    BY <1>2, <1>7, <2>1
  <2>4. Flat(b, f[n] \o ss[n + 1]) = Flat(b, f[n]) \o Flat(b, ss[n + 1])
    <3>1. PICK u, v : u = f[n] /\ v = ss[n + 1]
      OBVIOUS
    <3>2. u \in Seq(X) /\ v \in Seq(X)
      BY <2>3, <3>1
    <3>3. Flat(b, u \o v) = Flat(b, u) \o Flat(b, v)
      BY <3>2, <1>0
    <3> QED
      BY <3>1, <3>3
  <2>5. f[n] \o ss[n + 1] \in Seq(X)
    BY <2>3
  <2> QED
    BY <2>1, <2>2, <2>3, <2>4, <2>5
<1> HIDE DEF T
<1>8. k \in T
  BY <1>2, <1>6, <1>7, UpTo
<1> QED
  BY <1>1, <1>4, <1>5, <1>8 DEF T


LEMMA FlatEmpties ==
  ASSUME NEW X, NEW S, NEW b \in Renders(X, S), NEW s \in Seq(X),
         \A i \in DOMAIN s : b[s[i]] = <<>>
  PROVE  Flat(b, s) = <<>>
<1>1. PICK ss : ss = [i \in DOMAIN s |-> b[s[i]]]
  OBVIOUS
<1>2. DOMAIN s = 1 .. Len(s) /\ Len(s) \in Nat
  OBVIOUS
<1>3. Len(ss) = Len(s) /\ \A i \in 1 .. Len(ss) : ss[i] = <<>>
  BY <1>1, <1>2
<1>4. Concat(ss) = <<>>
  BY <1>2, <1>3, ConcatEmpties
<1> QED
  BY <1>1, <1>4 DEF Flat

-----------------------------------------------------------------------------
(* What the items of a type in an answer say, message by message.          *)

\* The bodies of one type.
Body(type, X) == [x \in X |-> IF x.type = type THEN Content(x) ELSE <<>>]
Said(type) == [x \in ChatItem |-> IF x.type = type /\ ~Given(x) THEN Content(x) ELSE <<>>]

LEMMA BodiesFlat ==
  ASSUME NEW type, NEW X, \A x \in X : Content(x) \in Seq(Nat), NEW list \in Seq(X)
  PROVE  Body(type, X) \in Renders(X, Nat) /\ Bodies(type, list) = Flat(Body(type, X), list)
<1>1. Body(type, X) \in Renders(X, Nat)
  BY DEF Body, Renders
<1>2. \A i \in DOMAIN list : list[i] \in X
  OBVIOUS
<1>3. [i \in DOMAIN list |-> IF list[i].type = type THEN Content(list[i]) ELSE <<>>]
        = [i \in DOMAIN list |-> Body(type, X)[list[i]]]
  BY <1>2 DEF Body
<1> QED
  BY <1>1, <1>3 DEF Bodies, Flat

LEMMA SaidType ==
  ASSUME NEW type
  PROVE  /\ Said(type) \in Renders(ChatItem, Nat)
         /\ \A x \in ChatItem : Said(type)[x] = IF x.type = type /\ ~Given(x) THEN Content(x) ELSE <<>>
<1>1. ASSUME NEW x \in ChatItem
      PROVE  (IF x.type = type /\ ~Given(x) THEN Content(x) ELSE <<>>) \in Seq(Nat)
  <2>1. Content(x) \in Seq(Nat) /\ <<>> \in Seq(Nat)
    BY DEF ChatItem
  <2> QED
    BY <2>1
<1> QED
  BY <1>1 DEF Said, Renders

\* What is kept of a list, and what that says.
LEMMA KeptSaid ==
  ASSUME NEW type, NEW list \in Seq(ChatItem)
  PROVE  Bodies(type, Concat([i \in DOMAIN list |-> IF Given(list[i]) THEN <<>> ELSE <<list[i]>>]))
           = Flat(Said(type), list)
<1> DEFINE kept(x) == IF Given(x) THEN <<>> ELSE <<x>>
           body == Body(type, ChatItem)
<1>1. DOMAIN list = 1 .. Len(list) /\ Len(list) \in Nat /\ \A i \in DOMAIN list : list[i] \in ChatItem
  OBVIOUS
<1>2. \A x \in ChatItem : kept(x) \in Seq(ChatItem) /\ (kept(x) = <<>> \/ kept(x) = <<x>>)
  OBVIOUS
<1>3. \A x \in ChatItem : Content(x) \in Seq(Nat)
  BY DEF ChatItem
<1>4. body \in Renders(ChatItem, Nat)
  <2>1. <<>> \in Seq(ChatItem)
    OBVIOUS
  <2> QED
    BY <1>3, <2>1, BodiesFlat
<1>5. ASSUME NEW x \in ChatItem PROVE Flat(body, kept(x)) = Said(type)[x]
  <2>1. Flat(body, <<>>) = <<>> /\ Flat(body, <<x>>) = body[x]
    <3> HIDE DEF body
    <3> QED
      BY <1>4, FlatShort
  <2>2. body[x] = IF x.type = type THEN Content(x) ELSE <<>>
    BY DEF Body
  <2>3. Said(type)[x] = IF x.type = type /\ ~Given(x) THEN Content(x) ELSE <<>>
    BY SaidType
  <2> HIDE DEF body
  <2>4. CASE Given(x)
    BY <2>1, <2>3, <2>4
  <2>5. CASE ~Given(x)
    BY <2>1, <2>2, <2>3, <2>5
  <2> QED
    BY <2>4, <2>5
<1>6. PICK ss : ss = [i \in DOMAIN list |-> kept(list[i])]
  OBVIOUS
<1>7. Concat([i \in DOMAIN list |-> IF Given(list[i]) THEN <<>> ELSE <<list[i]>>]) = Concat(ss)
  BY <1>6
<1> HIDE DEF kept, body
<1>8. ss \in [1 .. Len(list) -> Seq(ChatItem)]
  BY <1>1, <1>2, <1>6
<1>9. ss \in Seq(Seq(ChatItem)) /\ DOMAIN ss = DOMAIN list
  BY <1>1, <1>8
<1>10. Flat(body, Concat(ss)) = Concat([n \in DOMAIN ss |-> Flat(body, ss[n])])
  BY <1>4, <1>9, FlatConcat
<1>11. [n \in DOMAIN ss |-> Flat(body, ss[n])] = [n \in DOMAIN list |-> Said(type)[list[n]]]
  BY <1>1, <1>5, <1>6, <1>9
<1>12. Concat(ss) \in Seq(ChatItem)
  BY <1>9, ConcatPlaces
<1>13. Bodies(type, Concat(ss)) = Flat(body, Concat(ss))
  BY <1>3, <1>12, BodiesFlat DEF body
<1> QED
  BY <1>7, <1>10, <1>11, <1>13 DEF Flat

LEMMA OutputSaid ==
  ASSUME TypeOK, NEW type
  PROVE  Bodies(type, ResponseOutput(messages))
           = Concat([n \in DOMAIN messages |-> Flat(Said(type), ItemsOf(messages[n]))])
<1>1. messages \in Seq(ChatMessage) /\ DOMAIN messages = 1 .. Len(messages) /\ Len(messages) \in Nat
  BY LatestType DEF TypeOK
<1>2. \A n \in DOMAIN messages : ItemsOf(messages[n]) \in Seq(ChatItem)
  BY <1>1, ItemsOfType
<1>3. PICK ss, list : ss = [n \in DOMAIN messages |-> ItemsOf(messages[n])] /\ list = ItemList(messages)
  OBVIOUS
<1>4. ss \in [1 .. Len(messages) -> Seq(ChatItem)]
  BY <1>1, <1>2, <1>3
<1>5. ss \in Seq(Seq(ChatItem)) /\ DOMAIN ss = DOMAIN messages
  BY <1>1, <1>4
<1>6. list = Concat(ss) /\ list \in Seq(ChatItem)
  BY <1>3, <1>5, ConcatPlaces DEF ItemList
<1>7. Bodies(type, ResponseOutput(messages)) = Flat(Said(type), list)
  <2>1. Bodies(type, Concat([i \in DOMAIN list |-> IF Given(list[i]) THEN <<>> ELSE <<list[i]>>]))
           = Flat(Said(type), list)
    BY <1>6, KeptSaid
  <2> QED
    BY <1>3, <2>1 DEF ResponseOutput
<1>8. Flat(Said(type), Concat(ss)) = Concat([n \in DOMAIN ss |-> Flat(Said(type), ss[n])])
  BY <1>5, SaidType, FlatConcat
<1>9. [n \in DOMAIN ss |-> Flat(Said(type), ss[n])]
        = [n \in DOMAIN messages |-> Flat(Said(type), ItemsOf(messages[n]))]
  BY <1>3, <1>5
<1> QED
  BY <1>6, <1>7, <1>8, <1>9


\* The items of an assistant's message that say something: its text is in one item or
\* there is none, and its calls are in one item each.
LEMMA AssistantSaid ==
  ASSUME NEW m \in ChatMessage, m.role = "assistant"
  PROVE  /\ Flat(Said("message"), ItemsOf(m)) = m.text
         /\ Tokens(Flat(Said("function_call"), ItemsOf(m))) = ArgTokens(ToolCalls(m))
<1>1. PICK r, c, t : r = ReasoningItems(m) /\ c = CallItems(m) /\ t = TextItems(m)
  OBVIOUS
<1>2. /\ r \in Seq(ChatItem) /\ c \in Seq(ChatItem) /\ t \in Seq(ChatItem)
      /\ \A a \in DOMAIN r : r[a].type = "reasoning"
      /\ DOMAIN c = DOMAIN ToolCalls(m) /\ \A a \in DOMAIN c : c[a].type = "function_call"
      /\ \A a \in DOMAIN t : t[a].type = "message"
  BY <1>1, ReasoningItemsType, CallItemsType, TextItemsType
<1>3. /\ \A a \in DOMAIN r : r[a] \in ChatItem
      /\ \A a \in DOMAIN c : c[a] \in ChatItem
      /\ \A a \in DOMAIN t : t[a] \in ChatItem
  BY <1>2
<1>4. ItemsOf(m) = (r \o c) \o t
  BY <1>1 DEF ItemsOf, AiItems
<1>5. ASSUME NEW type
      PROVE  Flat(Said(type), ItemsOf(m))
               = (Flat(Said(type), r) \o Flat(Said(type), c)) \o Flat(Said(type), t)
  <2>1. PICK b : b = Said(type)
    OBVIOUS
  <2>2. b \in Renders(ChatItem, Nat)
    BY <2>1, SaidType
  <2>3. PICK u : u = r \o c
    OBVIOUS
  <2>4. \A v, w \in Seq(ChatItem) : Flat(b, v \o w) = Flat(b, v) \o Flat(b, w)
    BY <2>2, FlatJoin
  <2>5. Flat(b, u \o t) = Flat(b, u) \o Flat(b, t)
    <3>1. u \in Seq(ChatItem)
      BY <1>2, <2>3
    <3> QED
      BY <1>2, <2>4, <3>1
  <2>6. Flat(b, r \o c) = Flat(b, r) \o Flat(b, c)
    BY <1>2, <2>4
  <2> QED
    BY <1>4, <2>1, <2>3, <2>5, <2>6
<1>6. ASSUME NEW type, NEW s \in Seq(ChatItem), \A a \in DOMAIN s : s[a] \in ChatItem /\ s[a].type # type
      PROVE  Flat(Said(type), s) = <<>>
  <2>1. \A a \in DOMAIN s : Said(type)[s[a]] = <<>>
    BY <1>6, SaidType
  <2> QED
    BY <2>1, SaidType, FlatEmpties
<1>7. Flat(Said("message"), ItemsOf(m)) = m.text
  <2>1. Flat(Said("message"), r) = <<>> /\ Flat(Said("message"), c) = <<>>
    BY <1>2, <1>3, <1>6
  <2>2. Flat(Said("message"), t) = m.text
    <3>1. PICK x, b : x = Item("message", MessageId(m), "assistant", None, m.text) /\ b = Said("message")
      OBVIOUS
    <3>2. b \in Renders(ChatItem, Nat)
      BY <3>1, SaidType
    <3>3. CASE m.text # <<>> \/ ToolCalls(m) = <<>>
      <4>1. t = <<x>>
        BY <1>1, <3>1, <3>3 DEF TextItems
      <4>2. x.type = "message" /\ x.role = "assistant" /\ Content(x) = m.text
        BY <3>1 DEF Item, Content
      <4>3. DOMAIN <<x>> = {1} /\ <<x>>[1] = x
        OBVIOUS
      <4>4. x \in ChatItem
        BY <1>3, <4>1, <4>3
      <4>5. ~Given(x)
        BY <4>2 DEF Given
      <4>6. Said("message")[x] = IF x.type = "message" /\ ~Given(x) THEN Content(x) ELSE <<>>
        BY <4>4, SaidType
      <4>7. Flat(b, <<x>>) = b[x]
        BY <3>2, <4>4, FlatShort
      <4> QED
        BY <3>1, <4>1, <4>2, <4>5, <4>6, <4>7
    <3>4. CASE ~(m.text # <<>> \/ ToolCalls(m) = <<>>)
      <4>1. t = <<>> /\ m.text = <<>>
        BY <1>1, <3>4 DEF TextItems
      <4>2. Flat(b, <<>>) = <<>>
        BY <3>2, FlatShort
      <4> QED
        BY <3>1, <4>1, <4>2
    <3> QED
      BY <3>3, <3>4
  <2>3. Flat(Said("message"), ItemsOf(m)) = (<<>> \o <<>>) \o m.text
    BY <1>5, <2>1, <2>2
  <2>4. m.text \in Seq(Nat)
    BY DEF ChatMessage
  <2>5. (<<>> \o <<>>) \o m.text = m.text
    BY <2>4
  <2> QED
    BY <2>3, <2>5
<1>8. Tokens(Flat(Said("function_call"), ItemsOf(m))) = ArgTokens(ToolCalls(m))
  <2>1. Flat(Said("function_call"), r) = <<>> /\ Flat(Said("function_call"), t) = <<>>
    BY <1>2, <1>3, <1>6
  <2>2. PICK b, d : b = Said("function_call") /\ d = Flat(b, c)
    OBVIOUS
  <2>3. b \in Renders(ChatItem, Nat)
    BY <2>2, SaidType
  <2>4. d \in Seq(Nat)
    BY <1>2, <2>2, <2>3, FlatJoin
  <2>5. Flat(Said("function_call"), ItemsOf(m)) = (<<>> \o d) \o <<>>
    BY <1>5, <2>1, <2>2
  <2>6. (<<>> \o d) \o <<>> = d
    BY <2>4
  <2>7. PICK calls : calls = ToolCalls(m) /\ calls \in Seq(Call)
    <3>1. m.calls \in Seq(Call)
      BY DEF ChatMessage
    <3> QED
      BY <3>1, ToolCallsAre
  <2>8. \A a \in DOMAIN c : Content(c[a]) = calls[a].args
    BY <1>1, <2>7, CallItemsType
  <2>9. \A a \in DOMAIN c : b[c[a]] = calls[a].args
    <3>1. \A a \in DOMAIN c : ~Given(c[a])
      BY <1>2 DEF Given
    <3> QED
      BY <1>2, <1>3, <2>2, <2>8, <3>1, SaidType
  <2>10. PICK ss : ss = [a \in DOMAIN c |-> b[c[a]]]
    OBVIOUS
  <2>11. ss \in Seq(Seq(Nat)) /\ DOMAIN ss = DOMAIN calls
    <3>1. \A a \in DOMAIN c : calls[a] \in Call
      BY <1>2, <2>7
    <3>2. \A a \in DOMAIN c : b[c[a]] \in Seq(Nat)
      BY <2>9, <3>1 DEF Call
    <3>3. DOMAIN c = 1 .. Len(c) /\ Len(c) \in Nat
      BY <1>2
    <3>4. ss \in [1 .. Len(c) -> Seq(Nat)]
      BY <2>10, <3>2, <3>3
    <3>5. ss \in Seq(Seq(Nat))
      BY <3>3, <3>4
    <3> QED
      BY <1>2, <2>7, <2>10, <3>5
  <2>12. Tokens(d) = UNION {Tokens(ss[n]) : n \in DOMAIN ss}
    BY <2>2, <2>10, <2>11, ConcatTokens DEF Flat
  <2>13. \A n \in DOMAIN calls : ss[n] = calls[n].args
    BY <1>2, <2>7, <2>9, <2>10
  <2> QED
    BY <2>5, <2>6, <2>7, <2>11, <2>12, <2>13 DEF ArgTokens
<1> QED
  BY <1>7, <1>8

\* What calls say is said by those LangChain has read, or it could not be read.
LEMMA ArgsRead ==
  ASSUME NEW m \in ChatMessage
  PROVE  /\ ArgTokens(ToolCalls(m)) \subseteq ArgTokens(m.calls)
         /\ ArgTokens(m.calls) \subseteq ArgTokens(ToolCalls(m)) \cup UnreadOf(m)
<1>1. PICK calls, read : calls = m.calls /\ read = ToolCalls(m)
  OBVIOUS
<1>2. /\ calls \in Seq(Call) /\ DOMAIN calls = 1 .. Len(calls) /\ Len(calls) \in Nat
      /\ \A n \in DOMAIN calls : calls[n] \in Call
  BY <1>1 DEF ChatMessage
<1>3. PICK ss : ss = [n \in DOMAIN calls |-> IF calls[n].object THEN <<calls[n]>> ELSE <<>>]
  OBVIOUS
<1>4. ss \in Seq(Seq(Call)) /\ DOMAIN ss = DOMAIN calls
  <2>1. \A n \in DOMAIN calls : ss[n] \in Seq(Call)
    BY <1>2, <1>3
  <2>2. ss \in [1 .. Len(calls) -> Seq(Call)]
    BY <1>2, <1>3, <2>1
  <2> QED
    BY <1>2, <2>2
<1>5. Tokens(read) = UNION {Tokens(ss[n]) : n \in DOMAIN ss}
  <2>1. read = Concat(ss)
    BY <1>1, <1>3 DEF ToolCalls
  <2>2. PICK S : S = Call
    OBVIOUS
  <2>3. ss \in Seq(Seq(S))
    BY <1>4, <2>2
  <2>4. Tokens(Concat(ss)) = UNION {Tokens(ss[n]) : n \in DOMAIN ss}
    BY <2>3, ConcatTokens
  <2> QED
    BY <2>1, <2>4
<1>6. \A n \in DOMAIN calls : Tokens(ss[n]) = IF calls[n].object THEN {calls[n]} ELSE {}
  <2>1. \A x : DOMAIN <<x>> = {1} /\ <<x>>[1] = x
    OBVIOUS
  <2>2. Tokens(<<>>) = {} /\ \A x : Tokens(<<x>>) = {x}
    BY <2>1 DEF Tokens
  <2> QED
    BY <1>3, <2>2
<1>7. Tokens(read) = {calls[n] : n \in {k \in DOMAIN calls : calls[k].object}}
  BY <1>4, <1>5, <1>6
<1>8. \A n \in DOMAIN calls : calls[n].object => \E i \in DOMAIN read : read[i] = calls[n]
  BY <1>7 DEF Tokens
<1>9. \A i \in DOMAIN read : \E n \in DOMAIN calls : read[i] = calls[n]
  BY <1>7 DEF Tokens
<1>10. ArgTokens(read) \subseteq ArgTokens(calls)
  BY <1>9 DEF ArgTokens
<1>11. ASSUME NEW n \in DOMAIN calls
       PROVE  Tokens(calls[n].args) \subseteq ArgTokens(read) \cup UnreadOf(m)
  <2>1. CASE calls[n].object
    BY <1>8, <2>1 DEF ArgTokens
  <2>2. CASE ~calls[n].object
    BY <1>1, <2>2 DEF UnreadOf
  <2> QED
    BY <2>1, <2>2
<1> QED
  BY <1>1, <1>10, <1>11 DEF ArgTokens

LEMMA OthersSaid ==
  ASSUME NEW m \in ChatMessage, m.role # "assistant", NEW type \in {"message", "function_call"}
  PROVE  Flat(Said(type), ItemsOf(m)) = <<>>
<1>1. PICK s : s = ItemsOf(m)
  OBVIOUS
<1>2. s \in Seq(ChatItem)
  BY <1>1, ItemsOfType
<1>3. ASSUME NEW a \in DOMAIN s PROVE Given(s[a]) \/ s[a].type = "function_call_output"
  <2>1. CASE m.role = "user"
    <3>1. s = <<Item("message", MessageId(m), m.role, None, m.text)>>
      BY <1>1, <2>1 DEF ItemsOf
    <3>2. a = 1
      BY <3>1
    <3>3. s[1].type = "message" /\ s[1].role = "user"
      BY <2>1, <3>1 DEF Item
    <3> QED
      BY <3>2, <3>3 DEF Given
  <2>2. CASE m.role = "tool"
    <3>1. s = <<Item("function_call_output", OutputId(m), None, m.answers, m.text)>>
      BY <1>1, <2>2 DEF ItemsOf
    <3>2. a = 1
      BY <3>1
    <3>3. s[1].type = "function_call_output"
      BY <3>1 DEF Item
    <3> QED
      BY <3>2, <3>3
  <2> QED
    BY <2>1, <2>2 DEF ChatMessage
<1>4. \A a \in DOMAIN s : s[a] \in ChatItem
  BY <1>2
<1>5. \A a \in DOMAIN s : Said(type)[s[a]] = <<>>
  BY <1>3, <1>4, SaidType
<1> QED
  BY <1>1, <1>2, <1>5, SaidType, FlatEmpties


-----------------------------------------------------------------------------
(* What has been streamed against what the models said.                    *)

TextsOf(list, who) == [n \in DOMAIN list |-> IF n \in who THEN list[n].text ELSE <<>>]
Texts == TextsOf(messages, streamed)
CallSent == UNION {Tokens(log[i].body) : i \in CallEvents}
CallSaid == UNION {ArgTokens(messages[n].calls) : n \in streamed}

\* The text sent and left is that of the messages streamed, and the arguments are
\* those of their calls.
Agreed ==
  /\ Bodies("text", log) \o Token(cur.text) = Concat(Texts)
  /\ CallSaid = CallSent \cup FragTokens(cur.frags)

LEMMA TextsType ==
  ASSUME NEW list \in Seq(ChatMessage), NEW who
  PROVE  /\ TextsOf(list, who) \in Seq(Seq(Nat)) /\ Len(TextsOf(list, who)) = Len(list)
         /\ DOMAIN list = 1 .. Len(list) /\ Len(list) \in Nat
         /\ \A n \in DOMAIN list : /\ list[n].text \in Seq(Nat)
                                  /\ TextsOf(list, who)[n] = IF n \in who THEN list[n].text ELSE <<>>
<1>1. DOMAIN list = 1 .. Len(list) /\ Len(list) \in Nat
  OBVIOUS
<1>2. \A n \in DOMAIN list : list[n].text \in Seq(Nat)
  <2>1. \A n \in DOMAIN list : list[n] \in ChatMessage
    OBVIOUS
  <2> QED
    BY <2>1 DEF ChatMessage
<1>3. TextsOf(list, who) \in [1 .. Len(list) -> Seq(Nat)]
  BY <1>1, <1>2 DEF TextsOf
<1>4. TextsOf(list, who) \in Seq(Seq(Nat)) /\ Len(TextsOf(list, who)) = Len(list)
  BY <1>1, <1>3
<1> QED
  BY <1>1, <1>2, <1>4 DEF TextsOf

LEMMA ReplyContent == \A x \in Reply : Content(x) = x.body /\ Content(x) \in Seq(Nat)
  BY DEF Reply, Content

\* What one more chunk of the answer adds to the bodies of a type.
LEMMA BodiesMore ==
  ASSUME TypeOK, NEW type, NEW e \in Reply, Yield(e)
  PROVE  Bodies(type, log') = Bodies(type, log) \o (IF e.type = type THEN e.body ELSE <<>>)
<1>1. PICK l, b : l = log /\ b = Body(type, Reply)
  OBVIOUS
<1>2. l \in Seq(Reply) /\ log' = l \o <<e>> /\ <<e>> \in Seq(Reply) /\ l \o <<e>> \in Seq(Reply)
  <2>1. l \in Seq(Reply) /\ log' = Append(l, e)
    BY <1>1 DEF TypeOK, Yield
  <2>2. Append(l, e) = l \o <<e>>
    BY <2>1, AppendIsConcat
  <2>3. <<e>> \in Seq(Reply)
    OBVIOUS
  <2>4. l \o <<e>> \in Seq(Reply)
    BY <2>1, <2>3
  <2> QED
    BY <2>1, <2>2, <2>3, <2>4
<1>3. \A x \in Reply : Content(x) \in Seq(Nat)
  BY ReplyContent
<1>4. b \in Renders(Reply, Nat) /\ \A list \in Seq(Reply) : Bodies(type, list) = Flat(b, list)
  BY <1>1, <1>2, <1>3, BodiesFlat
<1>5. \A s, t \in Seq(Reply) : Flat(b, s \o t) = Flat(b, s) \o Flat(b, t)
  BY <1>4, FlatJoin
<1>6. Flat(b, <<e>>) = b[e]
  BY <1>4, FlatShort
<1>7. b[e] = IF e.type = type THEN e.body ELSE <<>>
  BY <1>1, ReplyContent DEF Body
<1>8. Bodies(type, l \o <<e>>) = Flat(b, l) \o b[e]
  BY <1>2, <1>4, <1>5, <1>6
<1> QED
  BY <1>1, <1>2, <1>4, <1>7, <1>8

LEMMA BodiesType ==
  ASSUME TypeOK, NEW type
  PROVE  Bodies(type, log) \in Seq(Nat)
<1>1. PICK l, b : l = log /\ b = Body(type, Reply)
  OBVIOUS
<1>2. l \in Seq(Reply)
  BY <1>1 DEF TypeOK
<1>3. \A x \in Reply : Content(x) \in Seq(Nat)
  BY ReplyContent
<1>4. b \in Renders(Reply, Nat) /\ Bodies(type, l) = Flat(b, l)
  BY <1>1, <1>2, <1>3, BodiesFlat
<1>5. Flat(b, l) \in Seq(Nat)
  <2>1. \A s, t \in Seq(Reply) : Flat(b, s) \in Seq(Nat)
    BY <1>4, FlatJoin
  <2> QED
    BY <1>2, <2>1
<1> QED
  BY <1>1, <1>4, <1>5

LEMMA CallSentMore ==
  ASSUME TypeOK, NEW e, Yield(e)
  PROVE  CallSent' = CallSent \cup (IF e.type = "call" THEN Tokens(e.body) ELSE {})
<1> DEFINE n == Len(log) + 1
<1>1. /\ Len(log) \in Nat /\ DOMAIN log = 1 .. Len(log) /\ DOMAIN log' = 1 .. n
      /\ log'[n] = e /\ \A i \in DOMAIN log : log'[i] = log[i]
  BY LogMore
<1>2. DOMAIN log' = DOMAIN log \cup {n} /\ n \notin DOMAIN log
  BY <1>1
<1> HIDE DEF n
<1>3. CallEvents' = CallEvents \cup (IF e.type = "call" THEN {n} ELSE {})
  BY <1>1, <1>2 DEF CallEvents
<1>4. \A i \in CallEvents : log'[i] = log[i]
  BY <1>1 DEF CallEvents
<1>5. UNION {Tokens(log'[i].body) : i \in CallEvents} = CallSent
  BY <1>4 DEF CallSent
<1>6. CASE e.type = "call"
  <2>1. CallSent' = UNION {Tokens(log'[i].body) : i \in CallEvents \cup {n}}
    BY <1>3, <1>6 DEF CallSent
  <2>2. CallSent' = (UNION {Tokens(log'[i].body) : i \in CallEvents}) \cup Tokens(log'[n].body)
    BY <2>1
  <2> QED
    BY <1>1, <1>5, <1>6, <2>2
<1>7. CASE e.type # "call"
  BY <1>3, <1>5, <1>7 DEF CallSent
<1> QED
  BY <1>6, <1>7

\* A chunk that arrives: text and arguments grow by what it has.
LEMMA AgreedChunk ==
  ASSUME TypeOK, Agreed, Spent, UNCHANGED log, NEW c, c.text \in Nat,
         cur'.text = c.text, cur'.frags = c.frags,
         Concat(Texts') = Concat(Texts) \o Token(c.text),
         CallSaid' = CallSaid \cup FragTokens(c.frags)
  PROVE  Agreed'
<1>1. Bodies("text", log) \in Seq(Nat)
  BY BodiesType
<1>2. Token(cur.text) = <<>> /\ FragTokens(cur.frags) = {}
  <2>1. cur.text = 0 /\ cur.frags = <<>>
    BY DEF Spent
  <2>2. DOMAIN cur.frags = {}
    BY <2>1
  <2> QED
    BY <2>1, <2>2 DEF Token, FragTokens
<1>3. Bodies("text", log) \o <<>> = Bodies("text", log)
  BY <1>1
<1>4. Concat(Texts) = Bodies("text", log) /\ CallSaid = CallSent
  BY <1>2, <1>3 DEF Agreed
<1>5. CallSent' = CallSent
  BY DEF CallSent, CallEvents
<1> QED
  BY <1>4, <1>5 DEF Agreed

LEMMA AgreedInit == Init => Agreed
<1> SUFFICES ASSUME Init PROVE Agreed
  OBVIOUS
<1>1. streamed = {} /\ log = <<>> /\ cur.text = 0 /\ cur.frags = <<>>
  BY DEF Init, Nothing
<1>2. CallSaid = {} /\ CallSent = {} /\ FragTokens(cur.frags) = {}
  <2>1. DOMAIN log = {} /\ DOMAIN cur.frags = {}
    BY <1>1
  <2> QED
    BY <1>1, <2>1 DEF CallSaid, CallSent, CallEvents, FragTokens
<1>3. Concat(Texts) = <<>>
  <2>1. TypeOK
    BY InitType
  <2>2. /\ Len(Texts) = Len(messages) /\ Len(messages) \in Nat /\ DOMAIN messages = 1 .. Len(messages)
        /\ \A n \in DOMAIN messages : Texts[n] = <<>>
    <3>1. messages \in Seq(ChatMessage)
      BY <2>1 DEF TypeOK
    <3> QED
      BY <1>1, <3>1, TextsType DEF Texts
  <2> QED
    BY <2>2, ConcatEmpties
<1>4. Bodies("text", log) = <<>>
  <2>1. PICK ss : ss = [i \in DOMAIN log |-> IF log[i].type = "text" THEN Content(log[i]) ELSE <<>>]
    OBVIOUS
  <2>2. ss = <<>>
    BY <1>1, <2>1
  <2>3. Concat(<<>>) = <<>>
    <3>1. <<>> \in Seq(Nat)
      OBVIOUS
    <3> QED
      BY <3>1, ConcatShort
  <2> QED
    BY <2>1, <2>2, <2>3 DEF Bodies
<1>5. Token(cur.text) = <<>> /\ <<>> \o <<>> = <<>>
  BY <1>1 DEF Token
<1> QED
  BY <1>2, <1>3, <1>4, <1>5 DEF Agreed


LEMMA TextsAssociate == \A x, y, z \in Seq(Nat) : (x \o y) \o z = x \o (y \o z)
  BY ConcatAssociative, SMTT(30)

\* The texts of a list whose last message is new or grows, and of one that gets
\* longer by messages that are not streamed.
LEMMA TextsBut ==
  ASSUME NEW list \in Seq(ChatMessage), NEW who, Len(list) # 0, Len(list) \in who
  PROVE  /\ Concat(TextsOf(list, who))
              = Concat([i \in 1 .. Len(list) - 1 |-> TextsOf(list, who)[i]]) \o list[Len(list)].text
         /\ Concat([i \in 1 .. Len(list) - 1 |-> TextsOf(list, who)[i]]) \in Seq(Nat)
<1>1. PICK tt, k : tt = TextsOf(list, who) /\ k = Len(list)
  OBVIOUS
<1>2. /\ tt \in Seq(Seq(Nat)) /\ Len(tt) = Len(list) /\ DOMAIN list = 1 .. Len(list) /\ Len(list) \in Nat
      /\ \A i \in DOMAIN list : tt[i] = IF i \in who THEN list[i].text ELSE <<>>
  BY <1>1, TextsType
<1>3. PICK front : front = [i \in 1 .. (Len(tt) - 1) |-> tt[i]]
  OBVIOUS
<1>4. k \in Nat /\ k # 0 /\ Len(tt) = k /\ k \in DOMAIN list /\ k \in who
  BY <1>1, <1>2
<1>5. Concat(tt) = Concat(front) \o tt[Len(tt)] /\ Concat(front) \in Seq(Nat)
  BY <1>2, <1>3, <1>4, ConcatLast
<1>6. tt[k] = list[k].text
  BY <1>2, <1>4
<1>7. front = [i \in 1 .. k - 1 |-> tt[i]]
  BY <1>3, <1>4
<1> QED
  BY <1>1, <1>4, <1>5, <1>6, <1>7

LEMMA TextsGrow ==
  ASSUME NEW list \in Seq(ChatMessage), NEW who, NEW grown \in Seq(ChatMessage), NEW more,
         Len(grown) = Len(list) + 1, Len(grown) \in more,
         \A i \in DOMAIN list : grown[i] = list[i] /\ (i \in more <=> i \in who)
  PROVE  Concat(TextsOf(grown, more)) = Concat(TextsOf(list, who)) \o grown[Len(grown)].text
<1>1. PICK ss, tt, n : ss = TextsOf(list, who) /\ tt = TextsOf(grown, more) /\ n = Len(list)
  OBVIOUS
<1>2. /\ ss \in Seq(Seq(Nat)) /\ Len(ss) = n /\ DOMAIN list = 1 .. n /\ n \in Nat
      /\ \A i \in DOMAIN list : ss[i] = IF i \in who THEN list[i].text ELSE <<>>
  BY <1>1, TextsType
<1>3. \A i \in DOMAIN grown : tt[i] = IF i \in more THEN grown[i].text ELSE <<>>
  BY <1>1, TextsType
<1>4. \A i \in 1 .. n : i \in DOMAIN grown /\ i \in DOMAIN list
  BY <1>1, <1>2
<1>5. \A i \in 1 .. n : tt[i] = ss[i]
  BY <1>2, <1>3, <1>4
<1>6. ss = [i \in 1 .. n |-> tt[i]]
  BY <1>2, <1>5
<1>7. Len(grown) # 0 /\ Len(grown) - 1 = n
  BY <1>1, <1>2
<1>8. Concat(tt) = Concat([i \in 1 .. n |-> tt[i]]) \o grown[Len(grown)].text
  <2>1. Concat(TextsOf(grown, more))
          = Concat([i \in 1 .. Len(grown) - 1 |-> TextsOf(grown, more)[i]]) \o grown[Len(grown)].text
    BY <1>7, TextsBut
  <2> QED
    BY <1>1, <1>7, <2>1
<1> QED
  BY <1>1, <1>6, <1>8

LEMMA TextsGoOn ==
  ASSUME NEW list \in Seq(ChatMessage), NEW who, NEW grown \in Seq(ChatMessage),
         Len(grown) = Len(list), Len(list) # 0, Len(list) \in who, NEW t \in Seq(Nat),
         \A i \in DOMAIN list \ {Len(list)} : grown[i] = list[i],
         grown[Len(list)].text = list[Len(list)].text \o t
  PROVE  Concat(TextsOf(grown, who)) = Concat(TextsOf(list, who)) \o t
<1>1. PICK ss, tt, n : ss = TextsOf(list, who) /\ tt = TextsOf(grown, who) /\ n = Len(list)
  OBVIOUS
<1>2. /\ DOMAIN list = 1 .. n /\ DOMAIN grown = 1 .. n /\ n \in Nat
      /\ \A i \in DOMAIN list : ss[i] = IF i \in who THEN list[i].text ELSE <<>>
  BY <1>1, TextsType
<1>3. \A i \in DOMAIN grown : tt[i] = IF i \in who THEN grown[i].text ELSE <<>>
  BY <1>1, TextsType
<1>4. \A i \in 1 .. n - 1 : i \in DOMAIN grown /\ i \in DOMAIN list /\ i \in DOMAIN list \ {Len(list)}
  <2>1. \A a \in Nat : \A i \in 1 .. a - 1 : i \in 1 .. a /\ i \in (1 .. a) \ {a}
    OBVIOUS
  <2> QED
    BY <1>1, <1>2, <2>1
<1>5. \A i \in 1 .. n - 1 : tt[i] = ss[i]
  BY <1>2, <1>3, <1>4
<1>6. PICK front, w : front = Concat([i \in 1 .. n - 1 |-> ss[i]]) /\ w = list[n].text
  OBVIOUS
<1>7. [i \in 1 .. n - 1 |-> tt[i]] = [i \in 1 .. n - 1 |-> ss[i]]
  BY <1>5
<1>8. Concat(tt) = front \o (w \o t)
  <2>1. Concat(TextsOf(grown, who))
          = Concat([i \in 1 .. Len(grown) - 1 |-> TextsOf(grown, who)[i]]) \o grown[Len(grown)].text
    BY TextsBut
  <2> QED
    BY <1>1, <1>6, <1>7, <2>1
<1>9. Concat(ss) = front \o w /\ front \in Seq(Nat)
  <2>1. /\ Concat(TextsOf(list, who))
             = Concat([i \in 1 .. Len(list) - 1 |-> TextsOf(list, who)[i]]) \o list[Len(list)].text
        /\ Concat([i \in 1 .. Len(list) - 1 |-> TextsOf(list, who)[i]]) \in Seq(Nat)
    BY TextsBut
  <2> QED
    BY <1>1, <1>6, <2>1
<1>10. w \in Seq(Nat)
  <2>1. n \in DOMAIN list
    BY <1>1, <1>2
  <2> QED
    BY <1>6, <2>1, TextsType
<1>11. (front \o w) \o t = front \o (w \o t)
  BY <1>9, <1>10, TextsAssociate
<1> QED
  BY <1>1, <1>8, <1>9, <1>11

LEMMA TextsLonger ==
  ASSUME NEW list \in Seq(ChatMessage), NEW who, NEW grown \in Seq(ChatMessage),
         Len(list) <= Len(grown), who \subseteq DOMAIN list,
         \A i \in DOMAIN list : grown[i] = list[i]
  PROVE  Concat(TextsOf(grown, who)) = Concat(TextsOf(list, who))
<1>1. PICK ss, tt : ss = TextsOf(list, who) /\ tt = TextsOf(grown, who)
  OBVIOUS
<1>2. /\ ss \in Seq(Seq(Nat)) /\ Len(ss) = Len(list) /\ DOMAIN list = 1 .. Len(list) /\ Len(list) \in Nat
      /\ \A i \in DOMAIN list : ss[i] = IF i \in who THEN list[i].text ELSE <<>>
  BY <1>1, TextsType
<1>3. /\ tt \in Seq(Seq(Nat)) /\ Len(tt) = Len(grown) /\ DOMAIN grown = 1 .. Len(grown) /\ Len(grown) \in Nat
      /\ \A i \in DOMAIN grown : tt[i] = IF i \in who THEN grown[i].text ELSE <<>>
  BY <1>1, TextsType
<1>4. \A i \in 1 .. Len(ss) : tt[i] = ss[i]
  <2>1. \A a, b \in Nat : a <= b => \A i \in 1 .. a : i \in 1 .. b
    OBVIOUS
  <2>2. \A i \in 1 .. Len(ss) : i \in DOMAIN list /\ i \in DOMAIN grown
    BY <1>2, <1>3, <2>1
  <2> QED
    BY <1>2, <1>3, <2>2
<1>5. PICK rest : rest = [i \in 1 .. (Len(tt) - Len(ss)) |-> tt[Len(ss) + i]]
  OBVIOUS
<1>6. Concat(tt) = Concat(ss) \o Concat(rest)
  <2>1. ss \in Seq(Seq(Nat)) /\ tt \in Seq(Seq(Nat)) /\ Len(ss) <= Len(tt)
    BY <1>2, <1>3
  <2> QED
    BY <1>4, <1>5, <2>1, ConcatMore
<1>7. Concat(rest) = <<>>
  <2>1. PICK k, l : k = Len(ss) /\ l = Len(tt) - Len(ss)
    OBVIOUS
  <2>2. k \in Nat /\ l \in Nat /\ DOMAIN list = 1 .. k /\ DOMAIN grown = 1 .. (k + l)
    BY <1>2, <1>3, <2>1
  <2>3. rest = [i \in 1 .. l |-> tt[k + i]]
    BY <1>5, <2>1
  <2>4. ASSUME NEW i \in 1 .. l PROVE rest[i] = <<>>
    <3>1. k + i \in DOMAIN grown /\ k + i \notin DOMAIN list
      BY <2>2
    <3> QED
      BY <1>3, <2>3, <3>1
  <2>5. Len(rest) = l
    BY <2>2, <2>3
  <2> QED
    BY <2>2, <2>4, <2>5, ConcatEmpties
<1>8. Concat(ss) \in Seq(Nat)
  BY <1>2, ConcatPlaces
<1>9. Concat(ss) \o <<>> = Concat(ss)
  BY <1>8
<1> QED
  BY <1>1, <1>6, <1>7, <1>9


LEMMA AgreedStep == TypeOK /\ TypeOK' /\ Agreed /\ [Next]_vars => Agreed'
<1> SUFFICES ASSUME TypeOK, TypeOK', Agreed, [Next]_vars PROVE Agreed'
  OBVIOUS
<1>1. /\ Len(messages) \in Nat \ {0} /\ DOMAIN messages = 1 .. Len(messages)
      /\ streamed \subseteq DOMAIN messages /\ messages \in Seq(ChatMessage)
      /\ Latest = messages[Len(messages)] /\ Latest.calls \in Seq(Call) /\ Latest.text \in Seq(Nat)
  BY LatestType DEF TypeOK
<1>2. messages' \in Seq(ChatMessage)
  BY DEF TypeOK
<1>3. ASSUME NEW k \in Chunks, StartsAnswer(k) PROVE Agreed'
  <2> DEFINE n == Len(messages) + 1
             c == Deliver(k, n)
             m == messages'[n]
  <2>0. PICK first : first = TRUE
    OBVIOUS
  <2>1. /\ Spent /\ UNCHANGED log
        /\ c.text \in Nat /\ c.frags \in Seq(CallFrag) /\ cur'.text = c.text /\ cur'.frags = c.frags
        /\ Len(messages') = n
        /\ \A i \in DOMAIN messages : messages'[i] = messages[i]
        /\ m.text = Token(c.text) /\ m.calls = AddFragments(<<>>, c.frags, first)
        /\ n \notin DOMAIN messages /\ streamed' = streamed \cup {n}
    BY <1>3, <2>0, StartsAnswerStep
  <2> HIDE DEF c, m
  <2>2. Concat(Texts') = Concat(Texts) \o Token(c.text)
    <3>1. PICK grown, more, p, who : grown = messages' /\ more = streamed' /\ p = messages /\ who = streamed
      OBVIOUS
    <3>2. /\ p \in Seq(ChatMessage) /\ grown \in Seq(ChatMessage)
          /\ Len(grown) = Len(p) + 1 /\ Len(grown) \in more /\ grown[Len(grown)].text = Token(c.text)
      BY <1>1, <1>2, <2>1, <3>1 DEF m
    <3>3. \A i \in DOMAIN p : grown[i] = p[i] /\ (i \in more <=> i \in who)
      BY <1>1, <2>1, <3>1
    <3>4. Concat(TextsOf(grown, more)) = Concat(TextsOf(p, who)) \o grown[Len(grown)].text
      BY <3>2, <3>3, TextsGrow
    <3> QED
      BY <3>1, <3>2, <3>4 DEF Texts
  <2>3. CallSaid' = CallSaid \cup FragTokens(c.frags)
    <3>1. ArgTokens(m.calls) = FragTokens(c.frags)
      <4>1. <<>> \in Seq(Call) /\ ArgTokens(<<>>) = {}
        BY DEF ArgTokens
      <4>2. \A calls \in Seq(Call) :
              ArgTokens(AddFragments(calls, c.frags, first)) = ArgTokens(calls) \cup FragTokens(c.frags)
        BY <2>1, AddFragmentsTokens
      <4> QED
        BY <2>1, <4>1, <4>2
    <3>2. \A i \in streamed : messages'[i] = messages[i]
      BY <1>1, <2>1
    <3>3. UNION {ArgTokens(messages'[i].calls) : i \in streamed} = CallSaid
      BY <3>2 DEF CallSaid
    <3>4. CallSaid' = UNION {ArgTokens(messages'[i].calls) : i \in streamed \cup {n}}
      BY <2>1 DEF CallSaid
    <3>5. CallSaid' = (UNION {ArgTokens(messages'[i].calls) : i \in streamed}) \cup ArgTokens(messages'[n].calls)
      BY <3>4
    <3> QED
      BY <3>1, <3>3, <3>5 DEF m
  <2> QED
    BY <2>1, <2>2, <2>3, AgreedChunk
<1>4. ASSUME NEW k \in Chunks, GoesOn(k) PROVE Agreed'
  <2> DEFINE n == Len(messages)
             c == Deliver(k, n)
             m == messages'[n]
  <2>0. PICK first : first = FALSE
    OBVIOUS
  <2>1. /\ Spent /\ UNCHANGED log
        /\ c.text \in Nat /\ c.frags \in Seq(CallFrag) /\ cur'.text = c.text /\ cur'.frags = c.frags
        /\ Len(messages') = n
        /\ \A i \in DOMAIN messages \ {n} : messages'[i] = messages[i]
        /\ m.text = Latest.text \o Token(c.text) /\ m.calls = AddFragments(Latest.calls, c.frags, first)
        /\ n \in streamed /\ streamed' = streamed
    BY <1>4, <2>0, GoesOnStep
  <2> HIDE DEF c, m
  <2>2. Concat(Texts') = Concat(Texts) \o Token(c.text)
    <3>1. PICK grown, p, who, t : grown = messages' /\ p = messages /\ who = streamed /\ t = Token(c.text)
      OBVIOUS
    <3>2. /\ p \in Seq(ChatMessage) /\ grown \in Seq(ChatMessage)
          /\ Len(grown) = Len(p) /\ Len(p) # 0 /\ Len(p) \in who
      BY <1>1, <1>2, <2>1, <3>1
    <3>3. t \in Seq(Nat) /\ grown[Len(p)].text = p[Len(p)].text \o t
      <4>1. t \in Seq(Nat)
        BY <2>1, <3>1 DEF Token
      <4>2. p[Len(p)] = Latest /\ grown[Len(p)] = m
        BY <1>1, <3>1 DEF m
      <4> QED
        BY <2>1, <3>1, <4>1, <4>2
    <3>4. \A i \in DOMAIN p \ {Len(p)} : grown[i] = p[i]
      BY <2>1, <3>1
    <3>5. Concat(TextsOf(grown, who)) = Concat(TextsOf(p, who)) \o t
      BY <3>2, <3>3, <3>4, TextsGoOn
    <3> QED
      BY <2>1, <3>1, <3>5 DEF Texts
  <2>3. CallSaid' = CallSaid \cup FragTokens(c.frags)
    <3>1. ArgTokens(m.calls) = ArgTokens(Latest.calls) \cup FragTokens(c.frags)
      <4>1. \A calls \in Seq(Call) :
              ArgTokens(AddFragments(calls, c.frags, first)) = ArgTokens(calls) \cup FragTokens(c.frags)
        BY <2>1, AddFragmentsTokens
      <4> QED
        BY <1>1, <2>1, <4>1
    <3> DEFINE others == UNION {ArgTokens(messages[i].calls) : i \in streamed \ {n}}
    <3>2. CallSaid = others \cup ArgTokens(Latest.calls)
      BY <1>1, <2>1 DEF CallSaid
    <3>3. CallSaid' = others \cup ArgTokens(m.calls)
      <4>1. \A i \in streamed \ {n} : messages'[i] = messages[i]
        BY <1>1, <2>1
      <4>2. others = UNION {ArgTokens(messages'[i].calls) : i \in streamed \ {n}}
        BY <4>1
      <4>3. CallSaid' = UNION {ArgTokens(messages'[i].calls) : i \in streamed}
        BY <2>1 DEF CallSaid
      <4> HIDE DEF others
      <4> QED
        BY <2>1, <4>2, <4>3 DEF m
    <3> HIDE DEF others
    <3> QED
      BY <3>1, <3>2, <3>3
  <2> QED
    BY <2>1, <2>2, <2>3, AgreedChunk
<1>5. CASE ToolsAnswer \/ \E thinks \in BOOLEAN : Answers(thinks)
  <2>1. /\ UNCHANGED <<streamed, cur, log>>
        /\ Len(messages') \in Nat /\ Len(messages) < Len(messages')
        /\ \A i \in DOMAIN messages : messages'[i] = messages[i]
    BY <1>5, SkippedStep
  <2>2. Concat(Texts') = Concat(Texts)
    <3>1. PICK p, grown : p = messages /\ grown = messages'
      OBVIOUS
    <3>2. /\ p \in Seq(ChatMessage) /\ grown \in Seq(ChatMessage) /\ Len(p) <= Len(grown)
          /\ streamed \subseteq DOMAIN p /\ \A i \in DOMAIN p : grown[i] = p[i]
      BY <1>1, <1>2, <2>1, <3>1
    <3>3. Concat(TextsOf(grown, streamed)) = Concat(TextsOf(p, streamed))
      BY <3>2, TextsLonger
    <3> QED
      BY <2>1, <3>1, <3>3 DEF Texts
  <2>3. CallSaid' = CallSaid
    <3>1. \A i \in streamed : messages'[i] = messages[i]
      BY <1>1, <2>1
    <3> QED
      BY <2>1, <3>1 DEF CallSaid
  <2>4. CallSent' = CallSent
    BY <2>1 DEF CallSent, CallEvents
  <2> QED
    BY <2>1, <2>2, <2>3, <2>4 DEF Agreed
<1>6. ASSUME UNCHANGED <<messages, streamed>>,
             \/ log' = log /\ cur' = cur
             \/ \E e \in Reply : /\ Yield(e) /\ e.type \notin {"text", "call"} /\ cur' = cur
      PROVE  Agreed'
  <2>1. Texts' = Texts /\ CallSaid' = CallSaid
    BY <1>6 DEF Texts, CallSaid
  <2>2. CASE log' = log /\ cur' = cur
    BY <2>1, <2>2 DEF Agreed, CallSent, CallEvents
  <2>3. ASSUME NEW e \in Reply, Yield(e), e.type \notin {"text", "call"}, cur' = cur
        PROVE  Agreed'
    <3>1. Bodies("text", log') = Bodies("text", log) \o <<>>
      BY <2>3, BodiesMore
    <3>2. Bodies("text", log) \in Seq(Nat)
      BY BodiesType
    <3>3. Bodies("text", log') = Bodies("text", log)
      BY <3>1, <3>2
    <3>4. CallSent' = CallSent
      BY <2>3, CallSentMore
    <3> QED
      BY <2>1, <2>3, <3>3, <3>4 DEF Agreed
  <2> QED
    BY <1>6, <2>2, <2>3
<1>7. CASE EmitText
  <2> DEFINE e == Delta("text", <<cur.text>>)
  <2>1. /\ Yield(e) /\ cur.text # 0 /\ UNCHANGED <<messages, streamed>>
        /\ cur' = [cur EXCEPT !.text = 0]
    BY <1>7 DEF EmitText, run
  <2>2. cur'.text = 0 /\ cur'.frags = cur.frags /\ cur.text \in Nat
    BY <2>1 DEF TypeOK
  <2>3. <<cur.text>> \in Seq(Nat)
    BY <2>2
  <2>4. e \in Reply
    BY <2>3, DeltaType
  <2>5. e.type = "text" /\ e.body = <<cur.text>>
    BY DEF Delta
  <2> HIDE DEF e
  <2>6. Bodies("text", log') = Bodies("text", log) \o <<cur.text>>
    BY <2>1, <2>4, <2>5, BodiesMore
  <2>7. Bodies("text", log) \in Seq(Nat)
    BY BodiesType
  <2>8. Bodies("text", log') \o Token(cur'.text) = Bodies("text", log) \o Token(cur.text)
    <3>1. PICK v : v = Bodies("text", log)
      OBVIOUS
    <3>2. v \o <<cur.text>> \in Seq(Nat)
      BY <2>3, <2>7, <3>1
    <3>3. (v \o <<cur.text>>) \o <<>> = v \o <<cur.text>>
      BY <3>2
    <3> QED
      BY <2>1, <2>2, <2>6, <3>1, <3>3 DEF Token
  <2>9. CallSent' = CallSent
    BY <2>1, <2>5, CallSentMore
  <2>10. Texts' = Texts /\ CallSaid' = CallSaid
    BY <2>1 DEF Texts, CallSaid
  <2> QED
    BY <2>2, <2>8, <2>9, <2>10 DEF Agreed
<1>8. CASE EmitCall
  <2> DEFINE f == Head(cur.frags)
             rest == Tail(cur.frags)
             e == CallDelta
  <2>1. /\ Yield(e) /\ cur.text = 0 /\ cur.frags # <<>>
        /\ UNCHANGED <<messages, streamed>> /\ cur' = [cur EXCEPT !.frags = rest]
    BY <1>8 DEF EmitCall, CallDelta, PopFragment, run
  <2>2. /\ f \in CallFrag /\ f = cur.frags[1] /\ 1 \in DOMAIN cur.frags
        /\ \A j \in DOMAIN rest : j + 1 \in DOMAIN cur.frags /\ rest[j] = cur.frags[j + 1]
    BY <2>1, HeadFrag
  <2>3. e \in Reply /\ e.type = "call" /\ e.body = Token(f.args)
    BY <2>1, CallDeltaType
  <2>4. cur'.text = 0 /\ cur'.frags = rest
    BY <2>1 DEF TypeOK
  <2>5. Tokens(e.body) = {f.args} \ {0}
    <3>1. f.args \in Nat
      BY <2>2 DEF CallFrag
    <3> QED
      BY <2>3, <3>1, TokensToken
  <2>6. /\ DOMAIN cur.frags = 1 .. Len(cur.frags) /\ Len(cur.frags) \in Nat
        /\ DOMAIN rest = 1 .. (Len(cur.frags) - 1)
    <3>1. cur.frags \in Seq(CallFrag)
      BY DEF TypeOK
    <3> QED
      BY <2>1, <3>1
  <2> HIDE DEF e, f, rest
  <2>7. FragTokens(cur.frags) = ({f.args} \ {0}) \cup FragTokens(rest)
    <3>1. ASSUME NEW j \in DOMAIN cur.frags, j # 1
          PROVE  j - 1 \in DOMAIN rest /\ rest[j - 1] = cur.frags[j]
      <4>1. j - 1 \in DOMAIN rest /\ (j - 1) + 1 = j
        BY <2>6, <3>1
      <4> QED
        BY <2>2, <4>1
    <3> QED
      BY <2>2, <3>1 DEF FragTokens
  <2>8. Bodies("text", log') = Bodies("text", log)
    <3>1. Bodies("text", log') = Bodies("text", log) \o <<>>
      BY <2>1, <2>3, BodiesMore
    <3>2. Bodies("text", log) \in Seq(Nat)
      BY BodiesType
    <3> QED
      BY <3>1, <3>2
  <2>9. CallSent' = CallSent \cup ({f.args} \ {0})
    BY <2>1, <2>3, <2>5, CallSentMore
  <2>10. Texts' = Texts /\ CallSaid' = CallSaid
    BY <2>1 DEF Texts, CallSaid
  <2> QED
    BY <2>1, <2>4, <2>7, <2>8, <2>9, <2>10 DEF Agreed
<1>9. CASE Role \/ Finish \/ Done
  <2>1. UNCHANGED <<messages, streamed, cur>>
    BY <1>9 DEF Role, Finish, Done, run
  <2>2. \E e \in Reply : Yield(e) /\ e.type \notin {"text", "call"}
    <3>0. <<>> \in Seq(Nat)
      OBVIOUS
    <3>1. CASE Role \/ Done
      <4>1. Delta("role", <<>>) \in Reply /\ Delta("done", <<>>) \in Reply
        BY <3>0, DeltaType
      <4> QED
        BY <3>1, <4>1 DEF Role, Done, Delta
    <3>2. CASE Finish
      <4> DEFINE e == [Delta("finish", <<>>) EXCEPT !.finish = FinishReason]
      <4>1. FinishReason \in {"stop", "tool_calls"}
        BY DEF FinishReason
      <4>2. e \in Reply
        BY <3>0, <4>1, DeltaType
      <4>3. e.type = "finish"
        BY DEF Delta
      <4>4. Yield(e)
        BY <3>2 DEF Finish
      <4> HIDE DEF e
      <4> QED
        BY <4>2, <4>3, <4>4
    <3> QED
      BY <1>9, <3>1, <3>2
  <2> QED
    BY <1>6, <2>1, <2>2
<1>10. CASE GraphRaises \/ Disconnect \/ UNCHANGED vars
  BY <1>6, <1>10 DEF GraphRaises, Disconnect, vars, run
<1> QED
  BY <1>3, <1>4, <1>5, <1>7, <1>8, <1>9, <1>10 DEF Next, Emit

LEMMA Suffix == ASSUME NEW u \in Seq(Nat), NEW v \in Seq(Nat) PROVE IsSuffix(v, u \o v)
<1>1. PICK k, l, w : k = Len(u) /\ l = Len(v) /\ w = u \o v
  OBVIOUS
<1>2. /\ k \in Nat /\ l \in Nat /\ Len(w) = k + l /\ DOMAIN v = 1 .. l
      /\ \A i \in 1 .. l : w[k + i] = v[i]
  BY <1>1
<1>3. PICK a, b : a = Reverse(v) /\ b = Reverse(w)
  OBVIOUS
<1>4. a = [i \in 1 .. l |-> v[(l - i) + 1]] /\ b = [i \in 1 .. (k + l) |-> w[((k + l) - i) + 1]]
  BY <1>1, <1>2, <1>3 DEF Reverse
<1>5. Len(a) = l /\ Len(b) = k + l
  BY <1>2, <1>4
<1>6. ASSUME NEW i \in 1 .. l PROVE a[i] = b[i]
  <2>1. i \in 1 .. (k + l) /\ (l - i) + 1 \in 1 .. l /\ ((k + l) - i) + 1 = k + ((l - i) + 1)
    BY <1>2
  <2> QED
    BY <1>2, <1>4, <2>1
<1>7. SubSeq(a, 1, l) = [i \in 1 .. l |-> a[i]] /\ SubSeq(b, 1, l) = [i \in 1 .. l |-> b[i]]
  BY <1>2
<1>8. SubSeq(a, 1, Len(a)) = SubSeq(b, 1, Len(a)) /\ Len(a) <= Len(b)
  BY <1>2, <1>5, <1>6, <1>7
<1> QED
  BY <1>1, <1>3, <1>8 DEF IsSuffix, IsPrefix

\* The arguments of the function calls of a Responses answer.
Reported == Tokens(Bodies("function_call", ResponseOutput(messages)))

\* RoutesAgree: whether a run is streamed by the chat route, or answered by the other
\* without, the text is the same and so are the arguments but for those that LangChain
\* could not read, when only models answer.
THEOREM ChatRoutesAgree == Spec => []RoutesAgree
<1>1. TypeOK /\ FinishInv /\ Account /\ Agreed => RoutesAgree
  <2> SUFFICES ASSUME TypeOK, FinishInv, Account, Agreed, IsOver,
                      \A n \in DOMAIN messages : messages[n].role = "assistant" => n \in streamed
               PROVE  /\ Bodies("text", log) = Bodies("message", ResponseOutput(messages))
                      /\ Reported \subseteq Tokens(Bodies("call", log))
                      /\ Tokens(Bodies("call", log)) \subseteq Reported \cup Unread
                      /\ Len(messages) \in streamed =>
                           IsSuffix(ChatAnswer(messages).text, Bodies("text", log))
    BY DEF RoutesAgree, Reported
  <2>1. /\ Len(messages) \in Nat \ {0} /\ DOMAIN messages = 1 .. Len(messages)
        /\ Latest = messages[Len(messages)] /\ Latest.text \in Seq(Nat)
        /\ \A n \in DOMAIN messages : messages[n] \in ChatMessage
        /\ messages \in Seq(ChatMessage) /\ messages # <<>> /\ streamed \subseteq DOMAIN messages
    BY LatestType DEF TypeOK
  <2>2. \A n \in DOMAIN messages : messages[n].role = "assistant" <=> n \in streamed
    BY <2>1 DEF FinishInv, Roles
  <2>3. Spent
    BY DEF Account, IsOver
  <2>4. Bodies("text", log) \in Seq(Nat) /\ Bodies("call", log) \in Seq(Nat)
    BY BodiesType
  <2>5. Token(cur.text) = <<>> /\ FragTokens(cur.frags) = {}
    <3>1. cur.text = 0 /\ cur.frags = <<>>
      BY <2>3 DEF Spent
    <3>2. DOMAIN cur.frags = {}
      BY <3>1
    <3> QED
      BY <3>1, <3>2 DEF Token, FragTokens
  <2>6. Bodies("text", log) = Concat(Texts) /\ CallSaid = CallSent
    <3>1. Bodies("text", log) \o <<>> = Bodies("text", log)
      BY <2>4
    <3> QED
      BY <2>5, <3>1 DEF Agreed
  <2>7. Bodies("text", log) = Bodies("message", ResponseOutput(messages))
    <3>1. \A n \in DOMAIN messages :
            Flat(Said("message"), ItemsOf(messages[n])) = IF n \in streamed THEN messages[n].text ELSE <<>>
      BY <2>1, <2>2, AssistantSaid, OthersSaid
    <3>2. [n \in DOMAIN messages |-> Flat(Said("message"), ItemsOf(messages[n]))] = Texts
      BY <3>1 DEF Texts, TextsOf
    <3> QED
      BY <2>6, <3>2, OutputSaid
  <2>8. Reported = UNION {ArgTokens(ToolCalls(messages[n])) : n \in streamed}
    <3>1. PICK ss : ss = [n \in DOMAIN messages |-> Flat(Said("function_call"), ItemsOf(messages[n]))]
      OBVIOUS
    <3>2. \A n \in DOMAIN messages : Flat(Said("function_call"), ItemsOf(messages[n])) \in Seq(Nat)
      <4>1. PICK b : b = Said("function_call")
        OBVIOUS
      <4>2. b \in Renders(ChatItem, Nat)
        BY <4>1, SaidType
      <4>3. \A s, t \in Seq(ChatItem) : Flat(b, s) \in Seq(Nat)
        BY <4>2, FlatJoin
      <4>4. \A n \in DOMAIN messages : ItemsOf(messages[n]) \in Seq(ChatItem)
        BY <2>1, ItemsOfType
      <4> QED
        BY <4>1, <4>3, <4>4
    <3>3. ss \in [1 .. Len(messages) -> Seq(Nat)]
      BY <2>1, <3>1, <3>2
    <3>4. ss \in Seq(Seq(Nat)) /\ DOMAIN ss = DOMAIN messages
      BY <2>1, <3>3
    <3>5. Tokens(Concat(ss)) = UNION {Tokens(ss[n]) : n \in DOMAIN messages}
      BY <3>4, ConcatTokens
    <3>6. \A n \in DOMAIN messages :
            Tokens(ss[n]) = IF n \in streamed THEN ArgTokens(ToolCalls(messages[n])) ELSE {}
      <4>1. DOMAIN <<>> = {}
        OBVIOUS
      <4>2. Tokens(<<>>) = {}
        BY <4>1 DEF Tokens
      <4> QED
        BY <2>1, <2>2, <3>1, <4>2, AssistantSaid, OthersSaid
    <3>7. UNION {Tokens(ss[n]) : n \in DOMAIN messages}
            = UNION {ArgTokens(ToolCalls(messages[n])) : n \in streamed}
      BY <2>1, <3>6
    <3>8. Bodies("function_call", ResponseOutput(messages)) = Concat(ss)
      BY <3>1, OutputSaid
    <3> QED
      BY <3>5, <3>7, <3>8 DEF Reported
  <2>9. Tokens(Bodies("call", log)) = CallSent
    <3>1. PICK ss : ss = [i \in DOMAIN log |-> IF log[i].type = "call" THEN Content(log[i]) ELSE <<>>]
      OBVIOUS
    <3>2. log \in Seq(Reply)
      BY DEF TypeOK
    <3>3. DOMAIN log = 1 .. Len(log) /\ Len(log) \in Nat /\ \A i \in DOMAIN log : log[i] \in Reply
      BY <3>2
    <3>4. \A i \in DOMAIN log : Content(log[i]) = log[i].body /\ log[i].body \in Seq(Nat)
      BY <3>3, ReplyContent
    <3>5. ss \in [1 .. Len(log) -> Seq(Nat)]
      BY <3>1, <3>3, <3>4
    <3>6. ss \in Seq(Seq(Nat)) /\ DOMAIN ss = DOMAIN log
      BY <3>3, <3>5
    <3>7. Tokens(Concat(ss)) = UNION {Tokens(ss[i]) : i \in DOMAIN log}
      BY <3>6, ConcatTokens
    <3>8. \A i \in DOMAIN log : Tokens(ss[i]) = IF i \in CallEvents THEN Tokens(log[i].body) ELSE {}
      <4>1. DOMAIN <<>> = {}
        OBVIOUS
      <4>2. Tokens(<<>>) = {}
        BY <4>1 DEF Tokens
      <4> QED
        BY <3>1, <3>4, <4>2 DEF CallEvents
    <3>9. UNION {Tokens(ss[i]) : i \in DOMAIN log} = CallSent
      BY <3>8 DEF CallSent, CallEvents
    <3> QED
      BY <3>1, <3>7, <3>9 DEF Bodies
  <2>10. Reported \subseteq CallSent /\ CallSent \subseteq Reported \cup Unread
    <3>1. \A n \in streamed :
            /\ n \in DOMAIN messages
            /\ ArgTokens(ToolCalls(messages[n])) \subseteq ArgTokens(messages[n].calls)
            /\ ArgTokens(messages[n].calls)
                 \subseteq ArgTokens(ToolCalls(messages[n])) \cup UnreadOf(messages[n])
      BY <2>1, ArgsRead
    <3>2. \A n \in streamed : ArgTokens(messages[n].calls) \subseteq Reported \cup Unread
      BY <2>8, <3>1 DEF Unread
    <3>3. CallSaid \subseteq Reported \cup Unread
      BY <3>2 DEF CallSaid
    <3>4. Reported \subseteq CallSaid
      BY <2>8, <3>1 DEF CallSaid
    <3> QED
      BY <2>6, <3>3, <3>4
  <2>11. ASSUME Len(messages) \in streamed
         PROVE  IsSuffix(ChatAnswer(messages).text, Bodies("text", log))
    <3>1. ChatAnswer(messages).text = Latest.text
      BY <2>1 DEF ChatAnswer, ResultText, Latest
    <3>2. PICK tt, front : tt = Texts /\ front = [i \in 1 .. (Len(tt) - 1) |-> tt[i]]
      OBVIOUS
    <3>3. tt \in Seq(Seq(Nat)) /\ Len(tt) = Len(messages) /\ tt[Len(messages)] = Latest.text
      BY <2>1, <2>11, <3>2, TextsType DEF Texts
    <3>4. Concat(tt) = Concat(front) \o tt[Len(tt)] /\ Concat(front) \in Seq(Nat)
      BY <2>1, <3>2, <3>3, ConcatLast
    <3>5. PICK u, v : u = Concat(front) /\ v = Latest.text
      OBVIOUS
    <3>6. IsSuffix(v, u \o v)
      BY <2>1, <3>4, <3>5, Suffix
    <3> QED
      BY <2>6, <3>1, <3>2, <3>3, <3>4, <3>5, <3>6
  <2> QED
    BY <2>7, <2>9, <2>10, <2>11
<1>2. Init => TypeOK /\ FinishInv /\ Account /\ Agreed
  BY InitType, FinishInit, AccountInit, AgreedInit
<1>3. TypeOK /\ FinishInv /\ Account /\ Agreed /\ [Next]_vars
        => TypeOK' /\ FinishInv' /\ Account' /\ Agreed'
  BY TypeStep, FinishStep, AccountStep, AgreedStep
<1> QED
  BY <1>1, <1>2, <1>3, PTL DEF Spec
=============================================================================
