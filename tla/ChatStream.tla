----------------------------- MODULE ChatStream -----------------------------
(***************************************************************************)
(* chat_completion_chunks of adapters/chat.py: the generator behind        *)
(* POST /v1/chat/completions with stream=true, together with the graph run *)
(* it reads and the answer routes/chat.py gives to the same run when it is *)
(* not streamed.                                                           *)
(*                                                                         *)
(* The run adds messages to the state of its graph.  Of a model's answer   *)
(* it delivers AIMessageChunks as they are produced; the results of tools, *)
(* and answers a node composes without a model, it delivers as whole       *)
(* messages of other classes.  One step yields one chunk of the answer, as *)
(* in AstreamEmitter.                                                      *)
(***************************************************************************)
EXTENDS MessageItems, SequencesExt

CONSTANTS
  Chunks,       \* the kinds of chunk a model may deliver, see ChunkKind
  Composes,     \* nodes may answer without a model
  MaxChunks,    \* bound: chunks delivered in one run
  MaxMessages   \* bound: messages, the user's included

ASSUME ChatChunksAssumption == \A c \in Chunks : c \in ChunkKind({c.node}) /\ c.ai
ASSUME ChatBoundsAssumption ==
  MaxChunks \in Nat /\ MaxMessages \in Nat \ {0} /\ Composes \in BOOLEAN
ASSUME NoneIsNoCall == None \notin Nat \X Nat

VARIABLES
  pc,         \* where the generator is
  messages,   \* the messages of the graph's state
  streamed,   \* history: which of them are delivered in chunks
  late,       \* history: which of them have text after a piece of a call
  delivered,  \* history: chunks delivered
  fed,        \* the last token handed out
  cur,        \* what is left to process of the last chunk
  pending,    \* pending_tool_call
  toolIndex,  \* tool_index
  nextIndex,  \* next_index
  log         \* the chunks yielded

run == <<messages, streamed, late, delivered, fed>>
vars == <<pc, run, cur, pending, toolIndex, nextIndex, log>>

-----------------------------------------------------------------------------
(* What is yielded.  History: a call delta is of an upstream call.         *)

Delta(t, body) ==
  [type |-> t, idx |-> None, call |-> None, body |-> body, finish |-> None, of |-> None]
BugYield(e) == log' = IF e.type = "done" THEN log ELSE Append(log, e)
Yield(e) == log' = Append(log, e)

Spent == cur.text = 0 /\ cur.frags = <<>>
Waiting == pc = "stream" /\ Spent
Latest == LastMessage(messages)

-----------------------------------------------------------------------------
(* The run.                                                                *)

NewMessage(role, text) == Message(Len(messages) + 1, role, text)

Init ==
  /\ pc = "start"
  /\ messages = <<Message(1, "user", <<1>>)>>
  /\ streamed = {} /\ late = {} /\ delivered = 0 /\ fed = 1
  /\ cur = Nothing
  /\ pending = FALSE /\ toolIndex = <<>> /\ nextIndex = 0
  /\ log = <<>>

\* Chunk k of message n: a provider gives every call an id of its own.
Deliver(k, n) ==
  LET c == Fill(k, fed)
  IN [c EXCEPT !.frags = [j \in DOMAIN c.frags |->
       [c.frags[j] EXCEPT !.id = IF c.frags[j].id = None THEN None ELSE <<n, c.frags[j].id>>]]]

Receive(c, grown) ==
  /\ Waiting /\ delivered < MaxChunks
  /\ delivered' = delivered + 1 /\ fed' = fed + 2 + Len(c.frags)
  /\ messages' = grown
  /\ cur' = [Contents(c) EXCEPT !.reasoning = 0]
  /\ UNCHANGED <<pc, pending, toolIndex, nextIndex, log>>

\* A model starts to answer, or goes on.
StartsAnswer(k) ==
  /\ Len(messages) < MaxMessages
  /\ LET n == Len(messages) + 1
         c == Deliver(k, n)
     IN /\ Receive(c, Append(messages, AddChunk(NewMessage("assistant", <<>>), c, TRUE)))
        /\ streamed' = streamed \cup {n} /\ UNCHANGED late

GoesOn(k) ==
  /\ Len(messages) \in streamed
  /\ LET n == Len(messages)
         c == Deliver(k, n)
     IN /\ Receive(c, [messages EXCEPT ![n] = AddChunk(@, c, FALSE)])
        /\ late' = IF c.text # 0 /\ Latest.calls # <<>> THEN late \cup {n} ELSE late
        /\ UNCHANGED streamed

\* A message that is no AIMessageChunk is skipped.
Skipped(more) ==
  /\ Waiting
  /\ Len(messages) + Len(more) <= MaxMessages
  /\ messages' = messages \o more /\ fed' = fed + Len(more)
  /\ UNCHANGED <<pc, streamed, late, delivered, cur, pending, toolIndex, nextIndex, log>>

\* The graph executes the tools the last message asks for.
ToolsAnswer ==
  /\ ToolCalls(Latest) # <<>>
  /\ Skipped([i \in DOMAIN ToolCalls(Latest) |->
       [NewMessage("tool", <<fed + i>>) EXCEPT
          !.id = Len(messages) + i, !.answers = ToolCalls(Latest)[i].id]])

\* A node answers without a model, and may say what it thought.
Answers(thinks) ==
  /\ Composes
  /\ Skipped(<<[NewMessage("assistant", <<fed + 1>>) EXCEPT
                  !.thought = IF thinks THEN <<fed + 1>> ELSE None]>>)

-----------------------------------------------------------------------------
(* The generator.                                                          *)

Role ==
  /\ pc = "start" /\ pc' = "stream"
  /\ Yield(Delta("role", <<>>))
  /\ UNCHANGED <<run, cur, pending, toolIndex, nextIndex>>

\* Text after a call: the agent handled the call.
EmitText ==
  /\ pc = "stream" /\ cur.text # 0
  /\ cur' = [cur EXCEPT !.text = 0]
  /\ pending' = FALSE
  /\ Yield(Delta("text", <<cur.text>>))
  /\ UNCHANGED <<pc, run, toolIndex, nextIndex>>

\* The fragment's own index, or else the one its id has, or else the next.
BugKeyFor(f) == <<"pos", nextIndex, 0>>
KeyFor(f) == IF f.id # None THEN <<"id", f.id[1], f.id[2]>> ELSE <<"pos", nextIndex, 0>>
IndexFor(f) ==
  IF f.index # None THEN f.index
  ELSE IF KeyFor(f) \in DOMAIN toolIndex THEN toolIndex[KeyFor(f)]
  ELSE nextIndex

\* tool_index.setdefault: what is there stays.
SetDefault(key, idx) ==
  [x \in DOMAIN toolIndex \cup {key} |-> IF x \in DOMAIN toolIndex THEN toolIndex[x] ELSE idx]

\* next_index is above every index used.
BugNextAfter(idx) == IF idx > nextIndex THEN idx + 1 ELSE nextIndex
NextAfter(idx) == IF idx >= nextIndex THEN idx + 1 ELSE nextIndex

\* Where fragment f of the last message comes from: message, call, with an index?
Origin(f) ==
  [message |-> Len(messages), call |-> IF f.origin = 0 THEN -Len(log) ELSE f.origin,
   indexed |-> f.index # None]

BugPopFragment == cur' = [cur EXCEPT !.frags = <<>>]
PopFragment == cur' = [cur EXCEPT !.frags = Tail(@)]

EmitCall ==
  /\ pc = "stream" /\ cur.text = 0 /\ cur.frags # <<>>
  /\ pending' = TRUE
  /\ LET f == Head(cur.frags)
         idx == IndexFor(f)
     IN /\ toolIndex' = IF f.index # None THEN toolIndex ELSE SetDefault(KeyFor(f), idx)
        /\ nextIndex' = NextAfter(idx)
        /\ Yield([Delta("call", Token(f.args)) EXCEPT
                    !.idx = idx, !.call = f.id, !.of = Origin(f)])
  /\ PopFragment
  /\ UNCHANGED <<pc, run>>

\* The run is over: the async for ends.
BugFinishReason == IF nextIndex > 0 THEN "tool_calls" ELSE "stop"
FinishReason == IF pending THEN "tool_calls" ELSE "stop"

Finish ==
  /\ Waiting
  /\ pc' = "finished"
  /\ Yield([Delta("finish", <<>>) EXCEPT !.finish = FinishReason])
  /\ UNCHANGED <<run, cur, pending, toolIndex, nextIndex>>

Done ==
  /\ pc = "finished" /\ pc' = "end"
  /\ Yield(Delta("done", <<>>))
  /\ UNCHANGED <<run, cur, pending, toolIndex, nextIndex>>

\* The run raises, and nothing catches it: the stream breaks off.
GraphRaises ==
  /\ Waiting
  /\ pc' = "broken"
  /\ UNCHANGED <<run, cur, pending, toolIndex, nextIndex, log>>

\* The client goes away: the generator is closed or cancelled where it stands.
Disconnect ==
  /\ pc \notin {"end", "broken", "gone"}
  /\ pc' = "gone"
  /\ UNCHANGED <<run, cur, pending, toolIndex, nextIndex, log>>

-----------------------------------------------------------------------------
Emit ==
  \/ \E k \in Chunks : StartsAnswer(k) \/ GoesOn(k)
  \/ ToolsAnswer
  \/ \E thinks \in BOOLEAN : Answers(thinks)
  \/ Role \/ EmitText \/ EmitCall \/ Finish \/ Done \/ GraphRaises

Next == Emit \/ Disconnect

Spec == Init /\ [][Next]_vars

\* The event loop resumes the generator as long as the client reads, and a run
\* delivers, ends or raises.
FairSpec == Spec /\ WF_vars(Emit)

-----------------------------------------------------------------------------
(* Properties.                                                             *)

\* The variables have their types; every index assigned is below next_index.
CallId == Nat \X Nat
Call == [origin : Nat, index : Nat \cup {None}, id : CallId \cup {None}, args : Seq(Nat),
         object : BOOLEAN]
ChatMessage ==
  [id : Nat, role : {"user", "assistant", "tool"}, text : Seq(Nat), calls : Seq(Call),
   thought : Seq(Nat) \cup {None}, blocks : Seq(Seq(Nat)), answers : CallId \cup {None}]
CallFrag == [index : Nat \cup {None}, id : CallId \cup {None}, args : Nat, origin : Nat]
Reply == [type : {"role", "text", "call", "finish", "done"}, idx : Nat \cup {None},
          call : CallId \cup {None}, body : Seq(Nat), finish : {"stop", "tool_calls", None},
          of : [message : Nat, call : Int, indexed : BOOLEAN] \cup {None}]
TypeOK ==
  /\ pc \in {"start", "stream", "finished", "end", "broken", "gone"}
  /\ messages \in Seq(ChatMessage) /\ messages # <<>>
  /\ streamed \subseteq DOMAIN messages /\ late \subseteq streamed
  /\ {delivered, fed, nextIndex} \subseteq Nat /\ pending \in BOOLEAN
  /\ cur \in [reasoning : {0}, text : Nat, frags : Seq(CallFrag)]
  /\ DOMAIN toolIndex \subseteq {"id", "pos"} \X Nat \X Nat
  /\ toolIndex \in [DOMAIN toolIndex -> 0 .. (nextIndex - 1)]
  /\ log \in Seq(Reply)

\* The stream is one a chat client can read: role, deltas, one finish chunk whose
\* reason is that of the last delta, [DONE], and nothing after (chat.py 33-34,
\* 99-105).
Stream == INSTANCE ChatProtocol WITH stream <- log
Protocol == Stream!Spec

Tokens(s) == {s[i] : i \in DOMAIN s}
IsOver == pc = "end"

\* What models say and the arguments of their calls reach the client in the order
\* they were produced, each once; what tools, users and nodes say, and what models
\* think, never does; and with [DONE] nothing is missing (chat.py 67-97).
OfModel(m) == Tokens(m.text) \cup UNION {Tokens(m.calls[n].args) : n \in DOMAIN m.calls}
Spoken == UNION {OfModel(messages[n]) : n \in streamed}
Deltas == {i \in DOMAIN log : log[i].type \in {"text", "call"}}
Sent == UNION {Tokens(log[i].body) : i \in Deltas}
Faithful ==
  /\ \A i, j \in Deltas : i < j =>
       \A x \in Tokens(log[i].body), y \in Tokens(log[j].body) : x < y
  /\ Sent \subseteq Spoken
  /\ IsOver => Spoken \subseteq Sent

Pieces == UNION {{k.frags[j] : j \in DOMAIN k.frags} : k \in Chunks}
Coherent == Followable(Pieces)

\* "OpenAI deltas correlate fragments by a stable integer index" (chat.py 78): two
\* deltas have the same index exactly when they are of the same call, as long as
\* the provider numbers all calls of the message, or none of the whole run.
Numbered(n) == {e.of.indexed : e \in {log[i] : i \in {j \in DOMAIN log :
                  log[j].type = "call" /\ log[j].of.message \in n}}}
CallsApart ==
  \A i, j \in {k \in DOMAIN log : log[k].type = "call"} :
    LET a == log[i].of
        b == log[j].of
    IN (\/ a.message = b.message /\ Numbered({a.message}) # BOOLEAN
        \/ Numbered(DOMAIN messages) = {FALSE})
         => (log[i].idx = log[j].idx <=> a = b)

\* Streamed or not, the client is told alike whether it has to execute a tool,
\* when the run ends with a model's answer that says or asks for something, says it
\* first and does not only ask what LangChain cannot read, and when no model answered
\* at all.
Concludes ==
  \/ /\ Len(messages) \in streamed \ late
     /\ IF Latest.calls = <<>> THEN Latest.text # <<>> ELSE ToolCalls(Latest) # <<>>
  \/ Len(messages) = 1
FinishMatches ==
  Concludes => \A i \in DOMAIN log :
    log[i].type = "finish" => log[i].finish = ChatAnswer(messages).finish

\* The routes agree on a run in which only models answer: the text of a chat
\* stream is that of the message items of the Responses API; its function calls have
\* no other arguments than those streamed, and lack none but what LangChain could not
\* read as an object; and the chat answer that is not streamed is where the stream
\* ends (chat.py 67-97, responses.py 118-158).
Content(x) == IF x.type = "function_call" THEN x.body.object ELSE x.body
Bodies(type, list) ==
  Concat([i \in DOMAIN list |-> IF list[i].type = type THEN Content(list[i]) ELSE <<>>])
UnreadOf(m) == UNION {Tokens(m.calls[n].args) : n \in {k \in DOMAIN m.calls : ~m.calls[k].object}}
Unread == UNION {UnreadOf(messages[n]) : n \in DOMAIN messages}
RoutesAgree ==
  (IsOver /\ \A n \in DOMAIN messages : messages[n].role = "assistant" => n \in streamed)
    => /\ Bodies("text", log) = Bodies("message", ResponseOutput(messages))
       /\ LET reported == Tokens(Bodies("function_call", ResponseOutput(messages)))
              sent == Tokens(Bodies("call", log))
          IN reported \subseteq sent /\ sent \subseteq reported \cup Unread
       /\ Len(messages) \in streamed => IsSuffix(ChatAnswer(messages).text, Bodies("text", log))

\* No two items of a conversation have the same id, so a client can tell them apart,
\* but for the reasoning items of a message with several thinking blocks, the calls of
\* one whose provider gives them no id, and those that LangChain keeps of one upstream
\* call whose pieces it does not join (responses.py 61-74, 118-142).
Parted(id) ==
  \E n \in DOMAIN messages : \E a, b \in DOMAIN messages[n].calls :
    LET c == messages[n].calls[a]
        d == messages[n].calls[b]
    IN a # b /\ c.id = id /\ d.id = id /\ c.origin = d.origin /\ c.origin # 0
ItemIdsUnique ==
  LET items == ItemList(messages)
  IN \A i, j \in DOMAIN items :
       (i # j /\ items[i].id = items[j].id) =>
         /\ items[i].type = items[j].type
         /\ \/ items[i].type = "reasoning"
            \/ items[i].type = "function_call" /\ (items[i].call = None \/ Parted(items[i].call))

\* A page that does not say there is more is everything there is, whatever the
\* limit, zero and the exact number of items included (routes/responses.py 200-206).
PageHonest ==
  LET items == ItemList(messages)
  IN \A limit \in 0 .. (Len(items) + 1) :
       Page(items, limit).more \/ Page(items, limit).data = items

\* Unless the client goes away or the run raises, every stream is ended by [DONE].
Answered == <>((\E i \in DOMAIN log : log[i].type = "done") \/ pc \in {"broken", "gone"})

\* "finish_reason="tool_calls" only when the stream ended mid-tool-call (i.e. the
\* client is expected to execute the tool)" (chat.py 99-100), and the client is
\* expected to when the answer that is not streamed would ask it to.
OnlyPendingCalls ==
  (\E i \in DOMAIN log : log[i].type = "finish" /\ log[i].finish = "tool_calls")
    => ChatAnswer(messages).finish = "tool_calls"
=============================================================================
