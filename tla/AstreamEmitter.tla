--------------------------- MODULE AstreamEmitter ---------------------------
(***************************************************************************)
(* emit_response_sse_from_astream of adapters/responses.py: the generator  *)
(* behind POST /v1/responses with stream=true.  It reads the message       *)
(* chunks a LangGraph run delivers and yields Responses API events.        *)
(*                                                                         *)
(* One step yields one event, because the generator is suspended at every  *)
(* yield and may be abandoned there; what the code does up to the next     *)
(* yield belongs to the step.  Numbers stand for identifiers: the message  *)
(* item is 0, the n-th function call opened is item n.                     *)
(***************************************************************************)
EXTENDS ResponseEvents, FiniteSets

CONSTANTS
  Chunks,           \* the kinds of chunk the graph may deliver, see ChunkKind
  StreamableNodes,  \* streamable_node_names: a set of nodes, or None
  MaxChunks         \* bound: chunks delivered in one run

ASSUME ChunksAssumption ==
  \A c \in Chunks : c \in ChunkKind({c.node})
ASSUME MaxChunksAssumption == MaxChunks \in Nat

VARIABLES
  pc,         \* where the generator is
  source,     \* history: the chunks delivered, with their tokens
  fed,        \* the last token handed out
  cur,        \* what is left to process of the last accepted chunk
  message,    \* current_message: its output_index (-1: not opened) and text
  calls,      \* function_calls, in insertion order
  nextIndex,  \* builder.next_output_index
  closed,     \* calls whose closing events have been yielded
  output,     \* completed_output
  log         \* the events yielded; sequence_number is the position less one

vars == <<pc, source, fed, cur, message, calls, nextIndex, closed, output, log>>

-----------------------------------------------------------------------------
(* Events.                                                                 *)

BugOfMessage(t, body) == About(t, 0, nextIndex, None, body)
OfMessage(t, body) == About(t, 0, message.idx, None, body)
BugOfCall(t, n, c, body) == About(t, n, c.idx, IF t = "item.added" THEN None ELSE c.call, body)
OfCall(t, n, c, body) == About(t, n, c.idx, c.call, body)
BugArgsDelta(n, f) == About("args.delta", n, calls[n].idx, None, calls[n].args \o <<f.args>>)
ArgsDelta(n, f) == About("args.delta", n, calls[n].idx, None, <<f.args>>)

\* builder.event: the event takes the next sequence number.
BugYield(e) == log' = IF e.type = "failed" THEN log ELSE Append(log, e)
Yield(e) == log' = Append(log, e)

-----------------------------------------------------------------------------
(* The chunk being processed.                                              *)

Spent == cur = Nothing

\* The emitter looks at the chunk: it is an AIMessageChunk, and the node list,
\* when there is a non-empty one, names its node.
BugAccepts(k) == k.ai
Accepts(k) ==
  /\ k.ai
  /\ \/ StreamableNodes \in {None, {}}
     \/ k.node \in StreamableNodes

\* function_calls.get(key) finds a call.  The n-th call may use n as its own key.
OwnKey(f) == KeyOf(f, Len(calls) + 1)
KnownKey(f) == \E n \in DOMAIN calls : calls[n].key = OwnKey(f)

-----------------------------------------------------------------------------
Init ==
  /\ pc = "start"
  /\ source = <<>> /\ fed = 0 /\ cur = Nothing
  /\ message = [idx |-> -1, text |-> <<>>]
  /\ calls = <<>> /\ nextIndex = 0 /\ closed = 0
  /\ output = <<>> /\ log = <<>>

Created ==
  /\ pc = "start" /\ pc' = "begun"
  /\ Yield(Plain("created"))
  /\ UNCHANGED <<source, fed, cur, message, calls, nextIndex, closed, output>>

InProgress ==
  /\ pc = "begun" /\ pc' = "stream"
  /\ Yield(Plain("in_progress"))
  /\ UNCHANGED <<source, fed, cur, message, calls, nextIndex, closed, output>>

\* The async for resumes with a chunk; one the emitter ignores is dropped.
NextChunk(k) ==
  /\ pc = "stream" /\ Spent
  /\ Len(source) < MaxChunks
  /\ source' = Append(source, Fill(k, fed))
  /\ fed' = fed + 2 + Len(k.frags)
  /\ cur' = IF Accepts(k) THEN Contents(Fill(k, fed)) ELSE Nothing
  /\ UNCHANGED <<pc, message, calls, nextIndex, closed, output, log>>

\* Reasoning is passed on under the message's id, opened or not.
EmitReasoning ==
  /\ pc = "stream" /\ cur.reasoning # 0
  /\ cur' = [cur EXCEPT !.reasoning = 0]
  /\ Yield(About("reasoning.delta", 0, None, None, <<cur.reasoning>>))
  /\ UNCHANGED <<pc, source, fed, message, calls, nextIndex, closed, output>>

\* The first text opens the message, in two events.
OpenMessage ==
  /\ pc = "stream" /\ cur.reasoning = 0 /\ cur.text # 0
  /\ message.idx = -1
  /\ message' = [message EXCEPT !.idx = nextIndex]
  /\ nextIndex' = nextIndex + 1
  /\ pc' = "part"
  /\ Yield(About("item.added", 0, nextIndex, None, <<>>))
  /\ UNCHANGED <<source, fed, cur, calls, closed, output>>

AddPart ==
  /\ pc = "part" /\ pc' = "stream"
  /\ Yield(OfMessage("part.added", <<>>))
  /\ UNCHANGED <<source, fed, cur, message, calls, nextIndex, closed, output>>

EmitText ==
  /\ pc = "stream" /\ cur.reasoning = 0 /\ cur.text # 0
  /\ message.idx # -1
  /\ message' = [message EXCEPT !.text = Append(@, cur.text)]
  /\ cur' = [cur EXCEPT !.text = 0]
  /\ Yield(OfMessage("text.delta", <<cur.text>>))
  /\ UNCHANGED <<pc, source, fed, calls, nextIndex, closed, output>>

\* The next fragment of the chunk, once its reasoning and text are out.
BugAtFragment ==
  /\ pc = "stream" /\ cur.reasoning = 0
  /\ cur.frags # <<>>

AtFragment ==
  /\ pc = "stream" /\ cur.reasoning = 0 /\ cur.text = 0
  /\ cur.frags # <<>>

BugPopFragment == cur' = [cur EXCEPT !.frags = <<>>]
PopFragment == cur' = [cur EXCEPT !.frags = Tail(@)]

\* A key not seen before opens a call; a call without an id gets one.
StartCall ==
  /\ AtFragment
  /\ LET f == Head(cur.frags)
         c == [key |-> OwnKey(f), idx |-> nextIndex,
               call |-> IdOf(f, -(Len(calls) + 1)), args |-> <<>>]
     IN /\ ~KnownKey(f)
        /\ calls' = Append(calls, c)
        /\ Yield(OfCall("item.added", Len(calls) + 1, c, <<>>))
        /\ IF f.args # 0 THEN pc' = "args" /\ UNCHANGED cur
                         ELSE PopFragment /\ UNCHANGED pc
  /\ nextIndex' = nextIndex + 1
  /\ UNCHANGED <<source, fed, message, closed, output>>

\* The arguments that came with the fragment that opened the call.
EmitArgs ==
  /\ pc = "args" /\ pc' = "stream"
  /\ LET f == Head(cur.frags)
         n == Len(calls)
     IN /\ calls' = [calls EXCEPT ![n].args = Append(@, f.args)]
        /\ Yield(ArgsDelta(n, f))
  /\ PopFragment
  /\ UNCHANGED <<source, fed, message, nextIndex, closed, output>>

\* A later fragment of call n may replace its id, and adds its arguments.
ContinueCall(n) ==
  /\ AtFragment
  /\ LET f == Head(cur.frags)
     IN /\ calls[n].key = OwnKey(f)
        /\ IF f.args # 0
           THEN /\ calls' = [calls EXCEPT ![n].call = IdOf(f, @),
                                          ![n].args = Append(@, f.args)]
                /\ Yield(ArgsDelta(n, f))
           ELSE /\ calls' = [calls EXCEPT ![n].call = IdOf(f, @)]
                /\ UNCHANGED log
  /\ PopFragment
  /\ UNCHANGED <<pc, source, fed, message, nextIndex, closed, output>>

\* The run is over: the async for ends.
EndOfStream ==
  /\ pc = "stream" /\ Spent
  /\ pc' = "closing"
  /\ UNCHANGED <<source, fed, cur, message, calls, nextIndex, closed, output, log>>

\* The run raises: except Exception turns it into a failed response.
GraphRaises ==
  /\ pc = "stream" /\ Spent
  /\ pc' = "end"
  /\ Yield(Plain("failed"))
  /\ UNCHANGED <<source, fed, cur, message, calls, nextIndex, closed, output>>

\* for fc in function_calls.values(): two events close each call.
CloseArgs ==
  /\ pc = "closing" /\ closed < Len(calls)
  /\ LET c == calls[closed + 1]
     IN Yield(OfCall("args.done", closed + 1, c, c.args))
  /\ pc' = "close_call"
  /\ UNCHANGED <<source, fed, cur, message, calls, nextIndex, closed, output>>

CloseCall ==
  /\ pc = "close_call"
  /\ LET c == calls[closed + 1]
     IN /\ output' = Append(output, [item |-> closed + 1, call |-> c.call, body |-> c.args])
        /\ Yield(OfCall("item.done", closed + 1, c, c.args))
  /\ closed' = closed + 1
  /\ pc' = "closing"
  /\ UNCHANGED <<source, fed, cur, message, calls, nextIndex>>

\* Then three events close the message, if it was opened.
CloseText ==
  /\ pc = "closing" /\ closed = Len(calls) /\ message.idx # -1
  /\ Yield(OfMessage("text.done", message.text))
  /\ pc' = "close_part"
  /\ UNCHANGED <<source, fed, cur, message, calls, nextIndex, closed, output>>

ClosePart ==
  /\ pc = "close_part"
  /\ Yield(OfMessage("part.done", message.text))
  /\ pc' = "close_message"
  /\ UNCHANGED <<source, fed, cur, message, calls, nextIndex, closed, output>>

CloseMessage ==
  /\ pc = "close_message"
  /\ output' = Append(output, [item |-> 0, call |-> None, body |-> message.text])
  /\ Yield(OfMessage("item.done", message.text))
  /\ pc' = "complete"
  /\ UNCHANGED <<source, fed, cur, message, calls, nextIndex, closed>>

Complete ==
  /\ \/ pc = "closing" /\ closed = Len(calls) /\ message.idx = -1
     \/ pc = "complete"
  /\ Yield([Plain("completed") EXCEPT !.output = output])
  /\ pc' = "end"
  /\ UNCHANGED <<source, fed, cur, message, calls, nextIndex, closed, output>>

\* The client goes away: the generator is closed or cancelled where it stands,
\* and neither is an Exception, so nothing more is yielded.
Disconnect ==
  /\ pc \notin {"end", "gone"}
  /\ pc' = "gone"
  /\ UNCHANGED <<source, fed, cur, message, calls, nextIndex, closed, output, log>>

-----------------------------------------------------------------------------
\* What the generator and the run do by themselves.
Emit ==
  \/ Created \/ InProgress
  \/ \E k \in Chunks : NextChunk(k)
  \/ EmitReasoning \/ OpenMessage \/ AddPart \/ EmitText
  \/ StartCall \/ EmitArgs \/ \E n \in DOMAIN calls : ContinueCall(n)
  \/ EndOfStream \/ GraphRaises
  \/ CloseArgs \/ CloseCall \/ CloseText \/ ClosePart \/ CloseMessage
  \/ Complete

Next == Emit \/ Disconnect

Spec == Init /\ [][Next]_vars

\* The event loop resumes the generator as long as the client reads, and a
\* LangGraph run delivers, ends (its recursion limit sees to that) or raises.
FairSpec == Spec /\ WF_vars(Emit)

-----------------------------------------------------------------------------
(* Properties.                                                             *)

\* The variables have their types; in particular every call the emitter keeps
\* has an id, given by the provider or made up.
OutputItem == [item : Nat, call : Int \cup {None}, body : Seq(Nat)]
Event == [type : EventType, item : Nat \cup {None}, idx : Int \cup {None},
          call : Int \cup {None}, body : Seq(Nat), output : Seq(OutputItem)]
CallState == [key : Key, idx : Nat, call : Int, args : Seq(Nat)]

TypeOK ==
  /\ pc \in {"start", "begun", "stream", "part", "args", "closing", "close_call",
             "close_part", "close_message", "complete", "end", "gone"}
  /\ fed \in Nat
  /\ cur \in Pending
  /\ message \in [idx : Int, text : Seq(Nat)]
  /\ calls \in Seq(CallState)
  /\ nextIndex \in Nat
  /\ closed \in 0 .. Len(calls)
  /\ output \in Seq(OutputItem)
  /\ log \in Seq(Event)

\* The emitter's stream is one the protocol allows: items are announced before
\* anything else is said of them, at dense indices, closed in order, exactly
\* once and all of them, and the completed response repeats what was reported
\* done.
Stream == INSTANCE ResponseStream
            WITH Messages <- {0}, Calls <- Nat \ {0}, Outputs <- {}, stream <- log
Protocol == Stream!Spec

\* Where an event of type t about item x lies in the log.
At(t, x) == {i \in DOMAIN log : log[i].type = t /\ log[i].item = x}

DeltaPositions == {i \in DOMAIN log : log[i].type \in DeltaTypes}

\* A done event repeats exactly the deltas of its item, in the order they were
\* streamed: text, content part and message items the text deltas, arguments
\* and call items the argument deltas (responses.py 489, 526, 541, 549, 566).
IsAssembledFrom(body, t, x) ==
  /\ \A m, n \in DOMAIN body : m < n => body[m] < body[n]
  /\ {body[m] : m \in DOMAIN body} = {log[i].body[1] : i \in At(t, x)}
Assembled ==
  \A i \in DOMAIN log :
    log[i].type \in {"text.done", "part.done", "args.done", "item.done"}
      => IsAssembledFrom(log[i].body,
                         IF log[i].item = 0 THEN "text.delta" ELSE "args.delta",
                         log[i].item)

\* Deltas leave in the order the graph produced them, each once: within a chunk
\* reasoning, then text, then the fragments, and chunk after chunk.
DeltasInOrder ==
  \A i, j \in DeltaPositions : i < j => log[i].body[1] < log[j].body[1]

\* What the caller asked to be streamed: the content of AIMessageChunks from the
\* listed nodes (README: "only stream tokens emitted by these node names; None
\* streams all").
Listed(c) == c.ai /\ (StreamableNodes = None \/ c.node \in StreamableNodes)
Asked == UNION {TokensOf(source[m]) : m \in {n \in DOMAIN source : Listed(source[n])}}
Streamed == {log[i].body[1] : i \in DeltaPositions}

\* Nothing from another node, or from a message that is no AIMessageChunk, is
\* ever streamed (responses.py 429-440).
OnlyListedNodes == Streamed \subseteq Asked

\* A response reported completed has streamed everything that was asked for.
NothingLost ==
  (\E i \in DOMAIN log : log[i].type = "completed") => Asked \subseteq Streamed

\* What a provider says of calls to those who listen: the pieces it may send, which
\* Coherent says can be put together, and where in the run they are.
Pieces == UNION {{k.frags[j] : j \in DOMAIN k.frags} : k \in {c \in Chunks : Accepts(c)}}
Coherent == Followable(Pieces) /\ NamedOneWay(Pieces)
Places == UNION {{m} \X DOMAIN source[m].frags : m \in {n \in DOMAIN source : Accepts(source[n])}}
PieceAt(x) == source[x[1]].frags[x[2]]
Before(x, y) == x[1] < y[1] \/ (x[1] = y[1] /\ x[2] < y[2])

\* Argument deltas are put together the way the provider took them apart: two
\* land in the same function_call item exactly when they belong to the same
\* upstream call (responses.py 353-360, 499-502).
OriginOf(token) ==
  LET frags == UNION {{source[m].frags[j] : j \in DOMAIN source[m].frags}
                        : m \in DOMAIN source}
  IN (CHOOSE f \in frags : f.args = token).origin
CallsReassembled ==
  \A i, j \in {k \in DOMAIN log : log[k].type = "args.delta"} :
    i # j => LET a == OriginOf(log[i].body[1])
                 b == OriginOf(log[j].body[1])
             IN log[i].item = log[j].item <=> (a = b /\ a # 0)

\* The first piece of a call has its id, if any has.
First(x) ==
  ~\E y \in Places : Before(y, x) /\ PieceAt(y).origin = PieceAt(x).origin /\ PieceAt(x).origin # 0
Introduced ==
  \A x, y \in Places :
    First(x) /\ PieceAt(x).origin = PieceAt(y).origin /\ PieceAt(y).id # None => PieceAt(x).id # None

\* The call_id and name a call is announced with are those it is closed with, so a
\* client that acts on the announcement answers the right call; a provider that names
\* a call only later cannot be helped.
CallIdStable ==
  Introduced => \A i, j \in DOMAIN log :
    (/\ log[i].type = "item.added"
     /\ log[j].type \in {"args.done", "item.done"}
     /\ log[i].item = log[j].item)
      => log[i].call = log[j].call

\* A delta names an item the client has been told about.
DeltasAnchored ==
  \A i \in DeltaPositions :
    \E j \in 1 .. (i - 1) : log[j].type = "item.added" /\ log[j].item = log[i].item

\* Unless the client goes away, every stream ends in a completed or a failed
\* response: no path through the generator leaves the client waiting.
Answered == <>(Stream!Over(log) \/ pc = "gone")
=============================================================================
