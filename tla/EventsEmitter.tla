---------------------------- MODULE EventsEmitter ----------------------------
(***************************************************************************)
(* emit_response_sse of adapters/responses.py: the generator that          *)
(* translates the callback events of a LangGraph run (astream_events) into *)
(* Responses API events.  Unlike AstreamEmitter it hears of the start and  *)
(* the end of every model run and of every tool run, so a response may     *)
(* hold several messages, and the outputs of tools.                        *)
(*                                                                         *)
(* One step yields one event, because the generator is suspended at every  *)
(* yield; what the code does up to the next yield belongs to the step.     *)
(* The n-th item id handed out is <<prefix, n>>.                           *)
(***************************************************************************)
EXTENDS ResponseEvents, FiniteSets, Functions

CONSTANTS
  Chunks,           \* the kinds of chunk a model run may deliver, see ChunkKind
  StreamableNodes,  \* streamable_node_names: a set of nodes, or None
  MaxOpen,          \* model runs the graph lets overlap
  Faults,           \* what may go wrong with tools: "tool_error", "stray_end"
  MaxRuns,          \* bound: model runs
  MaxChunks,        \* bound: chunks, over all model runs
  MaxTools          \* bound: tool runs

ASSUME EventChunksAssumption == \A c \in Chunks : c \in ChunkKind({c.node})
ASSUME BoundsAssumption == {MaxOpen, MaxRuns, MaxChunks, MaxTools} \subseteq Nat
ASSUME FaultsAssumption == Faults \subseteq {"tool_error", "stray_end"}

\* Item ids; and current_message, whose index is -1 until it is announced.
Item == {"msg", "fc", "fco"} \X Nat
MessageState == [item : Item, idx : Int, text : Seq(Nat)]

ASSUME NoMessageAssumption == None \notin MessageState

VARIABLES
  pc,         \* where the generator is
  runs,       \* graph: model runs started
  open,       \* graph: those not ended
  toolRuns,   \* graph: tool runs started
  running,    \* graph: those not ended
  source,     \* history: the chunks delivered, with their run and tokens
  fed,        \* the last token handed out
  cur,        \* what is left to process of the last accepted chunk
  current,    \* current_message, or None
  calls,      \* function_calls, in insertion order
  closed,     \* calls whose closing events have been yielded
  tools,      \* tool_outputs: tool run -> item and output index
  made,       \* item ids handed out
  nextIndex,  \* builder.next_output_index
  output,     \* completed_output
  sink,       \* output_sink: the texts appended
  log         \* the events yielded; sequence_number is the position less one

graph == <<runs, open, toolRuns, running, source, fed>>
items == <<cur, current, calls, closed, tools, made, nextIndex>>
vars == <<pc, graph, items, output, sink, log>>

-----------------------------------------------------------------------------
(* Events.                                                                 *)

OfMessage(t, body) == About(t, current.item, current.idx, None, body)
OfCall(t, c, body) == About(t, c.item, c.idx, c.call, body)
ArgsDelta(c, f) == About("args.delta", c.item, c.idx, None, <<f.args>>)

\* builder.event: the event takes the next sequence number.
BugYield(e) == log' = IF e.type = "failed" THEN log ELSE Append(log, e)
Yield(e) == log' = Append(log, e)

\* completed_output.append(item), before the item is reported done as e.
BugCompletes(e) == Yield(e) /\ UNCHANGED output
Completes(e) ==
  /\ output' = Append(output, [item |-> e.item, call |-> e.call, body |-> e.body])
  /\ Yield(e)

-----------------------------------------------------------------------------
Spent == cur = Nothing
Waiting == pc = "stream" /\ Spent
BugOpened == current # None /\ current.idx > 0
Opened == current # None /\ current.idx # -1

\* No filter applies, or the chunk's node passes it.
Accepts(k) == StreamableNodes \in {None, {}} \/ k.node \in StreamableNodes

\* The next call may use the number of its item as its own key.
OwnKey(f) == KeyOf(f, made + 1)
KnownKey(f) == \E n \in DOMAIN calls : calls[n].key = OwnKey(f)

Init ==
  /\ pc = "start"
  /\ runs = 0 /\ open = {} /\ toolRuns = 0 /\ running = {}
  /\ source = <<>> /\ fed = 0 /\ cur = Nothing
  /\ current = None /\ calls = <<>> /\ closed = 0 /\ tools = <<>>
  /\ made = 0 /\ nextIndex = 0
  /\ output = <<>> /\ sink = <<>> /\ log = <<>>

Created ==
  /\ pc = "start" /\ pc' = "begun"
  /\ Yield(Plain("created"))
  /\ UNCHANGED <<graph, items, output, sink>>

InProgress ==
  /\ pc = "begun" /\ pc' = "stream"
  /\ Yield(Plain("in_progress"))
  /\ UNCHANGED <<graph, items, output, sink>>

-----------------------------------------------------------------------------
(* on_chat_model_start and on_chat_model_stream.                           *)

\* A new message, not announced yet, takes the place of the current one.
ModelStart ==
  /\ Waiting
  /\ runs < MaxRuns /\ Cardinality(open) < MaxOpen
  /\ runs' = runs + 1 /\ open' = open \cup {runs + 1}
  /\ made' = made + 1
  /\ current' = [item |-> <<"msg", made + 1>>, idx |-> -1, text |-> <<>>]
  /\ UNCHANGED <<pc, toolRuns, running, source, fed, cur, calls, closed, tools, nextIndex,
                 output, sink, log>>

\* A chunk of run r.  One the filter rejects is dropped, and so is the text of
\* one that comes when there is no current message.
ModelStream(r, k) ==
  /\ Waiting
  /\ Len(source) < MaxChunks
  /\ source' = Append(source, [run |-> r, chunk |-> Fill(k, fed)])
  /\ fed' = fed + 2 + Len(k.frags)
  /\ LET c == Contents(Fill(k, fed))
     IN cur' = IF ~Accepts(k) THEN Nothing
               ELSE IF current = None THEN [c EXCEPT !.text = 0] ELSE c
  /\ UNCHANGED <<pc, runs, open, toolRuns, running, current, calls, closed, tools, made,
                 nextIndex, output, sink, log>>

EmitReasoning ==
  /\ pc = "stream" /\ cur.reasoning # 0
  /\ cur' = [cur EXCEPT !.reasoning = 0]
  /\ LET item == IF current = None THEN None ELSE current.item
     IN Yield(About("reasoning.delta", item, None, None, <<cur.reasoning>>))
  /\ UNCHANGED <<pc, graph, current, calls, closed, tools, made, nextIndex, output, sink>>

\* The first text opens the message, in two events.
OpenMessage ==
  /\ pc = "stream" /\ cur.reasoning = 0 /\ cur.text # 0
  /\ current.idx = -1
  /\ current' = [current EXCEPT !.idx = nextIndex]
  /\ nextIndex' = nextIndex + 1
  /\ pc' = "part"
  /\ Yield(About("item.added", current.item, nextIndex, None, <<>>))
  /\ UNCHANGED <<graph, cur, calls, closed, tools, made, output, sink>>

AddPart ==
  /\ pc = "part" /\ pc' = "stream"
  /\ Yield(OfMessage("part.added", <<>>))
  /\ UNCHANGED <<graph, items, output, sink>>

EmitText ==
  /\ pc = "stream" /\ cur.reasoning = 0 /\ cur.text # 0
  /\ current.idx # -1
  /\ current' = [current EXCEPT !.text = Append(@, cur.text)]
  /\ cur' = [cur EXCEPT !.text = 0]
  /\ Yield(OfMessage("text.delta", <<cur.text>>))
  /\ UNCHANGED <<pc, graph, calls, closed, tools, made, nextIndex, output, sink>>

\* The next fragment of the chunk, once its reasoning and text are out.
AtFragment ==
  /\ pc = "stream" /\ cur.reasoning = 0 /\ cur.text = 0
  /\ cur.frags # <<>>

BugPopFragment == cur' = [cur EXCEPT !.frags = <<>>]
PopFragment == cur' = [cur EXCEPT !.frags = Tail(@)]

\* A key not seen before opens a call; a call without an id gets one.
StartCall ==
  /\ AtFragment
  /\ LET f == Head(cur.frags)
         c == [item |-> <<"fc", made + 1>>, key |-> OwnKey(f), idx |-> nextIndex,
               call |-> IdOf(f, -(made + 1)), args |-> <<>>]
     IN /\ ~KnownKey(f)
        /\ calls' = Append(calls, c)
        /\ Yield(OfCall("item.added", c, <<>>))
        /\ IF f.args # 0 THEN pc' = "args" /\ UNCHANGED cur
                         ELSE PopFragment /\ UNCHANGED pc
  /\ made' = made + 1 /\ nextIndex' = nextIndex + 1
  /\ UNCHANGED <<graph, current, closed, tools, output, sink>>

\* The arguments that came with the fragment that opened the call.
EmitArgs ==
  /\ pc = "args" /\ pc' = "stream"
  /\ LET f == Head(cur.frags)
         n == Len(calls)
     IN /\ calls' = [calls EXCEPT ![n].args = Append(@, f.args)]
        /\ Yield(ArgsDelta(calls[n], f))
  /\ PopFragment
  /\ UNCHANGED <<graph, current, closed, tools, made, nextIndex, output, sink>>

\* A later fragment of call n may replace its id, and adds its arguments.
ContinueCall(n) ==
  /\ AtFragment
  /\ LET f == Head(cur.frags)
     IN /\ calls[n].key = OwnKey(f)
        /\ calls' = [calls EXCEPT ![n].call = IdOf(f, @),
                                  ![n].args = IF f.args # 0 THEN Append(@, f.args) ELSE @]
        /\ IF f.args # 0 THEN Yield(ArgsDelta(calls[n], f))
                         ELSE UNCHANGED log
  /\ PopFragment
  /\ UNCHANGED <<pc, graph, current, closed, tools, made, nextIndex, output, sink>>

-----------------------------------------------------------------------------
(* on_chat_model_end: the current message is closed, whichever run ended,  *)
(* then every call, and the table of calls is emptied.                     *)

\* output_sink.append.
BugIntoSink(text) == sink' = <<text>> \o sink
IntoSink(text) == sink' = Append(sink, text)

\* The message was opened, so it has a text: the sink gets it, and three events
\* close the message.
ModelEndWithText(r) ==
  /\ Waiting
  /\ open' = open \ {r}
  /\ Opened
  /\ IntoSink(current.text)
  /\ Yield(OfMessage("text.done", current.text))
  /\ pc' = "close_part"
  /\ UNCHANGED <<runs, toolRuns, running, source, fed, items, output>>

\* There is no message, or it was never opened: nothing is said of it.
ModelEndWithoutText(r) ==
  /\ Waiting
  /\ open' = open \ {r}
  /\ ~Opened
  /\ current' = None
  /\ pc' = "closing"
  /\ UNCHANGED <<runs, toolRuns, running, source, fed, cur, calls, closed, tools, made,
                 nextIndex, output, sink, log>>

ClosePart ==
  /\ pc = "close_part" /\ pc' = "close_message"
  /\ Yield(OfMessage("part.done", current.text))
  /\ UNCHANGED <<graph, items, output, sink>>

CloseMessage ==
  /\ pc = "close_message" /\ pc' = "closing"
  /\ Completes(OfMessage("item.done", current.text))
  /\ current' = None
  /\ UNCHANGED <<graph, cur, calls, closed, tools, made, nextIndex, sink>>

CloseArgs ==
  /\ pc = "closing" /\ closed < Len(calls)
  /\ Yield(OfCall("args.done", calls[closed + 1], calls[closed + 1].args))
  /\ pc' = "close_call"
  /\ UNCHANGED <<graph, items, output, sink>>

CloseCall ==
  /\ pc = "close_call" /\ pc' = "closing"
  /\ Completes(OfCall("item.done", calls[closed + 1], calls[closed + 1].args))
  /\ closed' = closed + 1
  /\ UNCHANGED <<graph, cur, current, calls, tools, made, nextIndex, sink>>

BugClearCalls ==
  /\ pc = "closing" /\ closed = Len(calls)
  /\ pc' = "stream" /\ closed' = 0
  /\ UNCHANGED <<graph, cur, current, calls, tools, made, nextIndex, output, sink, log>>

ClearCalls ==
  /\ pc = "closing" /\ closed = Len(calls)
  /\ pc' = "stream"
  /\ calls' = <<>> /\ closed' = 0
  /\ UNCHANGED <<graph, cur, current, tools, made, nextIndex, output, sink, log>>

-----------------------------------------------------------------------------
(* on_tool_start and on_tool_end.  Tool run r is known to the client as    *)
(* -r until its ToolMessage names the call it answers, which is r.         *)

BugNewEntry == [item |-> <<"fco", made + 1>>, idx |-> Cardinality(DOMAIN tools)]
NewEntry == [item |-> <<"fco", made + 1>>, idx |-> nextIndex]

ToolStart ==
  /\ Waiting /\ toolRuns < MaxTools
  /\ LET r == toolRuns + 1
     IN /\ toolRuns' = r /\ running' = running \cup {r}
        /\ tools' = [s \in DOMAIN tools \cup {r} |-> IF s = r THEN NewEntry ELSE tools[s]]
        /\ Yield(About("item.added", NewEntry.item, NewEntry.idx, -r, <<>>))
  /\ made' = made + 1 /\ nextIndex' = nextIndex + 1
  /\ UNCHANGED <<pc, runs, open, source, fed, cur, current, calls, closed, output, sink>>

\* tool_outputs.pop(run_id): the entry of run r, or, if there is none, a new item.
BugToolEntry(r) ==
  IF tools # <<>> THEN tools[CHOOSE s \in DOMAIN tools : \A t \in DOMAIN tools : t <= s]
                  ELSE NewEntry
ToolEntry(r) ==
  IF r \in DOMAIN tools THEN tools[r]
                        ELSE NewEntry

\* The runs that may end now: those running, and, as a fault, one whose start
\* was never reported.
MayEnd ==
  running \cup (IF "stray_end" \in Faults /\ toolRuns < MaxTools THEN {toolRuns + 1} ELSE {})

\* The output of tool run r is there; it may be a ToolMessage, which names the
\* call it answers, or anything else, and the run's own id stays.
ToolEnd(r, named) ==
  /\ Waiting
  /\ running' = running \ {r} /\ toolRuns' = IF r \in running THEN toolRuns ELSE r
  /\ tools' = Restrict(tools, DOMAIN tools \ {r})
  /\ IF r \in DOMAIN tools THEN UNCHANGED <<made, nextIndex>>
                           ELSE made' = made + 1 /\ nextIndex' = nextIndex + 1
  /\ Completes(About("item.done", ToolEntry(r).item, ToolEntry(r).idx,
                     IF named THEN r ELSE -r, <<>>))
  /\ UNCHANGED <<pc, runs, open, source, fed, cur, current, calls, closed, sink>>

\* A tool raises and the graph goes on with an error message (on_tool_error):
\* the emitter has no branch for the event.
ToolError(r) ==
  /\ "tool_error" \in Faults
  /\ Waiting
  /\ running' = running \ {r}
  /\ UNCHANGED <<pc, runs, open, toolRuns, source, fed, items, output, sink, log>>

-----------------------------------------------------------------------------
(* The end.                                                                *)

\* The graph is done: the async for ends.
Complete ==
  /\ Waiting /\ open = {} /\ running = {}
  /\ Yield([Plain("completed") EXCEPT !.output = output])
  /\ pc' = "end"
  /\ UNCHANGED <<graph, items, output, sink>>

\* The graph raises: the failed response lists what was completed before.
GraphRaises ==
  /\ Waiting
  /\ Yield([Plain("failed") EXCEPT !.output = output])
  /\ pc' = "end"
  /\ UNCHANGED <<graph, items, output, sink>>

\* The client goes away: the generator is closed or cancelled where it stands.
Disconnect ==
  /\ pc \notin {"end", "gone"}
  /\ pc' = "gone"
  /\ UNCHANGED <<graph, items, output, sink, log>>

-----------------------------------------------------------------------------
Emit ==
  \/ Created \/ InProgress
  \/ ModelStart \/ \E r \in open, k \in Chunks : ModelStream(r, k)
  \/ EmitReasoning \/ OpenMessage \/ AddPart \/ EmitText
  \/ StartCall \/ EmitArgs \/ \E n \in DOMAIN calls : ContinueCall(n)
  \/ \E r \in open : ModelEndWithText(r) \/ ModelEndWithoutText(r)
  \/ ClosePart \/ CloseMessage \/ CloseArgs \/ CloseCall \/ ClearCalls
  \/ ToolStart \/ \E r \in MayEnd, named \in BOOLEAN : ToolEnd(r, named)
  \/ \E r \in running : ToolError(r)
  \/ Complete \/ GraphRaises

Next == Emit \/ Disconnect

Spec == Init /\ [][Next]_vars

\* The event loop resumes the generator as long as the client reads, and a run
\* delivers, ends or raises.
FairSpec == Spec /\ WF_vars(Emit)

-----------------------------------------------------------------------------
(* Properties.                                                             *)

\* The variables have their types; every call kept has an id.
OutputItem == [item : Item, call : Int \cup {None}, body : Seq(Nat)]
Event == [type : EventType, item : Item \cup {None}, idx : Int \cup {None},
          call : Int \cup {None}, body : Seq(Nat), output : Seq(OutputItem)]
CallState == [item : Item, key : Key, idx : Nat, call : Int, args : Seq(Nat)]
ToolState == [item : Item, idx : Nat]

TypeOK ==
  /\ pc \in {"start", "begun", "stream", "part", "args", "close_part", "close_message",
             "closing", "close_call", "end", "gone"}
  /\ {fed, made, nextIndex, runs, toolRuns} \subseteq Nat
  /\ open \subseteq 1 .. runs /\ running \subseteq 1 .. toolRuns
  /\ cur \in Pending
  /\ current \in MessageState \cup {None}
  /\ calls \in Seq(CallState)
  /\ closed \in 0 .. Len(calls)
  /\ DOMAIN tools \subseteq 1 .. toolRuns /\ \A r \in DOMAIN tools : tools[r] \in ToolState
  /\ output \in Seq(OutputItem)
  /\ sink \in Seq(Seq(Nat))
  /\ log \in Seq(Event)

\* While model runs follow one another and tools do not fail, the stream is one
\* the protocol allows, with any number of messages, calls and tool outputs.
Stream == INSTANCE ResponseStream
            WITH Messages <- {"msg"} \X Nat, Calls <- {"fc"} \X Nat,
                 Outputs <- {"fco"} \X Nat, stream <- log
Protocol == Stream!Spec

Completed == \E i \in DOMAIN log : log[i].type = "completed"

\* A response reported completed has streamed everything the listed nodes
\* produced, and nothing else ever was.
Asked == UNION {TokensOf(source[m].chunk) : m \in
                  {n \in DOMAIN source : \/ StreamableNodes = None
                                         \/ source[n].chunk.node \in StreamableNodes}}
Streamed == {log[i].body[1] : i \in {j \in DOMAIN log : log[j].type \in DeltaTypes}}
NothingLost == Streamed \subseteq Asked /\ (Completed => Asked \subseteq Streamed)

\* The pieces a provider may send of calls to those who listen, and that Coherent
\* says can be put together.
Pieces == UNION {{k.frags[j] : j \in DOMAIN k.frags} : k \in {c \in Chunks : Accepts(c)}}
Coherent == Followable(Pieces) /\ NamedOneWay(Pieces)

\* Two argument deltas land in the same function_call item exactly when they
\* belong to the same call of the same model run, though every run counts its
\* calls from index 0 (responses.py 715-726, 828).
CallOf(token) ==
  LET m == CHOOSE n \in DOMAIN source : token \in TokensOf(source[n].chunk)
      frags == source[m].chunk.frags
      j == CHOOSE i \in DOMAIN frags : frags[i].args = token
  IN IF frags[j].origin = 0 THEN <<0, token>> ELSE <<source[m].run, frags[j].origin>>
CallsReassembled ==
  \A i, j \in {k \in DOMAIN log : log[k].type = "args.delta"} :
    (log[i].item = log[j].item) <=> (CallOf(log[i].body[1]) = CallOf(log[j].body[1]))

\* "If output_sink is provided, each completed assistant message's text is
\* appended to it so the caller can record the full output after the stream"
\* (responses.py 616-617): while model runs follow one another, the texts in the sink
\* of a completed response, one after the other, are the text the client was shown.
Texts == Concat([i \in DOMAIN log |-> IF log[i].type = "text.delta" THEN log[i].body ELSE <<>>])
SinkComplete == Completed => Concat(sink) = Texts

\* Tools that run side by side do not swap outputs: the item announced for a
\* tool run is closed with the answer of that run, whichever ends first.
OutputsMatched ==
  \A i, j \in DOMAIN log :
    (/\ log[i].type = "item.added" /\ log[j].type = "item.done"
     /\ log[i].item = log[j].item /\ log[i].item[1] = "fco")
      => log[j].call \in {log[i].call, -log[i].call}

\* A completed or failed response lists exactly the items reported done, as they
\* were and in that order, wherever the graph raised: the n-th one done is the n-th
\* of the list.
DoneUpTo(i) == {k \in 1 .. i : log[k].type = "item.done"}
OutputIsDone ==
  \A i \in DOMAIN log : log[i].type \in {"completed", "failed"} =>
    /\ Len(log[i].output) = Cardinality(DoneUpTo(i))
    /\ \A k \in DoneUpTo(i) :
          log[i].output[Cardinality(DoneUpTo(k))] =
            [item |-> log[k].item, call |-> log[k].call, body |-> log[k].body]

\* Whichever model run ends first, and whatever calls of another run it closes, each
\* piece of arguments that was streamed is in exactly one function call of a
\* completed response (responses.py 806-828).
ArgsOnce ==
  \A i, k \in DOMAIN log : (log[i].type = "completed" /\ log[k].type = "args.delta") =>
    \E j \in DOMAIN log[i].output : \A h \in DOMAIN log[i].output :
      (\E n \in DOMAIN log[i].output[h].body : log[i].output[h].body[n] = log[k].body[1])
        <=> h = j

\* No output index is ever given to two items, whatever overlaps and fails.
IndexUnique ==
  \A i, j \in {k \in DOMAIN log : log[k].type \in {"item.added", "item.done"}} :
    log[i].idx = log[j].idx => log[i].item = log[j].item

\* Unless the client goes away, every stream ends in a completed or a failed
\* response.
Answered == <>(Stream!Over(log) \/ pc = "gone")
=============================================================================
