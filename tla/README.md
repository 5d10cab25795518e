# GraphServe in TLA+

GraphServe puts OpenAI-compatible routes (`/responses`, `/chat/completions`,
`/models`) on LangGraph graphs. It is a converter: it keeps no state of its own,
turns what a graph run delivers into OpenAI events, and leaves conversations to
the checkpointers of the graphs. This directory models the parts of it where
order matters: the three generators that turn a run into a stream of events, and the
handlers that share threads; and, as pure operators, the conversion of messages that
answers the requests that are not streamed. Paths below are relative to
`src/src/graphserve/`; line numbers in `PROJECT.json` tie each definition to the
code.

## 1. The system

| Component | State it keeps | Operations | Talks to |
|---|---|---|---|
| Responses emitter over `astream` (`adapters/responses.py` 353-602) | one generator's locals: `current_message`, `function_calls`, `completed_output`, the builder's `sequence_number` and `next_output_index` | read a `(chunk, metadata)` pair, yield an event, close, fail | pulls from the graph run; is pulled by `encode_sse` and the HTTP response |
| Responses emitter over `astream_events` (605-895) | the same, with one message per model run, `tool_outputs` and the caller's `output_sink` | react to model start, stream and end, tool start and end | the same; exported for users, not used by the routes |
| Event builder and SSE encoding (238-388) | two counters | number, validate and format an event | both emitters |
| Message to item conversion (60-237) | none | messages to output items, `messages_to_response_dict` | routes |
| Chat stream adapter (`adapters/chat.py`) | `pending_tool_call`, `tool_index`, `next_index` | role chunk, text and tool-call deltas, finish chunk, `[DONE]` | chat route |
| Responses routes (`routes/responses.py`) | none between requests; a handler's locals across its awaits | create (streamed or not), get, list input items, delete | registry, checkpointers, emitter |
| Chat route (`routes/chat.py`) | the same | create (streamed or not) | registry, checkpointers, chat adapter |
| Identifiers (`_ids.py`) | none | format and parse `conv_` and `resp_` ids, thread of an anchor | routes |
| Registry and router (`registry.py`, `router.py`) | name to graph; `graph.checkpointer` is set at mount time | register, resolve, list; inject an `InMemorySaver` | routes |
| Text and context helpers (`adapters/common.py`), error bodies (`errors.py`) | none | copy and join fields | adapters and routes |
| LangGraph, checkpointers, HTTP client | threads: lists of messages | external | everything |

How they interact: a request resolves a model in the registry, derives a thread
from its anchor, and runs the graph on that thread. A run that is not streamed is
awaited and its messages converted. A streamed one is an asynchronous generator
that is resumed for each event the client reads and can be abandoned at any
yield. Everything runs on one event loop: a step between two awaits is atomic,
and nothing else is.

Hard behaviours, and the properties that make each part correct:

* **The emitters.** Tool calls arrive as fragments, from one chunk or several,
  interleaved with each other, with text and with reasoning; a fragment may have
  an index, an id, both or neither; items are opened lazily and share one index
  counter; the graph may raise, or the client leave, at any point. Correct means:
  the events are a stream the Responses API allows, nothing asked for is lost,
  nothing else is streamed, fragments are put together the way the provider took
  them apart, done events repeat the deltas, and there is always a terminal event.
  With `astream_events`, runs of models and tools may also overlap.
* **The routes.** Several requests on one thread interleave at every await; runs
  fail, readers leave and the server restarts half-way through a turn. Correct
  means: conversations do not mix, a response is what its own turn produced, what
  was answered is kept, what was deleted stays deleted, every request is answered.
* **The chat adapter.** The finish reason is decided by what came last, the
  indices of calls come from two sources, and a graph error has no handler. Correct
  means: role, deltas, one finish chunk, `[DONE]`; what models say reaches the client once and
  in order, what others say does not; an index is one call; and the client is told to
  execute a tool when the answer that is not streamed tells it so.
* **Registry and router.** A graph registered after the router was built gets no
  checkpointer.
* **Conversion and helpers** are pure functions of their input. What can go wrong is
  that they disagree with the streams, which show the same run to another client.

`PROJECT.json` lists every hazard at its line with the properties aimed at it.

## 2. The modules

| Module | What it is |
|---|---|
| `ResponseStream` | Abstract specification: what a client may rely on when it reads a stream. It says which event may follow a prefix, and nothing about a server. |
| `ResponseEvents` | What the emitters share: events, chunks, fragments, the key rule. |
| `MessageItems` | Pure operators: messages to Responses items, their ids, a page of them, the chat answer; and how LangChain puts chunks together into a message. |
| `AstreamEmitter` | `emit_response_sse_from_astream`, and its properties. Refines `ResponseStream`. |
| `EventsEmitter` | `emit_response_sse`, and its properties. Refines `ResponseStream` while model runs do not overlap and tools do not fail. |
| `StreamedTurn` | `AstreamEmitter` composed with `MessageItems`: what was streamed against what the saved message is converted to. |
| `ChatProtocol` | Abstract specification: what a client may rely on when it reads a chat stream. |
| `ChatStream` | `chat_completion_chunks` with the run that feeds it, composed with `MessageItems`. Refines `ChatProtocol`. |
| `ResponsesService` | The routes, the registry, the router and the threads, with any number of requests at once. |
| `MCAstreamEmitter`, `MCEventsEmitter`, `MCChatStream`, `MCResponsesService` | Values of the constants for TLC. |
| `ChunkProofs` | Lemmas on induction, on chunks and on the pieces of a provider, which the proofs about all three generators use. |
| `MessageProofs` | Lemmas on how messages are put together and turned into items, which the proofs about `ChatStream` and `StreamedTurn` use. |
| `AstreamEmitterProofs`, `AstreamContentProofs` | Theorems about `AstreamEmitter`: types and the protocol; the content streamed and reported, the calls it is put together to, and, with `StreamedTurn`, the message stored. |
| `EventsEmitterProofs`, `EventsContentProofs` | Theorems about `EventsEmitter`: types, indices, outputs, the final list and the protocol; the content and the calls. |
| `ChatStreamProofs` | Theorems about `ChatStream`. |
| `ResponsesServiceProofs` | Theorems about `ResponsesService`. |

### The emitters

One step yields one event, because a generator is suspended at each `yield` and
may be dropped there; the assignments up to the next yield belong to the step.
`pc` is the place of suspension. `cur` is what is left of the chunk being
processed. `message`, `calls`, `nextIndex` and `output` are `current_message`,
`function_calls`, `builder.next_output_index` and `completed_output`;
`sequence_number` is the position in `log`, the list of all events yielded, which
is what a client has seen. Text, reasoning and argument pieces are numbered tokens,
so that a piece lost, repeated, reordered or put in the wrong place shows; a text is
the sequence of its tokens. A fragment carries the number of the upstream call
it belongs to, `origin`, which the model of the code never reads.

| Actions of `AstreamEmitter` | Code |
|---|---|
| `Created`, `InProgress` | 409-410 |
| `NextChunk(k)` | the `async for`, the type test and the node filter, 421-440 |
| `EmitReasoning`, `OpenMessage`, `AddPart`, `EmitText` | 457-497 |
| `StartCall`, `EmitArgs`, `ContinueCall(n)` | 499-534 |
| `EndOfStream`, `CloseArgs`, `CloseCall`, `CloseText`, `ClosePart`, `CloseMessage`, `Complete` | 536-593 |
| `GraphRaises` | the `except`, 594-602 |
| `Disconnect` | the generator is closed or cancelled by the response that reads it |

`EventsEmitter` is built in the same way. Its additional actions start and end
runs of models (`ModelStart`, `ModelEndWithText`, `ModelEndWithoutText`) and of
tools (`ToolStart`, `ToolEnd`), let a tool raise (`ToolError`, for which the code
has no branch) and let the end of an unknown tool run arrive. The graph is modelled by
the number of runs of each kind in progress.

### Messages and the chat stream

A message has the text, the calls and the thoughts that the conversion looks at,
and an item a type, an id, a role, the id of a call and a body. An id that the code
makes by hashing is the tuple of what is hashed, so two ids are equal when the code would
hash the same values. `AddChunk` is the addition of LangChain's `AIMessageChunk`s, which is how the
graph gets the message it saves; it is external code. A piece of a call is joined to an earlier one by its `index`, and only
if neither has an id or both have the same; a piece without an index is a call of its own, whatever its id, and so is each
piece of the first chunk. Of the calls thus kept, `tool_calls` has those whose arguments can be read as an object. Reading repairs an object that is
cut short and takes no arguments for an empty one, so what is read is decided by where the arguments begin: `IsObject` says
that what a provider sends for a call is an object, but for the calls in the constant `Garbled`, and that a piece from the middle of it is none by
itself. The conversion writes the object again; `Object` stands for the text it writes, which is not the text that was streamed.

`ChatStream` keeps the messages of the graph's state beside the generator, as the
run adds them. Only `AIMessageChunk`s reach the code's branches; the results of tools and the answers of a
node without a model are delivered as whole messages of other classes, and skipped. `pending`,
`toolIndex`, `nextIndex` are `pending_tool_call`, `tool_index`, `next_index`; `log` is what was
yielded. History: a call delta carries which message and which upstream call it is
of (`of`), `streamed` are the messages delivered in chunks, and `late` those that have text after a call.

| Actions of `ChatStream` | Code |
|---|---|
| `Role`, `EmitText`, `EmitCall`, `Finish`, `Done` | `adapters/chat.py` 33-34, 70-74, 76-97, 99-104, 105 |
| `StartsAnswer(k)`, `GoesOn(k)` | the run delivers a chunk of a new or of the last message, 67-68 |
| `ToolsAnswer`, `Answers(thinks)` | the run adds messages that are no chunks of a model, 68 |
| `GraphRaises` | nothing catches the error: the stream breaks off |
| `Disconnect` | the generator is closed or cancelled |

### The service

`req` holds all requests; a request's record holds the handler's locals
(`thread`, `count`, which is `initial_message_count`, and `history`, the list of messages
of its run), its place `pc`, and its answer. `store` is what each checkpointer
holds, a thread being a uuid together with the way it is written, because the two
routes write the same conversation differently. Message `n` of request `r` is a
pair of the two numbers; message 0 is the user's part of the input and message -1 an
earlier answer that the client repeats in front of it (`Inputs` says which inputs
a run tries). So each answer and each
thread tells whose turn it is made of.

| Actions of `ResponsesService` | Code |
|---|---|
| `Register`, `Mount` | `registry.py` 24-33, `router.py` 34-44 |
| `Unknown`, `Create`, `Get`, `Delete` | the handlers up to their first await that other requests can tell |
| `Count`, `Invoke`, `Step`, `Finish`, `Raise` | `routes/responses.py` 148-164 and the runs of both routes: the state is read, the run starts from the thread, saves after every message, and its result becomes the answer |
| `Trim` | a node of the run removes the messages of earlier turns, as one that summarises does; the slice of new messages then starts from a count that is too high |
| `Leave` | a `StreamingResponse` whose reader has gone cancels its generator |
| `Crash` | the process stops and starts again; savers in memory are emptied |

A run is external code. The routes see of it that it reads the thread when it
starts and saves its own list of messages afterwards, so the last of two
overlapping runs to save wins; this is how LangGraph's checkpointers behave.
`alone` is a history variable: nothing else ran or deleted on the request's thread while it was in
progress. Several properties are stated for such requests, because the code
makes no promise for the others.

## 3. What TLC checks

| Run | States | What it shows |
|---|---|---|
| `astream` | 232,695 | `Protocol` (refinement of `ResponseStream`), `Assembled`, `DeltasInOrder`, `OnlyListedNodes`, `NothingLost`, `CallsReassembled`, `CallIdStable`, `SameAsStored`, `Answered`, `TypeOK` of the emitter, over one model turn |
| `events` | 291,158 | `Protocol`, `NothingLost`, `CallsReassembled`, `SinkComplete`, `Answered`, `TypeOK` of the other emitter, over two model runs in turn with a tool run at any time |
| `events_overlap` | 1,095,689 | `OutputIsDone`, `ArgsOnce`, `IndexUnique`, `OutputsMatched`: what holds whatever overlaps and fails |
| `chat` | 205,094 | `Protocol` (refinement of `ChatProtocol`), `Faithful`, `CallsApart`, `FinishMatches`, `RoutesAgree`, `ItemIdsUnique`, `PageHonest`, `Answered`, `TypeOK` of the chat stream and of what the other routes make of its messages |
| `service` | 390,294 | `Isolated`, `Kept`, `Served`, `TypeOK`: two requests of any kind on two models, one of them without a checkpointer of its own, with conversations named in each way |
| `service_turns` | 3,437,108 | `ReplyOwnTurn`, `Kept`, `DeletedStays`: three requests on one model |
| `astream_two_turns`, `astream_reasoning`, `chat_direct`, `service_overlap`, `service_repeat`, `service_conversation` | | each shows one disagreement between the code and what the repository says of it, section 5 |

`BugX` beside a definition `X` is a plausible mistake in it. With the mistake in
place of the definition the run named in `PROJECT.json` fails, so no property
holds for want of behaviour. No specification uses these definitions.

### Bounds, and why they are enough

* `astream`: `MaxChunks` = 4 chunks drawn from ten kinds. A call needs at most
  two chunks (opened, then continued), so four leave room for two calls
  interleaved with each other, or for text and reasoning before, between and
  after; the kinds cover the four ways of
  identifying a fragment, two fragments in one chunk, a chunk that only continues a call, content of another node, and a message
  that is no `AIMessageChunk`. They belong to one model turn; more than one is
  the subject of `astream_two_turns`.
* `events`: two model runs, three chunks over both, one tool run. Two runs are what it
  takes to see whether the state of one leaks into the next. `MaxOpen` = 1
  makes them sequential, as in an agent loop.
* `events_overlap`: `MaxOpen` = 2 and two tool runs, with `Faults` = tools that
  raise and ends of unknown runs, and two chunks of one kind (text and a piece of
  a call), so that each of the two runs can have a message and a call open while
  the other starts, goes on or ends.
* `chat`: three chunks of nine kinds in four messages, the user's included. That is two model turns with
  tools between them, or one of three chunks; the kinds have calls that are numbered, have only
  an id, or have neither, calls before and after text, two in one chunk, calls in two pieces that LangChain joins or does
  not, and arguments it cannot read (`Garbled` = {4}). `Composes` adds answers of nodes. The messages of a run come one after another: `GoesOn` adds to the last
  one only, so chunks of parallel nodes that interleave are not among the runs of the chat stream.
* `service`: two requests, `MaxMessages` = 1, one conversation known in advance
  (`Conversations`) and the fresh ones; three `Spellings` of a conversation: its id, the bare uuid, and a text that
  cannot be parsed, which a response answers with a fresh thread and chat takes for a name. Two
  requests make every pair of operations meet at every await.
* `service_turns`: three requests on one model, so that a turn is followed by
  two that overlap, or by a deletion and a turn; only kinds `response` and `streamed
  response`, one spelling. With two messages per run it is too long to be kept.
* Both take the user's message alone as input; an input that repeats an earlier answer
  is the subject of `service_repeat`.
* `Trims` is TRUE in both, and FALSE in the runs that show a disagreement, which need no such run.
* `Crash` happens at most once. Restarting registers and mounts as before.

### Fairness

`astream`, `events`, `chat` and `service` assume weak fairness of what the server
does by itself: `WF(Emit)` for a generator, `WF(Advance(r))` for each request.
The event loop resumes a coroutine whose await is over, and a LangGraph run ends
or raises, since its recursion limit bounds it. Nothing is assumed of the
client: `Disconnect` and `Leave` are never fair, and `Answered` and `Served` accept
them as outcomes. Nor of failures: `GraphRaises`, `Raise` and `Crash` need never
happen (`Raise` is part of `Advance`, as one way of going on).

Deadlock is not checked because each of these systems may stop: a generator
after its last event, the service after its last request.

## 4. What is proved

The proofs are about `AstreamEmitter`, `EventsEmitter`, `ChatStream` and `ResponsesService`, for every set of
chunks, every node list, every set of models, graphs and checkpointers, and any number of chunks, messages, runs
and requests. Apart from what a chunk is made of, that the bounds and the calls in `Garbled` are natural numbers and that `None` is no
integer, no message, no saver and no thread, they assume nothing that is not named below: `Coherent`, that a provider's
pieces can be followed, `ListNamesNodes`, that the node list is None or not empty, and `Sequential`, that model runs do not
overlap and tools do not fail. Every safety invariant that a passing run checks is stated by one of these theorems.

`Coherent` is said of the pieces of calls in the chunks that are not filtered out: two with an index are of one call exactly
when the index is the same, two with an id likewise (`Followable`), and a piece with neither is a call of its own. For the
Responses emitters it also says that the pieces of a call all have an index or all have none (`NamedOneWay`), because
they look for a call under one key. It is what the code's own comment
claims of providers (`chat.py` 78-79), and TLC checks it for the chunks of the runs (`ProviderAssumption` in `MCAstreamEmitter`,
`MCEventsEmitter` and `MCChatStream`). A run of two model turns whose indices start again is not
`Coherent`, and `astream_two_turns` is what then happens.

### `AstreamEmitter`

* `TypeCorrect`: `Spec => []TypeOK`. The inductive invariant is `TypeInv`,
  `TypeOK` with `Control`, which ties `pc` to the data: between `StartCall` and
  `EmitArgs` there is a fragment and a call for it to go to, a message that is
  being closed is open, and so on. Without it a step from an unreachable
  `pc = "args"` would take the head of an empty sequence.
* `EmitterImplementsProtocol`: `Spec => Protocol`. The protocol speaks of the
  events that have been yielded, while the code decides by its variables.
  `Told` says that the two agree: which items have been announced, at which index,
  how far each has been closed, that the indices used are exactly those below
  `next_output_index`, that `completed_output` holds what was reported done, and that nothing
  follows a terminal event. `Growth` computes what one more event adds to each
  of the protocol's observations, `LegalStep` reduces a step of the protocol to
  the legality of that event, and `ProtocolStep` goes through the actions: each
  yields a legal event and keeps `Told`.
* `StreamsInOrder`, `StreamsOnlyListed`, `StreamsAll`: `DeltasInOrder`, `OnlyListedNodes` and
  `NothingLost`. The invariant is `TokenInv`: what was asked for is what has been streamed together
  with what is left in `cur` (`Accounted`), whatever is left comes later than all that has been streamed
  (`Ordered`), and nothing is left once the run is over (`Placed`). Every action
  yields the first piece that is left (`DeltaStep`), takes in a chunk (`ChunkStep`) or does neither
  (`OtherStep`). `StreamsOnlyListed` assumes `ListNamesNodes`, that the list is None or not
  empty: the code takes an empty list for no list.
* `DonesRepeatDeltas`: `Assembled`. The invariant `AssemblyInv` adds that the text and the arguments
  the code keeps are the pieces streamed for the item (`Kept`), that what was reported done is so too, and
  that no event reports anything done while deltas may follow (`Reported`). That a text grows by its latest piece in
  order (`AssemblesMore`) needs `Ordered`.
* `CallsAreReassembled`: `CallsReassembled`, assuming `Coherent`. The invariant `CallInv` follows each piece from its place in
  the run: what is left in `cur` are the last places delivered (`Located`), each a piece of the provider with a token of its
  own (`Pieced`, `Distinct`). Every call of which a piece was passed is kept under its key (`Known`) and no two have one
  key (`KeysApart`), so that a later piece finds it; and each delta came from a piece with the key of its item
  (`Traced`). `KeysTell` then says that keys are equal exactly when the upstream calls are.
* `CallIdsAreStable`: `CallIdStable`, assuming `Coherent`. The property is stated for runs in which the first piece of a call has its id if any
  has (`Introduced`), because the code replaces an id it made up when the provider's comes. The code also overwrites `call_id`
  at every further piece that has an id; `Opened` says that this changes nothing, since the call was opened by
  its first piece and has its id, and `Announced` that the events in the log carry it.
* `StreamIsStored`: `SameAsStored`, assuming `Coherent` and `ListNamesNodes`. Two pieces of code put the same chunks together, and
  not by the same rule: the emitter by index or by id, from the first piece on, and LangChain by index only, never within the
  first chunk. The property says that they agree when LangChain can join the pieces at all (`Joinable`), and is false without that. `TurnInv` runs the
  two side by side: the calls of the emitter are, one by one and in order, those of the message put together of the pieces before the ones
  left in `cur` (`Gathering`), its text is what the stored message has but for the text still in `cur` (`TextSaved`), and what was
  reported is what it keeps (`Sent`). `Match` says of a call on either side that the pieces which find it by key are those which LangChain
  joins to it by index, and `Seen` that each stored call has had a piece, so that a second piece of it comes in a later chunk. The stored message grows by
  whole chunks and the emitter by pieces: `Gathered` says that adding what is left in `cur` gives the stored calls, whether or not
  the chunk is the message's first (`AtFirst`). The items made of the message are then counted (`Lasting`).

### `EventsEmitter`

Four theorems hold however runs of models and tools overlap and whatever tools do:

* `EventsTypeCorrect`: `TypeOK`. Its `Control` says that only a chunk that found a message leaves text to emit, and that the
  end of a model run is handled when no chunk is pending; so the message does not go away under its text.
* `IndicesUnique`: `IndexUnique`. `IndexUnique` alone is not inductive, because it speaks of the log and the code reads
  its own tables. `HeldAnnounced` says that every open item is in the log at the index it is kept under, `Numbered` that
  indices and items are handed out in order, so that the next is unused.
* `OutputsAreMatched`: `OutputsMatched`. `ToolsKept` says that an output that is open was announced for the tool run it
  is kept under, `Kinds` that the kind of an item tells which table keeps it.
* `FinalListIsDone`: `OutputIsDone`. `OutputSoFar` says that `completed_output` is at any time the list of what has been
  reported done: the `k`-th such event is its `k`-th entry, counted with `Cardinality` and not by recursion.
* `ArgumentsInOneItem`: `ArgsOnce`. `HeldOnce` says that each piece of arguments is in exactly one place, an item of the output
  or a call still open, and `Settled` that no call is kept when no model run is open. The place moves when a call
  is closed (`Holds`), which happens to the calls of all runs when the first one ends.

The others assume `Sequential`, which is what an agent loop does: `MaxOpen <= 1` and `Faults = {}`.

* `SequentialRunsImplementProtocol`: `Spec => Protocol`. `OneRun` says that there is a current message exactly while a model run is open,
  and that no call outlives its run. `Told` is as for the other emitter, with tools' outputs as a third kind of item.
* `StreamsOnlyAsked`, `SequentialStreamsAll`: the two halves of `NothingLost`; the first, that nothing else is streamed, needs no
  `Sequential`. Both assume `ListNamesNodes`.
* `SequentialSinkComplete`: `SinkComplete`. `Sunk` says that the text streamed is, as a sequence, that of the sink and then that of the current
  message, if it has not been handed to the sink yet.
* `SequentialCallsReassembled`: `CallsReassembled`, assuming `Coherent` too. `Coherent` says nothing of pieces of different runs,
  whose indices are the same; that they are kept apart is due to the table being emptied at the end of a run. `CallsInv` says
  that deltas are of one item exactly when their pieces are of one call of one run (`Grouped`), and what makes this inductive: what
  was streamed for a call in the table came from the run that is open, and all that the open run streamed went to calls in
  the table (`Traced`), what is left in `cur` is of that run too (`FromRun`), keys and items differ (`KeysApart`), and each
  token was delivered once (`Delivered`).

### `ChatStream`

* `ChatImplementsProtocol`: `ChatStream` implements `ChatProtocol`. `Told` says that `pc` tells what the last chunk
  was, and `pending_tool_call` whether the last delta was of a call. No assumption on the chunks is needed.
* `ChatTypeCorrect`: `TypeOK`, which is inductive.
* `ChatFinishMatches`: `FinishMatches`. The generator knows only whether its last delta was of a call, the other route looks at
  the last message. `Unfinished` says that no reason is given before the end, `Roles` which messages are streamed and by whom
  the others are, that a run without an answer has nothing pending, and `CallsLast` that, once all of a chunk is yielded, `pending_tool_call` holds exactly when the last message has calls, as
  long as no text came after them.
* `ChatFaithful`: `Faithful`. `Account` says that what the models said is what was sent and what is left in `cur`, as sets of
  pieces, and `SentInOrder` that the pieces of a chunk leave in their order, after all that came before.
* `ChatCallsApart`: `CallsApart`. The two tables of the generator are compared with the deltas in the log: `FromPieces` says
  which piece of the provider each fragment is from, `KeysApart` that different keys of `tool_index` have different indices, `CallTold` for each delta how
  it came to its index (by the provider's index, by id, or by position), and `NewIndex` that a call with no name gets an index that none
  has had. It assumes `Coherent`.
* `ItemIdsAreUnique`: `ItemIdsUnique`. `Named` says that a message has its place for its id and that each call that LangChain keeps of it has its id and
  index from pieces of its own upstream call (`Stems`). So two calls of one message with one id are of one upstream call, which is the exception the property
  names (`Parted`): pieces with an id and no index stay calls of their own. It assumes `Coherent`: without it one id may be of two upstream calls.
* `PagesAreHonest`: `PageHonest` needs only that the items are a sequence.
* `ChatRoutesAgree`: `RoutesAgree`. `Agreed` says that the text sent and left is the concatenation of the texts of the messages
  streamed, and the arguments sent and left, as a set of pieces, those of their calls, readable or not. A message that grows, a new one, and one that
  is not streamed each keep it (`TextsGoOn`, `TextsGrow`, `TextsLonger`). That the items made of the messages say the same is shown one kind of message at
  a time (`AssistantSaid`, `OthersSaid`) and put together by `FlatConcat`, which says that choosing from a concatenation is concatenating what
  is chosen. Calls that LangChain could not read make no items, so that the arguments reported are among those sent, and those sent
  are reported or unread (`ArgsRead`).

### `ResponsesService`

The proofs look at a step only through what it does to the requests and the stores. `StepKinds` says that
it is one of four effects: a graph is registered or the router mounted (`SetupEffect`), a request arrives (`ArrivalEffect`, which also covers deletions
and lookups), one goes on (`ProgressEffect`), or the server restarts (`CrashEffect`). An invariant is then shown to survive four effects instead of
every action.

* `ServiceTypeCorrect`: `TypeOK`, with `Serving`: only runs have something to save, and requests wait for the router.
* `ConversationsApart`: `Isolated`. `Apart` says that what is saved in a thread, worked on by a run or replied comes from requests
  to that thread and checkpointer; the messages carry whose they are, and without the part about `history` a run could
  bring in anything when it saves. `Fresh` says that a request that names no conversation, or a response in a way that cannot be parsed (`Anonymous`), has a thread that none before it had.
* `DeletedStaysAway`: `DeletedStays`. `AwayFrom(d)` says that nobody from before the deletion `d` is still running there, which is what
  `alone` means for a deletion, so that all that is saved or worked on there later is of later requests.
* `ResponsesAreOwnTurns`: `ReplyOwnTurn`. `RunStands` says that what a run works on ends with its own turn, its input and the messages it produced,
  numbered from 1, and that before it there is as much as was counted. The count is taken at an earlier await than the history is loaded, so
  `Counted` says that the two still agree when the run starts, and `Solitary` that a request that has its conversation to itself shares it with no other in
  progress, which is why nothing was saved in between.
* `TurnsAreKept`: `Kept`. `StaysKept` says that a run that is alone has saved what it works on, and that once its turn is reported, it
  stands in its thread and in the history of every run that has loaded that thread since. The second half is needed because the
  last run to save wins: a run that had loaded the thread before the turn was there would take it away.
  That no graph is a database (`GraphAssumption`) is needed here: a crash empties the memory of the graphs and leaves the databases alone.

### How, and what is only model-checked

`SelectSeq` and the folds of the library are recursive, and the prover cannot look into them. The models select and join
with functions instead: `ResponsesService` selects messages by their rank (`Selected`), for which two lemmas
suffice (`SelectedType`, `SelectedInterval`), the items of a conversation are made with `Concat` and a message with `AddFragments` and
`PutTogether`, recursive functions on the length of a sequence. The library's induction theorems
are no use here, because they take an operator; induction over such a function is on a set, the natural numbers that have the property
(`UpTo` in `ChunkProofs`). It shows that the function exists, and what one more element adds (`MessageProofs`), and the
invariants go on from there.

Only model-checked: liveness (`Answered`, `Served`), which with `ENABLED` is beyond the prover; and that the bad
things the violated properties speak of do happen, for which the runs of section 5 have a behaviour.

## 5. Where the code and what is said of it differ

* `astream_two_turns` / `CallsReassembled`: the emitter behind the
  routes keys calls by the provider's index for a whole run, and the index starts
  again with each model turn. The second turn's call is appended to the first's item.
* `astream_reasoning` / `DeltasAnchored`: reasoning is streamed under the id of a message
  that only text announces.
* `chat_direct` / `OnlyPendingCalls`: a tool that the graph has executed, and whose result is the
  answer, is handed to the client with `finish_reason` "tool_calls". The final answer of a model that says nothing after its tools
  answered ends in the same way, against the same comment (`chat.py` 99-101).
* `service_overlap` / `OnlyThisTurn`: the count of earlier messages is stale when
  it is used, and a response contains another request's output.
* `service_repeat` / `OnlyGenerated`: a response to an input that repeats an earlier
  answer contains that answer as output.
* `service_conversation` / `ConversationIsThread`: the same `conv_` id is one
  thread for Responses and another for chat.

One more difference is in the models but in no run: `Accepts` takes an empty list of streamable nodes for none, so
every node is streamed (`responses.py` 437), while the repository's README (79-80) says of the list "if set, only stream tokens emitted
by these node names; None streams all". `OnlyListedNodes` is false with an empty list, which is why the theorem about it assumes
`ListNamesNodes`.

The models contain more behaviours that a reader may not expect, but of which no text
of the repository promises anything else. The passing properties are stated so
that they leave them out:

* `emit_response_sse` with overlapping model runs: the end of one run closes and
  clears the calls of the others (`responses.py` 806); a run that starts replaces an open message, whose
  text then reaches neither the final output nor `output_sink` (647). A tool that raises leaves its item open.
* Two overlapping turns of one thread overwrite each other, and a deletion during a run
  does not last. GET returns all turns of a thread, since they share one response id.
* A run that removes messages may leave no more of them than there were, or some of its
  own before the old count; its response then has the whole history, or lacks its own first messages.
* A call whose id comes only after its first piece is announced under an id that the emitter made up, and closed under
  the provider's.
* The chat stream ends without a finish chunk when the graph raises. Indices that a
  provider gives start again with each message, so calls of different messages share
  them, and may share one with a call the adapter numbered. Answers of tools and of nodes without a model
  are not streamed. The finish reason forgets a call when text follows it in the same
  message; the comment (`chat.py` 99-101) takes such text for an agent's that has handled the call.
* The stream and the stored message put calls together by different rules. Pieces with an id and no index are one call in a stream of the
  Responses API and one index in a chat stream, but several calls in the stored message, as are, with or without an index, those that come together in
  the first chunk of a message. A call of such a piece makes an item with the same id as the others, or none, if the piece is no object by itself. Calls
  whose arguments LangChain cannot read are missing from the stored items too. Arguments that were repaired or written anew are another text
  than the one streamed, "{}" where nothing was. `SameAsStored`, `RoutesAgree`, `FinishMatches` and `ItemIdsUnique` say what remains.
* The items of several thinking blocks of one message have the same id, and so have its calls
  without an id and those with one id. The ids of streamed items are random and those of the same items read
  later are hashes, so `SameAsStored` does not compare them.
* `has_more` is TRUE when exactly `limit` items exist, and a negative limit counts from the end.

## 6. What is not modelled

* The JSON of events, their validation by the OpenAI models (including which
  item types their unions accept), the SSE bytes, and the text of
  ids: formatting.
* `extract_text`, `request_to_context`, `_input_to_messages`, error bodies: joining and copying of fields.
* Messages without an id, whose items are named after the address of an object (`id(message)`).
* Messages that interleave in a chat stream, as chunks of parallel nodes do: `ChatStream` adds chunks to the last message only.
* `input_items` as a request: it reads what `Get` reads and changes nothing. Its page is `Page` in `MessageItems`.
* The contents of tool outputs, beyond whose they are.
* `EventsEmitter` composed with `MessageItems`: the routes do not use that emitter.

## 7. Plan

Done, in this order: the protocol and the routes' emitter, with their proofs; the
second emitter; the service; the chat stream with its protocol; the conversion of
messages, composed with both streams; runs that trim their history; the proofs of what the
routes' emitter streams and reports, and of the chat protocol; the proofs about the second
emitter and about the service; the proofs of all that is checked of the chat stream; the
proofs of how both Responses emitters put calls together, and that a streamed turn is the stored one.

No safety property of a passing run is left without a theorem. What would be next:

1. The liveness of the emitters in a form within reach of the prover: a measure of what is left to do
   that every step of `Emit` makes smaller.
2. `EventsEmitter` composed with `MessageItems`, as `StreamedTurn` does for the routes' emitter, if the routes come to use it.
