--------------------------- MODULE ResponsesService ---------------------------
(***************************************************************************)
(* The routes of graphserve, their registry and the checkpointers behind   *)
(* them: routes/responses.py, routes/chat.py, registry.py, router.py and   *)
(* _ids.py.  The server keeps nothing itself; a conversation is the list   *)
(* of messages that the checkpointer of a graph holds for a thread, and a  *)
(* response id names a model and a thread.                                 *)
(*                                                                         *)
(* Handlers are coroutines, so any number of requests is in progress at    *)
(* once and they interleave at every await.  A step is what one of them    *)
(* does between two awaits.  A LangGraph run is modelled by what the       *)
(* routes see of it: it loads the thread when it starts, adds the input,   *)
(* then messages, saves its own list of messages after each, and returns   *)
(* that list.                                                              *)
(*                                                                         *)
(* Message n of request r is [by |-> r, n |-> n].  The input is the user's  *)
(* message 0, or an earlier answer that the client repeats, message -1,    *)
(* and then message 0; the run adds messages 1, 2, ...                     *)
(* Requests are numbered in the order they arrive.  A definition whose     *)
(* name begins with Bug is a plausible mistake in the one after it.        *)
(***************************************************************************)
EXTENDS Integers, Sequences, FiniteSets, Functions

CONSTANTS
  None,           \* Python's None
  Models,         \* model names a client may ask for
  Graphs,         \* compiled graphs; graph g is also the InMemorySaver made for it
  GraphOf,        \* the graph that is registered under a model
  Databases,      \* checkpointers that outlive the server
  CompiledWith,   \* the checkpointer a graph was compiled with, or None
  Trims,          \* graphs may remove messages from their state
  Conversations,  \* uuids 1 .. Conversations are of the Conversations API
  Kinds,          \* bound: the kinds of run that are asked for
  Inputs,         \* bound: the inputs, sequences of -1 and 0
  Spellings,      \* bound: how a client writes a conversation, see Anchors
  MaxRequests,    \* bound: requests
  MaxMessages     \* bound: messages a run adds

ASSUME GraphAssumption ==
  /\ GraphOf \in [Models -> Graphs] /\ CompiledWith \in [Graphs -> Databases \cup {None}]
  /\ Graphs \cap Databases = {}
ASSUME TrimsAssumption == Trims \in BOOLEAN
ASSUME NoneIsNoSaver == None \notin Graphs \cup Databases
ASSUME NoneIsNoThread == None \notin [uuid : Nat, as : {"uuid", "conv", "hex", "text"}]
ASSUME KindsAssumption ==
  Kinds \subseteq {"response", "chat", "streamed response", "streamed chat"}
ASSUME InputsAssumption == Inputs \subseteq {<<0>>, <<-1, 0>>}
ASSUME SpellingsAssumption == Spellings \subseteq {"conv", "uuid", "text"}
ASSUME ServiceBoundsAssumption == {Conversations, MaxRequests, MaxMessages} \subseteq Nat

VARIABLES
  registered,  \* the models in the registry
  mounted,     \* create_openai_router has been called
  saver,       \* graph.checkpointer
  store,       \* what each checkpointer holds: thread -> messages
  lastUuid,    \* the last uuid handed out
  req,         \* the requests, answered or in progress
  crashedAt    \* history: requests received when the server crashed, or 0

vars == <<registered, mounted, saver, store, lastUuid, req, crashedAt>>

-----------------------------------------------------------------------------
Savers == Graphs \cup Databases
SaverOf(m) == saver[GraphOf[m]]

\* graph.aget_state: the messages of a thread, none if it is unknown or if the
\* graph has no checkpointer (the ValueError is caught).
Saved(m, t) ==
  IF SaverOf(m) # None /\ t \in DOMAIN store[SaverOf(m)] THEN store[SaverOf(m)][t] ELSE <<>>

\* A checkpoint replaces the messages of the thread.
Save(m, t, msgs) ==
  store' = IF SaverOf(m) = None THEN store
           ELSE [store EXCEPT ![SaverOf(m)] =
                   [x \in DOMAIN @ \cup {t} |-> IF x = t THEN msgs ELSE @[x]]]

InProgress(q) == q.pc \in {"count", "invoke", "run"}
Chats == {"chat", "streamed chat"}
Streams == {"streamed response", "streamed chat"}
Posts == {"response"} \cup Chats \cup Streams

\* Two requests work on the same saved conversation.
SamePlace(p, q) == p.thread = q.thread /\ SaverOf(p.model) = SaverOf(q.model)

Messages(r, n) == [i \in 1 .. n |-> [by |-> r, n |-> i]]

\* The elements of s at the positions I, in their order: the n-th of them is at the
\* position up to which there are n.
Selected(s, I) ==
  [n \in 1 .. Cardinality(I) |-> s[CHOOSE i \in I : Cardinality({j \in I : j <= i}) = n]]

\* Where the messages of request r are.
By(msgs, r) == {i \in DOMAIN msgs : msgs[i].by = r}

\* The items of messages, but for those of users.
Output(msgs) == Selected(msgs, {i \in DOMAIN msgs : msgs[i].n # 0})

-----------------------------------------------------------------------------
(* Starting the server.                                                    *)

Init ==
  /\ registered = {} /\ mounted = FALSE
  /\ saver = CompiledWith
  /\ store = [s \in Savers |-> <<>>]
  /\ lastUuid = Conversations
  /\ req = <<>> /\ crashedAt = 0

\* registry.register; a name already taken raises and changes nothing.
Register(m) ==
  /\ m \notin registered
  /\ registered' = registered \cup {m}
  /\ UNCHANGED <<mounted, saver, store, lastUuid, req, crashedAt>>

\* create_openai_router gives the graphs registered so far, if they were
\* compiled without a checkpointer, one in memory.
Mount ==
  /\ ~mounted /\ mounted' = TRUE
  /\ saver' = [g \in Graphs |->
                 IF saver[g] = None /\ g \in {GraphOf[m] : m \in registered} THEN g ELSE saver[g]]
  /\ UNCHANGED <<registered, store, lastUuid, req, crashedAt>>

-----------------------------------------------------------------------------
(* Requests arrive.                                                        *)

Request(kind, m, t) ==
  [kind |-> kind, model |-> m, thread |-> t, anchor |-> t, input |-> <<>>,
   pc |-> "done", status |-> 200, count |-> 0, history |-> <<>>, reply |-> <<>>, alone |-> TRUE, trimmed |-> FALSE]

\* Request q is the next.  History: it, and any request in progress on the same
\* conversation, are not alone there.
Arrives(q) ==
  LET others == {r \in DOMAIN req : InProgress(req[r]) /\ SamePlace(req[r], q)}
  IN req' = Append([r \in DOMAIN req |-> [req[r] EXCEPT !.alone = @ /\ r \notin others]],
                   [q EXCEPT !.alone = others = {}])

\* registry.resolve fails: 404.
Unknown(m) ==
  /\ mounted /\ Len(req) < MaxRequests
  /\ m \notin registered
  /\ req' = Append(req, [Request("unknown", m, None) EXCEPT !.status = 404])
  /\ UNCHANGED <<registered, mounted, saver, store, lastUuid, crashedAt>>

\* What a client names a conversation with: its id (conv_<hex>), the bare uuid, or a
\* text that no uuid can be read from, which chat takes for a name too.
Anchors == [uuid : 1 .. lastUuid, as : Spellings]
Names(kind, anchor) == anchor # None /\ (anchor.as = "text" => kind \in Chats)
BugUuidThread(u) == [uuid |-> u, as |-> "resp"]
UuidThread(u) == [uuid |-> u, as |-> "uuid"]

\* The thread_id of a request that names no conversation is a fresh uuid.  A response
\* parses its anchor, an id of either kind or the uuid, to the uuid, and if that raises
\* ValueError takes a fresh one; chat takes metadata.conversation_id as it is written.
BugFreshUuid == lastUuid
FreshUuid == lastUuid + 1
ResponseThread(anchor) ==
  UuidThread(IF Names("response", anchor) THEN anchor.uuid ELSE FreshUuid)
ChatThread(anchor) == IF anchor = None THEN [uuid |-> FreshUuid, as |-> "hex"] ELSE anchor
ThreadOf(kind, anchor) == IF kind \in Chats THEN ChatThread(anchor) ELSE ResponseThread(anchor)

\* POST /responses and POST /chat/completions: only a response that is not
\* streamed counts the messages of the thread before the run.
Create(kind, m, anchor, input) ==
  /\ mounted /\ Len(req) < MaxRequests
  /\ m \in registered
  /\ Arrives([Request(kind, m, ThreadOf(kind, anchor)) EXCEPT
                !.pc = IF kind = "response" THEN "count" ELSE "invoke", !.status = None,
                !.anchor = anchor, !.input = input])
  /\ lastUuid' = IF Names(kind, anchor) THEN lastUuid ELSE FreshUuid
  /\ UNCHANGED <<registered, mounted, saver, store, crashedAt>>

\* GET /responses/{id}: everything the thread holds, but for the user's part.
Get(m, t) ==
  /\ mounted /\ Len(req) < MaxRequests
  /\ m \in registered
  /\ req' = Append(req, [Request("get", m, t) EXCEPT !.reply = Output(Saved(m, t))])
  /\ UNCHANGED <<registered, mounted, saver, store, lastUuid, crashedAt>>

\* DELETE /responses/{id}: the graph's checkpointer, if there is one, forgets the
\* thread.
BugForgottenNot(m, t) == store
BugForgottenAll(m, t) == [s \in Savers |-> <<>>]
Forgotten(m, t) ==
  IF SaverOf(m) = None THEN store
  ELSE [store EXCEPT ![SaverOf(m)] = Restrict(@, DOMAIN @ \ {t})]

Delete(m, t) ==
  /\ mounted /\ Len(req) < MaxRequests
  /\ m \in registered
  /\ Arrives(Request("delete", m, t))
  /\ store' = Forgotten(m, t)
  /\ UNCHANGED <<registered, mounted, saver, lastUuid, crashedAt>>

-----------------------------------------------------------------------------
(* Requests go on.                                                         *)

Goes(r, q) ==
  /\ req' = [req EXCEPT ![r] = q]
  /\ UNCHANGED <<registered, mounted, saver, lastUuid, crashedAt>>

\* initial_message_count, 0 when there is no checkpointer to ask.
Count(r) ==
  /\ req[r].pc = "count"
  /\ Goes(r, [req[r] EXCEPT !.pc = "invoke", !.count = Len(Saved(req[r].model, req[r].thread))])
  /\ UNCHANGED store

\* The run of request r saves its messages.
Checkpoints(r, msgs) ==
  /\ Goes(r, [req[r] EXCEPT !.pc = "run", !.history = msgs])
  /\ Save(req[r].model, req[r].thread, msgs)

\* graph_input: the messages of the request.
InputOf(r) == [i \in DOMAIN req[r].input |-> [by |-> r, n |-> req[r].input[i]]]

\* ainvoke or astream: the run starts from the thread and the input.
BugInvoke(r) ==  \* waits until nobody else is there, who may be waiting too
  /\ req[r].pc = "invoke"
  /\ \A o \in DOMAIN req \ {r} : ~(InProgress(req[o]) /\ SamePlace(req[o], req[r]))
  /\ Checkpoints(r, Saved(req[r].model, req[r].thread) \o InputOf(r))

Invoke(r) ==
  /\ req[r].pc = "invoke"
  /\ Checkpoints(r, Saved(req[r].model, req[r].thread) \o InputOf(r))

Produced(r) == Cardinality({i \in By(req[r].history, r) : req[r].history[i].n > 0})

\* The run adds a message.
Step(r) ==
  /\ req[r].pc = "run" /\ Produced(r) < MaxMessages
  /\ Checkpoints(r, Append(req[r].history, [by |-> r, n |-> Produced(r) + 1]))

\* A node of the run removes the messages of all other turns, as one that summarises
\* a conversation does.
Trim(r) ==
  /\ Trims /\ req[r].pc = "run"
  /\ LET own == Selected(req[r].history, By(req[r].history, r))
     IN /\ own # req[r].history
        /\ Goes(r, [req[r] EXCEPT !.history = own, !.trimmed = TRUE])
        /\ Save(req[r].model, req[r].thread, own)

\* all_messages[initial_message_count:], or all if there are no more than before.
BugNewMessages(all, count) == all
NewMessages(all, count) ==
  IF count < Len(all) THEN SubSeq(all, count + 1, Len(all)) ELSE all

\* The answer: what was streamed, the items of the new messages, or, for chat,
\* the last message.
Answer(r) ==
  LET q == req[r]
  IN IF q.kind \in Streams THEN Messages(r, Produced(r))
     ELSE IF q.kind = "response" THEN Output(NewMessages(q.history, q.count))
     ELSE <<q.history[Len(q.history)]>>

Finish(r) ==
  /\ req[r].pc = "run" /\ Produced(r) > 0
  /\ Goes(r, [req[r] EXCEPT !.pc = "done", !.status = 200, !.reply = Answer(r)])
  /\ UNCHANGED store

\* The graph raises: an internal error, or a stream that fails.
Raise(r) ==
  /\ req[r].pc = "run"
  /\ Goes(r, [req[r] EXCEPT !.pc = "done", !.status = 500])
  /\ UNCHANGED store

\* The reader of a stream goes away, and the run is abandoned with it.
Leave(r) ==
  /\ req[r].kind \in Streams /\ InProgress(req[r])
  /\ Goes(r, [req[r] EXCEPT !.pc = "gone"])
  /\ UNCHANGED store

\* The server crashes and is started again: what was in progress is gone, and so
\* is what only its memory held.  Bound: one crash, after a request.
Crash ==
  /\ mounted /\ crashedAt = 0 /\ req # <<>>
  /\ crashedAt' = Len(req)
  /\ req' = [r \in DOMAIN req |-> IF InProgress(req[r]) THEN [req[r] EXCEPT !.pc = "gone"]
                                                        ELSE req[r]]
  /\ store' = [s \in Savers |-> IF s \in Graphs THEN <<>> ELSE store[s]]
  /\ UNCHANGED <<registered, mounted, saver, lastUuid>>

-----------------------------------------------------------------------------
Advance(r) == r \in DOMAIN req /\ (\/ Count(r) \/ Invoke(r) \/ Step(r) \/ Trim(r)
                                 \/ Finish(r) \/ Raise(r))

Next ==
  \/ \E m \in Models : Register(m) \/ Unknown(m)
  \/ Mount
  \/ \E kind \in Kinds, m \in Models, anchor \in Anchors \cup {None}, input \in Inputs :
       Create(kind, m, anchor, input)
  \/ \E m \in Models, u \in 1 .. lastUuid : Get(m, UuidThread(u)) \/ Delete(m, UuidThread(u))
  \/ \E r \in DOMAIN req : Advance(r) \/ Leave(r)
  \/ Crash

Spec == Init /\ [][Next]_vars

\* The event loop resumes every handler whose await is over, and a run makes
\* progress and ends (its recursion limit sees to that) or raises.
FairSpec == Spec /\ \A r \in 1 .. MaxRequests : WF_vars(Advance(r))

-----------------------------------------------------------------------------
(* Properties.                                                             *)

Message == [by : Nat, n : Int]
Threads == [uuid : 1 .. lastUuid, as : {"uuid", "conv", "hex", "text"}]
RequestKinds == Posts \cup {"get", "delete", "unknown"}
Places == {"count", "invoke", "run", "done", "gone"}
Statuses == {None, 200, 404, 500}
Requests ==
  [kind : RequestKinds, model : Models, thread : Threads \cup {None},
   anchor : Threads \cup {None}, input : Seq(Int), pc : Places, status : Statuses,
   count : Nat, history : Seq(Message), reply : Seq(Message),
   alone : BOOLEAN, trimmed : BOOLEAN]

\* The variables have their types.
TypeOK ==
  /\ registered \subseteq Models /\ mounted \in BOOLEAN
  /\ saver \in [Graphs -> Savers \cup {None}]
  /\ DOMAIN store = Savers
  /\ \A s \in Savers : \A t \in DOMAIN store[s] : t \in Threads /\ store[s][t] \in Seq(Message)
  /\ lastUuid \in Nat /\ req \in Seq(Requests) /\ crashedAt \in 0 .. Len(req)

Succeeded(r) == req[r].pc = "done" /\ req[r].status = 200

\* Conversations never mix: what a run is given and what a reply contains comes
\* from requests on the same thread of the same checkpointer, and a request that
\* names no conversation, or a response in a way that cannot be parsed, sees nothing
\* older than itself, though any number of requests is in progress on this and on
\* other threads (responses.py 98-108).
Anonymous(q) == q.anchor = None \/ (q.anchor.as = "text" /\ q.kind \notin Chats)
Isolated ==
  \A r \in DOMAIN req :
    \A msg \in Range(req[r].history) \cup Range(req[r].reply) :
      SamePlace(req[msg.by], req[r]) /\ (Anonymous(req[r]) => msg.by >= r)

\* A response to a request that had its conversation to itself, whose input is the
\* user's and whose run removes no messages, is exactly what this turn generated,
\* whatever the turns before it left there: answered, failed, abandoned, trimmed,
\* deleted or lost in a crash (responses.py 147-158).
ReplyOwnTurn ==
  \A r \in DOMAIN req :
    (/\ Succeeded(r) /\ req[r].kind = "response" /\ req[r].alone /\ ~req[r].trimmed
     /\ req[r].input = <<0>>)
      => req[r].reply = Messages(r, Produced(r))

\* A turn reported to the client, and alone while it ran, stays in its
\* conversation as it was reported, through any later turns, even overlapping,
\* failing and abandoned ones, until the conversation is deleted, its graph removes
\* it or the memory it was kept in is lost (README: "state is managed through the checkpointer").
Kept ==
  \A r \in DOMAIN req :
    (/\ Succeeded(r) /\ req[r].kind \in Posts /\ req[r].alone
     /\ SaverOf(req[r].model) \in Databases \/ (SaverOf(req[r].model) # None /\ r > crashedAt)
     /\ \A d \in (r + 1) .. Len(req) :
          SamePlace(req[d], req[r]) => req[d].kind # "delete" /\ ~req[d].trimmed)
      => LET saved == Saved(req[r].model, req[r].thread)
         IN Selected(saved, By(saved, r)) = InputOf(r) \o Messages(r, Produced(r))

\* What was deleted while nothing was running on it does not come back, in this or
\* in any later request (responses.py 209-215).
DeletedStays ==
  \A d \in DOMAIN req :
    (Succeeded(d) /\ req[d].kind = "delete" /\ req[d].alone /\ SaverOf(req[d].model) # None) =>
      LET gone(msgs) == \A i \in DOMAIN msgs : msgs[i].by > d
      IN /\ gone(Saved(req[d].model, req[d].thread))
         /\ \A r \in (d + 1) .. Len(req) : SamePlace(req[r], req[d]) => gone(req[r].reply)

\* Every request is answered, or its reader leaves, or the server crashes.
Over(r) == r \in DOMAIN req /\ ~InProgress(req[r])
Served == \A r \in 1 .. MaxRequests : (r \in DOMAIN req) ~> Over(r)

\* "Extract only the new messages generated in this turn (not full conversation
\* history)" (responses.py 157), said of every response.
OnlyThisTurn ==
  \A r \in DOMAIN req :
    (Succeeded(r) /\ req[r].kind = "response") =>
      \A i \in DOMAIN req[r].reply : req[r].reply[i].by = r

\* The same comment, said of a response to an input that repeats an earlier answer:
\* what it extracts is generated by the run.
OnlyGenerated ==
  \A r \in DOMAIN req :
    (Succeeded(r) /\ req[r].kind = "response" /\ req[r].alone) =>
      \A i \in DOMAIN req[r].reply : req[r].reply[i].n > 0

\* "conv_<hex> -- a conversation id (the LangGraph thread_id)" (_ids.py 5): requests
\* that name the same conversation in the same way work on the same thread.
ConversationIsThread ==
  \A p, r \in DOMAIN req :
    (req[p].anchor = req[r].anchor /\ ~Anonymous(req[p]) /\ ~Anonymous(req[r]))
      => req[p].thread = req[r].thread
=============================================================================
