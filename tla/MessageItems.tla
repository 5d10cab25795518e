---------------------------- MODULE MessageItems ----------------------------
(***************************************************************************)
(* From the messages of a conversation to what a client is answered        *)
(* without streaming: the Responses items of adapters/responses.py 60-237  *)
(* and a page of them, and the chat answer of routes/chat.py.  Nothing     *)
(* here has state.                                                         *)
(*                                                                         *)
(* As in ResponseEvents a text is a sequence of tokens.  An identifier     *)
(* made by hashing some values is the tuple of these values.               *)
(***************************************************************************)
EXTENDS ResponseEvents

CONSTANT Garbled  \* the upstream calls whose arguments are no JSON object

ASSUME GarbledAssumption == Garbled \subseteq Nat

-----------------------------------------------------------------------------
(* Messages.                                                               *)

\* A message of LangChain: what it says; if it is the assistant's, its calls, in the
\* order of tool_call_chunks, and its thinking, one text or None when it is in
\* additional_kwargs and any number of blocks when it is in the content; if it is a
\* tool's, the id of the call it answers.
Message(id, role, text) ==
  [id |-> id, role |-> role, text |-> text, calls |-> <<>>,
   thought |-> None, blocks |-> <<>>, answers |-> None]

\* Whether the arguments of f read as an object, parse_partial_json having closed what
\* is open: there are none, or they begin one.  What comes from the middle of an
\* upstream call's arguments is no object by itself.
Token(t) == IF t = 0 THEN <<>> ELSE <<t>>
Begins(calls, f) ==
  f.origin = 0 \/ \A n \in DOMAIN calls : calls[n].origin = f.origin => calls[n].args = <<>>
IsObject(calls, f) == f.args = 0 \/ (Begins(calls, f) /\ f.origin \notin Garbled)

\* merge_lists: a fragment with an index is merged into the first call that has this
\* index and, if both have one, its id; any other is a call of its own.  The fragments
\* of the first chunk of a message are never merged with each other.
Joins(call, f) ==
  /\ f.index # None /\ call.index = f.index
  /\ call.id = None \/ f.id = None \/ call.id = f.id
IsTarget(calls, f, n) == Joins(calls[n], f) /\ \A k \in 1 .. (n - 1) : ~Joins(calls[k], f)

Merged(call, f, object) ==
  [call EXCEPT !.id = IdOf(call, f.id), !.args = @ \o Token(f.args),
               !.object = IF call.args = <<>> THEN object ELSE @]

AddFragment(calls, f, first) ==
  IF ~first /\ \E n \in DOMAIN calls : Joins(calls[n], f)
  THEN [n \in DOMAIN calls |->
          IF IsTarget(calls, f, n) THEN Merged(calls[n], f, IsObject(calls, f)) ELSE calls[n]]
  ELSE Append(calls, [origin |-> f.origin, index |-> f.index, id |-> f.id,
                      args |-> Token(f.args), object |-> IsObject(calls, f)])

AddFragments(calls, frags, first) ==
  LET upto[n \in 0 .. Len(frags)] ==
        IF n = 0 THEN calls ELSE AddFragment(upto[n - 1], frags[n], first)
  IN  upto[Len(frags)]

\* AIMessageChunk addition: what chunk c, the first of its message or a later one,
\* adds to it.
AddChunk(m, c, first) ==
  [m EXCEPT !.text = @ \o Token(c.text),
            !.blocks = IF c.reasoning = 0 THEN @ ELSE Append(@, Token(c.reasoning)),
            !.calls = AddFragments(@, c.frags, first)]

\* The tool_calls of a message: the others are in invalid_tool_calls, where nothing
\* looks for them.
ToolCalls(m) ==
  Concat([i \in DOMAIN m.calls |-> IF m.calls[i].object THEN <<m.calls[i]>> ELSE <<>>])

\* json.dumps of the object that a text has been read as; nothing is read as {}.
Object(text) == [object |-> text]

-----------------------------------------------------------------------------
(* Items.                                                                  *)

Item(type, id, role, call, body) ==
  [type |-> type, id |-> id, role |-> role, call |-> call, body |-> body]

\* _message_id, _reasoning_id, _function_call_id, _function_call_output_id.
MessageId(m) == <<"msg", m.id>>
ReasoningId(m) == <<"rs", m.id>>
BugFunctionCallId(m, call) == <<"fc", m.id>>
FunctionCallId(m, call) == <<"fc", m.id, call>>
OutputId(m) == <<"fco", m.id>>

\* The texts of a message's reasoning items: what additional_kwargs hold, or else
\* the thinking blocks that are not empty.
Thoughts(m) ==
  IF m.thought # None THEN <<m.thought>>
  ELSE Concat([i \in DOMAIN m.blocks |-> IF m.blocks[i] = <<>> THEN <<>> ELSE <<m.blocks[i]>>])

\* An assistant message: its reasoning, its calls, and then its text, or an empty
\* item when there are no calls either.
ReasoningItems(m) ==
  [i \in DOMAIN Thoughts(m) |-> Item("reasoning", ReasoningId(m), None, None, Thoughts(m)[i])]
CallItem(m, call) ==
  Item("function_call", FunctionCallId(m, call.id), None, call.id, Object(call.args))
CallItems(m) == [i \in DOMAIN ToolCalls(m) |-> CallItem(m, ToolCalls(m)[i])]
TextItems(m) ==
  IF m.text # <<>> \/ ToolCalls(m) = <<>>
  THEN <<Item("message", MessageId(m), "assistant", None, m.text)>> ELSE <<>>
BugAiItems(m) == ReasoningItems(m) \o TextItems(m) \o CallItems(m)
AiItems(m) == ReasoningItems(m) \o CallItems(m) \o TextItems(m)

ItemsOf(m) ==
  CASE m.role \in {"user", "system"} -> <<Item("message", MessageId(m), m.role, None, m.text)>>
    [] m.role = "assistant" -> AiItems(m)
    [] m.role = "tool" ->
         <<Item("function_call_output", OutputId(m), None, m.answers, m.text)>>

\* lc_messages_to_openai_items, and the output of messages_to_response_dict, without
\* what the client said itself.
ItemList(messages) == Concat([i \in DOMAIN messages |-> ItemsOf(messages[i])])
Given(x) == x.type = "message" /\ x.role \in {"user", "system"}
BugResponseOutput(messages) == ItemList(messages)
ResponseOutput(messages) ==
  LET items == ItemList(messages)
  IN  Concat([i \in DOMAIN items |-> IF Given(items[i]) THEN <<>> ELSE <<items[i]>>])

\* GET /responses/{id}/input_items: items[:limit], where a negative limit counts
\* from the end, and has_more.
Slice(items, limit) ==
  IF limit >= 0 THEN SubSeq(items, 1, IF limit < Len(items) THEN limit ELSE Len(items))
                ELSE SubSeq(items, 1, Len(items) + limit)
BugHasMore(data, limit) == Len(data) > limit
HasMore(data, limit) == Len(data) = limit
Page(items, limit) ==
  [data |-> Slice(items, limit), more |-> HasMore(Slice(items, limit), limit)]

-----------------------------------------------------------------------------
(* The chat answer.                                                        *)

\* result_to_text: the text of the last message, whoever it is from.
LastMessage(messages) == messages[Len(messages)]
ResultText(messages) == IF messages = <<>> THEN <<>> ELSE LastMessage(messages).text

\* _openai_tool_calls: a call without an id is given one, here <<0, n>>.
OpenaiToolCalls(m) ==
  [i \in DOMAIN ToolCalls(m) |->
     [id |-> IdOf(ToolCalls(m)[i], <<0, i>>), args |-> Object(ToolCalls(m)[i].args)]]

\* Only a last message of the assistant has calls that are pending.
PendingCalls(messages) ==
  IF messages = <<>> \/ LastMessage(messages).role # "assistant" THEN <<>>
  ELSE OpenaiToolCalls(LastMessage(messages))

ChatAnswer(messages) ==
  [text |-> ResultText(messages), calls |-> PendingCalls(messages),
   finish |-> IF PendingCalls(messages) # <<>> THEN "tool_calls" ELSE "stop"]
=============================================================================
