--------------------------- MODULE ResponseStream ---------------------------
(***************************************************************************)
(* What a client of the Responses API may rely on when it reads a streamed *)
(* response: the event protocol that both emitters of                      *)
(* adapters/responses.py promise to follow.  The specification says which  *)
(* event may follow a given prefix of the stream and nothing about how the *)
(* server computes it.                                                     *)
(*                                                                         *)
(* A stream is a sequence of events, all of one record shape:              *)
(*   type    the event type, without its "response." prefix                *)
(*   item    the output item the event is about                            *)
(*   idx     its output_index                                              *)
(*   call    the call_id (and name) of a function call                     *)
(*   body    the delta of a delta event, the text or the arguments of a    *)
(*           done event                                                    *)
(*   output  the output list of the final response, records [item, call,   *)
(*           body]                                                         *)
(* A field that an event type does not carry holds a filler.  The position *)
(* of an event in the stream is its sequence_number plus one.              *)
(***************************************************************************)
EXTENDS Integers, Sequences

CONSTANTS
  Messages,   \* identifiers of message items
  Calls,      \* identifiers of function-call items
  Outputs     \* identifiers of function-call-output items

VARIABLE stream

Items == Messages \cup Calls \cup Outputs

-----------------------------------------------------------------------------
(* What a prefix s of a stream has told the client.                        *)

\* An event of type t about item x occurs in s.
Seen(s, t, x) == \E i \in DOMAIN s : s[i].type = t /\ s[i].item = x

\* Item x has been announced, and announced at output index k.
AddedAt(s, x, k) ==
  \E i \in DOMAIN s : s[i].type = "item.added" /\ s[i].item = x /\ s[i].idx = k

\* Some item has been announced at output index k.
Placed(s, k) == \E i \in DOMAIN s : s[i].type = "item.added" /\ s[i].idx = k

\* Item o.item has been reported done with exactly the content of o.
DoneAs(s, o) ==
  \E i \in DOMAIN s : /\ s[i].type = "item.done"
                      /\ s[i].item = o.item
                      /\ s[i].call = o.call
                      /\ s[i].body = o.body

\* The response has been reported completed or failed.
Over(s) == \E i \in DOMAIN s : s[i].type \in {"completed", "failed"}

-----------------------------------------------------------------------------
(* Which event e may follow the prefix s.                                  *)

\* The item of e is open: announced where e places it and not yet done.
OnOpenItem(s, e) ==
  /\ AddedAt(s, e.item, e.idx)
  /\ ~Seen(s, "item.done", e.item)

Begins(s, e) ==
  \/ e.type = "created" /\ Len(s) = 0
  \/ e.type = "in_progress" /\ Len(s) = 1

\* Items are announced once each, at output indices 0, 1, 2, ... without gaps.
Announces(s, e) ==
  /\ e.type = "item.added"
  /\ e.item \in Items
  /\ ~Seen(s, "item.added", e.item)
  /\ e.idx \in Nat /\ ~Placed(s, e.idx)
  /\ \A k \in 0 .. (e.idx - 1) : Placed(s, k)

\* Reasoning precedes the end of the message it belongs to.
Reasons(s, e) ==
  /\ e.type = "reasoning.delta"
  /\ e.item \in Messages
  /\ ~Seen(s, "text.done", e.item)

\* A message: its one part is added, grows, is closed, and then the item is.
SpeaksOfMessage(s, e) ==
  /\ e.item \in Messages
  /\ OnOpenItem(s, e)
  /\ \/ e.type = "part.added" /\ ~Seen(s, "part.added", e.item)
     \/ /\ e.type \in {"text.delta", "text.done"}
        /\ Seen(s, "part.added", e.item) /\ ~Seen(s, "text.done", e.item)
     \/ /\ e.type = "part.done"
        /\ Seen(s, "text.done", e.item) /\ ~Seen(s, "part.done", e.item)
     \/ e.type = "item.done" /\ Seen(s, "part.done", e.item)

\* A function call: its arguments grow, are closed, and then the item is.
SpeaksOfCall(s, e) ==
  /\ e.item \in Calls
  /\ OnOpenItem(s, e)
  /\ \/ /\ e.type \in {"args.delta", "args.done"}
        /\ ~Seen(s, "args.done", e.item)
     \/ e.type = "item.done" /\ Seen(s, "args.done", e.item)

\* The output of a call: it comes whole, with the end of the item.
SpeaksOfOutput(s, e) ==
  /\ e.item \in Outputs
  /\ OnOpenItem(s, e)
  /\ e.type = "item.done"

\* The response ends with items as they were reported done.  A completed one
\* lists each announced item once; a failed one may come at any time.
Ends(s, e) ==
  /\ Len(s) >= 2
  /\ \A j \in DOMAIN e.output : DoneAs(s, e.output[j])
  /\ \/ e.type = "failed"
     \/ /\ e.type = "completed"
        /\ \A i \in DOMAIN s : s[i].type = "item.added"
              => \E j \in DOMAIN e.output : e.output[j].item = s[i].item
        /\ \A j, k \in DOMAIN e.output :
              e.output[j].item = e.output[k].item => j = k

Legal(s, e) ==
  /\ ~Over(s)
  /\ \/ Begins(s, e)
     \/ Len(s) >= 2 /\ (\/ Announces(s, e)
                        \/ Reasons(s, e)
                        \/ SpeaksOfMessage(s, e)
                        \/ SpeaksOfCall(s, e)
                        \/ SpeaksOfOutput(s, e))
     \/ Ends(s, e)

-----------------------------------------------------------------------------
Init == stream = <<>>

\* The stream grows by one event that may follow it.
Next ==
  /\ Len(stream') = Len(stream) + 1
  /\ stream' = Append(stream, stream'[Len(stream')])
  /\ Legal(stream, stream'[Len(stream')])

Spec == Init /\ [][Next]_stream
=============================================================================
