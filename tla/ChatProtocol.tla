---------------------------- MODULE ChatProtocol ----------------------------
(***************************************************************************)
(* What a client of the Chat Completions API may rely on when it reads a   *)
(* stream: the role comes first and once, then text and call deltas in any *)
(* number, then one finish chunk, then the [DONE] marker, and nothing      *)
(* after.  The finish reason is "tool_calls" exactly when the last delta   *)
(* was of a call.  A stream may be cut short anywhere.                     *)
(***************************************************************************)
EXTENDS Sequences

VARIABLE stream   \* the chunks received, records with at least type and finish

LastType(s) == IF s = <<>> THEN "nothing" ELSE s[Len(s)].type

Legal(s, e) ==
  \/ LastType(s) = "nothing" /\ e.type = "role"
  \/ LastType(s) \in {"role", "text", "call"} /\ e.type \in {"text", "call"}
  \/ /\ LastType(s) \in {"role", "text", "call"} /\ e.type = "finish"
     /\ e.finish = IF LastType(s) = "call" THEN "tool_calls" ELSE "stop"
  \/ LastType(s) = "finish" /\ e.type = "done"

Init == stream = <<>>

\* The stream grows by one chunk that may follow it.
Next ==
  /\ stream' # <<>>
  /\ LET e == stream'[Len(stream')]
     IN stream' = Append(stream, e) /\ Legal(stream, e)

Spec == Init /\ [][Next]_stream
=============================================================================
