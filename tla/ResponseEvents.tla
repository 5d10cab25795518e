--------------------------- MODULE ResponseEvents ---------------------------
(***************************************************************************)
(* What the two Responses emitters of adapters/responses.py share: the     *)
(* shape of events, of message chunks and of the tool-call fragments in    *)
(* them, and the rule that tells which call a fragment belongs to.         *)
(*                                                                         *)
(* Text, reasoning and argument fragments are tokens, numbers handed out   *)
(* in the order the graph produces them, so a piece of content that is     *)
(* lost, repeated, reordered or attributed to the wrong item shows.  A     *)
(* text is the sequence of its tokens, which makes "+=" an Append.         *)
(*                                                                         *)
(* In this and the modules that use it, a definition whose name begins     *)
(* with Bug is a plausible mistake in the one after it, which no           *)
(* specification uses.                                                     *)
(***************************************************************************)
EXTENDS Integers, Sequences

CONSTANT None   \* Python's None

ASSUME NoneAssumption == None \notin Int

-----------------------------------------------------------------------------
(* Chunks.                                                                 *)

\* A fragment of a tool call: its index and id (0, 1, ... or None), whether it
\* carries argument text, and the upstream call it is a part of (0 if the
\* provider sends it as a call of its own).  The code never sees origin.
Fragment == [index : Nat \cup {None}, id : Nat \cup {None},
             args : BOOLEAN, origin : Nat]

\* A chunk: the node that produced it, whether it is an AIMessageChunk, what
\* it carries.
ChunkKind(node) == [node : node, ai : BOOLEAN, reasoning : BOOLEAN,
                    text : BOOLEAN, frags : Seq(Fragment)]

\* A delivered chunk of kind k, when fed is the last token handed out: its
\* content becomes the next tokens, and what it does not carry is 0.
Fill(k, fed) ==
  [node |-> k.node, ai |-> k.ai,
   reasoning |-> IF k.reasoning THEN fed + 1 ELSE 0,
   text |-> IF k.text THEN fed + 2 ELSE 0,
   frags |-> [j \in DOMAIN k.frags |->
                [index |-> k.frags[j].index, id |-> k.frags[j].id,
                 args |-> IF k.frags[j].args THEN fed + 2 + j ELSE 0,
                 origin |-> k.frags[j].origin]]]

\* What is left to process of a chunk.
Contents(c) == [reasoning |-> c.reasoning, text |-> c.text, frags |-> c.frags]
Nothing == [reasoning |-> 0, text |-> 0, frags |-> <<>>]

\* The tokens of a chunk.
TokensOf(c) ==
  ({c.reasoning, c.text} \cup {c.frags[j].args : j \in DOMAIN c.frags}) \ {0}

\* tcc.get("id") or a default.
BugIdOf(f, default) == f.id
IdOf(f, default) == IF f.id # None THEN f.id ELSE default

\* _tool_call_chunk_key: by index, else by id, else a key nobody else has.
BugKeyOf(f, fresh) == IF f.index \notin {0, None} THEN <<"index", f.index>>
                      ELSE IF f.id # None THEN <<"id", f.id>>
                      ELSE <<"anon", fresh>>
KeyOf(f, fresh) == IF f.index # None THEN <<"index", f.index>>
                   ELSE IF f.id # None THEN <<"id", f.id>>
                   ELSE <<"anon", fresh>>

\* A provider that can be followed: two pieces with an index are of the same call
\* exactly when they agree on it, so are two with an id, and one with neither is a
\* call of its own.
Followable(pieces) ==
  \A f, g \in pieces :
    /\ f.origin = 0 <=> f.index = None /\ f.id = None
    /\ f.index # None /\ g.index # None => (f.index = g.index <=> f.origin = g.origin)
    /\ f.id # None /\ g.id # None => (f.id = g.id <=> f.origin = g.origin)

\* And it gives all pieces of a call an index, or none of them.
NamedOneWay(pieces) ==
  \A f, g \in pieces :
    f.origin = g.origin /\ f.origin # 0 => (f.index = None <=> g.index = None)

-----------------------------------------------------------------------------
(* Events.                                                                 *)

About(t, item, idx, call, body) ==
  [type |-> t, item |-> item, idx |-> idx, call |-> call, body |-> body, output |-> <<>>]

\* An event about the response as a whole.
Plain(t) == About(t, None, None, None, <<>>)

DeltaTypes == {"reasoning.delta", "text.delta", "args.delta"}

EventType == DeltaTypes \cup
             {"created", "in_progress", "item.added", "part.added", "text.done", "part.done",
              "args.done", "item.done", "completed", "failed"}

\* The sequences in ss, one after the other.
Concat(ss) ==
  LET upto[n \in 0 .. Len(ss)] == IF n = 0 THEN <<>> ELSE upto[n - 1] \o ss[n]
  IN  upto[Len(ss)]

-----------------------------------------------------------------------------
(* Types.                                                                  *)

Key == {"index", "id", "anon"} \X Nat
TokenFrag == [index : Nat \cup {None}, id : Nat \cup {None}, args : Nat, origin : Nat]
Pending == [reasoning : Nat, text : Nat, frags : Seq(TokenFrag)]
=============================================================================
