------------------------ MODULE AstreamContentProofs ------------------------
(***************************************************************************)
(* What AstreamEmitter does with the content of the run: it streams what   *)
(* the caller asked for, nothing else, each piece once and in order, all   *)
(* of it before it reports the response completed; the texts and arguments *)
(* it reports done are those it has streamed.  If the provider says which  *)
(* call a piece belongs to, the pieces land in that call, under the id it  *)
(* was announced with, and what is reported done is what the thread stores.*)
(***************************************************************************)
EXTENDS AstreamEmitterProofs, StreamedTurn, MessageProofs

-----------------------------------------------------------------------------
(* The invariant.  Every piece that was asked for is either streamed or    *)
(* still in cur, and what is in cur comes later than all that is streamed. *)

Left == TokensOf(cur)

Ordered ==
  /\ InOrder(cur)
  /\ \A x \in Left : x <= fed
  /\ \A i \in DeltaPositions : /\ log[i].body[1] \in Nat /\ log[i].body[1] <= fed
                               /\ \A x \in Left : log[i].body[1] < x
  /\ DeltasInOrder

\* An empty list of nodes names none, but the code then filters nothing.
ListNamesNodes == StreamableNodes = None \/ StreamableNodes # {}

Accounted ==
  /\ \E S : source \in Seq(S)
  /\ Asked \subseteq Streamed \cup Left
  /\ ListNamesNodes => Streamed \cup Left \subseteq Asked

\* Where arguments are owed they are next; when the run is over nothing is left;
\* and a completed response is the end.
Placed ==
  /\ pc = "args" => cur.reasoning = 0 /\ cur.text = 0 /\ Head(cur.frags).args # 0
  /\ pc \notin {"stream", "part", "args", "gone"} => Spent
  /\ (\E i \in DOMAIN log : log[i].type = "completed") => pc = "end"

TokenInv == Ordered /\ Accounted /\ Placed

-----------------------------------------------------------------------------
(* The chunk being processed.                                              *)

\* The tokens that are left are positive numbers.
LEMMA LeftType == ASSUME TypeOK PROVE Left \subseteq Nat \ {0}
  BY TokensType DEF TypeOK, Left

LEMMA SpentLeft == Spent => Left = {} /\ InOrder(cur)
  BY NothingLeft DEF Spent, Left

\* The reasoning, which is the first piece left, or else the text.
LEMMA PieceTaken ==
  ASSUME TypeOK, InOrder(cur), NEW x, x # 0,
         \/ x = cur.reasoning /\ cur' = [cur EXCEPT !.reasoning = 0]
         \/ x = cur.text /\ cur.reasoning = 0 /\ cur' = [cur EXCEPT !.text = 0]
  PROVE  /\ InOrder(cur') /\ x \in Left /\ Left = Left' \cup {x}
         /\ \A y \in Left' : x < y
<1>1. cur \in Pending
  BY DEF TypeOK
<1> QED
  BY <1>1, TakeOut DEF Left

\* The first fragment left, with or without arguments.
LEMMA FragmentTaken ==
  ASSUME TypeOK, InOrder(cur), cur.reasoning = 0, cur.text = 0, cur.frags # <<>>, PopFragment
  PROVE  LET x == Head(cur.frags).args
         IN /\ InOrder(cur')
            /\ x = 0 => Left' = Left
            /\ x # 0 => /\ x \in Left /\ Left = Left' \cup {x}
                        /\ \A y \in Left' : x < y
<1>1. cur \in Pending /\ cur' = [cur EXCEPT !.frags = Tail(@)]
  BY DEF TypeOK, PopFragment
<1> QED
  BY <1>1, TakeFragment DEF Left

-----------------------------------------------------------------------------
(* What one more event changes.                                            *)

\* A delta of the first piece that is left moves it from what is left to what is
\* streamed.
LEMMA DeltaStep ==
  ASSUME TypeOK, Ordered, Accounted, UNCHANGED <<source, fed>>, InOrder(cur'),
         NEW x \in Left, Left = Left' \cup {x}, \A y \in Left' : x < y,
         NEW e, Yield(e), e.type \in DeltaTypes, e.body = <<x>>
  PROVE  Ordered' /\ Accounted'
<1>1. log \in Seq(Event) /\ fed \in Nat
  BY DEF TypeOK
<1>2. x \in Nat \ {0} /\ x <= fed /\ e.body[1] = x
  BY LeftType DEF Ordered
<1>3. Left' \subseteq Left /\ x \notin Left'
  BY <1>2, LeftType
<1>4. /\ DOMAIN log' = 1 .. (Len(log) + 1) /\ DOMAIN log = 1 .. Len(log) /\ Len(log) \in Nat
      /\ log'[Len(log) + 1] = e /\ \A i \in DOMAIN log : log'[i] = log[i]
  BY <1>1 DEF Yield
<1>5. DeltaPositions' = DeltaPositions \cup {Len(log) + 1}
  BY <1>4 DEF DeltaPositions
<1>6. DeltaPositions \subseteq DOMAIN log
  BY DEF DeltaPositions
<1>7. \A i \in DeltaPositions : log'[i].body[1] = log[i].body[1]
  BY <1>4, <1>6
<1>8. \A i \in DeltaPositions' :
        /\ log'[i].body[1] \in Nat /\ log'[i].body[1] <= fed
        /\ \A y \in Left' : log'[i].body[1] < y
  BY <1>2, <1>3, <1>4, <1>5, <1>7 DEF Ordered
<1>9. \A i, j \in DeltaPositions' : i < j => log'[i].body[1] < log'[j].body[1]
  <2> SUFFICES ASSUME NEW i \in DeltaPositions', NEW j \in DeltaPositions', i < j
               PROVE  log'[i].body[1] < log'[j].body[1]
    OBVIOUS
  <2>1. i \in DeltaPositions
    BY <1>4, <1>5, <1>6
  <2>2. CASE j \in DeltaPositions
    BY <1>7, <2>1, <2>2 DEF Ordered, DeltasInOrder
  <2>3. CASE j = Len(log) + 1
    BY <1>2, <1>4, <1>7, <2>1, <2>3 DEF Ordered
  <2> QED
    BY <1>5, <2>2, <2>3
<1>10. Ordered'
  BY <1>3, <1>8, <1>9 DEF Ordered, DeltasInOrder
<1>11. Streamed' = Streamed \cup {x}
  BY <1>2, <1>4, <1>5, <1>7 DEF Streamed
<1>12. Asked' = Asked
  BY DEF Asked
<1>13. Streamed' \cup Left' = Streamed \cup Left
  BY <1>11
<1> QED
  BY <1>10, <1>12, <1>13 DEF Accounted

\* A step that streams no content and drops none.
LEMMA OtherStep ==
  ASSUME TypeOK, Ordered, Accounted, UNCHANGED <<source, fed>>, InOrder(cur'), Left' = Left,
         \/ UNCHANGED log
         \/ \E e : Yield(e) /\ e.type \notin DeltaTypes
  PROVE  Ordered' /\ Accounted'
<1>1. log \in Seq(Event)
  BY DEF TypeOK
<1>2. DeltaPositions' = DeltaPositions /\ \A i \in DeltaPositions : log'[i] = log[i]
  <2>1. CASE UNCHANGED log
    BY <2>1 DEF DeltaPositions
  <2>2. CASE \E e : Yield(e) /\ e.type \notin DeltaTypes
    <3>1. PICK e : log' = Append(log, e) /\ e.type \notin DeltaTypes
      BY <2>2 DEF Yield
    <3>2. /\ DOMAIN log' = 1 .. (Len(log) + 1) /\ DOMAIN log = 1 .. Len(log) /\ Len(log) \in Nat
          /\ log'[Len(log) + 1] = e /\ \A i \in DOMAIN log : log'[i] = log[i]
      BY <1>1, <3>1
    <3>3. \A i : i \in DeltaPositions' <=> i \in DeltaPositions
      <4> SUFFICES ASSUME NEW i PROVE i \in DeltaPositions' <=> i \in DeltaPositions
        OBVIOUS
      <4>1. /\ i \in DeltaPositions' <=> i \in DOMAIN log' /\ log'[i].type \in DeltaTypes
            /\ i \in DeltaPositions <=> i \in DOMAIN log /\ log[i].type \in DeltaTypes
        BY DEF DeltaPositions
      <4>2. CASE i = Len(log) + 1
        BY <3>1, <3>2, <4>1, <4>2
      <4>3. CASE i # Len(log) + 1
        BY <3>2, <4>1, <4>3
      <4> QED
        BY <4>2, <4>3
    <3> QED
      BY <3>2, <3>3 DEF DeltaPositions
  <2> QED
    BY <2>1, <2>2
<1>3. Streamed' = Streamed
  BY <1>2 DEF Streamed
<1>4. Asked' = Asked
  BY DEF Asked
<1>5. Ordered'
  BY <1>2 DEF Ordered, DeltasInOrder
<1> QED
  BY <1>3, <1>4, <1>5 DEF Accounted

\* A chunk adds to what is asked for, if its node is listed, what is then left.
LEMMA ChunkStep ==
  ASSUME TypeOK, Ordered, Accounted, Spent, NEW k \in Chunks, NextChunk(k)
  PROVE  Ordered' /\ Accounted'
<1> DEFINE c == Fill(k, fed)
<1>0. fed \in Nat /\ fed' = fed + 2 + Len(k.frags) /\ log' = log
  BY DEF TypeOK, NextChunk
<1>1. Len(k.frags) \in Nat /\ fed <= fed' /\ fed' \in Nat
  <2>1. Len(k.frags) \in Nat
    BY <1>0, FillType
  <2>2. \A n \in Nat : fed + 2 + n \in Nat /\ fed <= fed + 2 + n
    BY <1>0
  <2> QED
    BY <1>0, <2>1, <2>2
<1>2. Left = {}
  BY SpentLeft
<1>3. /\ InOrder(cur') /\ \A x \in Left' : x \in Nat /\ fed < x /\ x <= fed'
      /\ Left' = IF Accepts(k) THEN TokensOf(c) ELSE {}
  <2>1. CASE Accepts(k)
    <3>1. cur' = Contents(c)
      BY <2>1 DEF NextChunk
    <3> QED
      BY <1>0, <2>1, <3>1, FillOrder, ChunksAssumption DEF Left
  <2>2. CASE ~Accepts(k)
    <3>1. cur' = Nothing
      BY <2>2 DEF NextChunk
    <3>2. InOrder(Nothing) /\ TokensOf(Nothing) = {}
      BY DEF InOrder, Nothing, TokensOf
    <3> QED
      BY <2>2, <3>1, <3>2 DEF Left
  <2> QED
    BY <2>1, <2>2
<1>4. DeltaPositions' = DeltaPositions /\ Streamed' = Streamed
  BY <1>0 DEF DeltaPositions, Streamed
<1>5. Ordered'
  <2>1. \A i \in DeltaPositions : log[i].body[1] \in Nat /\ log[i].body[1] <= fed
    BY DEF Ordered
  <2>2. \A i \in DeltaPositions : log[i].body[1] <= fed' /\ \A x \in Left' : log[i].body[1] < x
    <3> SUFFICES ASSUME NEW i \in DeltaPositions
                 PROVE  log[i].body[1] <= fed' /\ \A x \in Left' : log[i].body[1] < x
      OBVIOUS
    <3>1. log[i].body[1] \in Nat /\ log[i].body[1] <= fed
      BY <2>1
    <3>2. \A a \in Nat : a <= fed => a <= fed' /\ \A x \in Left' : a < x
      <4> SUFFICES ASSUME NEW a \in Nat, a <= fed
                   PROVE  a <= fed' /\ \A x \in Left' : a < x
        OBVIOUS
      <4>1. a <= fed'
        <5>1. fed \in Nat /\ fed' \in Nat /\ fed <= fed'
          BY <1>0, <1>1
        <5> QED
          BY <5>1
      <4>2. ASSUME NEW x \in Left' PROVE a < x
        <5>1. fed \in Nat /\ x \in Nat /\ fed < x
          BY <1>0, <1>3, <4>2
        <5> QED
          BY <5>1
      <4> QED
        BY <4>1, <4>2
    <3> QED
      BY <3>1, <3>2
  <2> QED
    BY <1>0, <1>3, <1>4, <2>1, <2>2 DEF Ordered, DeltasInOrder
<1>6. PICK S : source \in Seq(S)
  BY DEF Accounted
<1>7. source' = Append(source, c)
  BY DEF NextChunk
<1>8. source \in Seq(S \cup {c}) /\ source' \in Seq(S \cup {c})
  BY <1>6, <1>7
<1>9. /\ DOMAIN source' = 1 .. (Len(source) + 1) /\ DOMAIN source = 1 .. Len(source)
      /\ Len(source) \in Nat /\ source'[Len(source) + 1] = c
      /\ \A n \in DOMAIN source : source'[n] = source[n]
  BY <1>7, <1>8
<1>10. Asked' = Asked \cup (IF Listed(c) THEN TokensOf(c) ELSE {})
  <2>1. \A x : x \in Asked' <=> \E n \in DOMAIN source' :
                                  Listed(source'[n]) /\ x \in TokensOf(source'[n])
    BY DEF Asked, Listed
  <2>2. \A x : x \in Asked <=> \E n \in DOMAIN source :
                                 Listed(source[n]) /\ x \in TokensOf(source[n])
    BY DEF Asked
  <2> HIDE DEF c
  <2>3. ASSUME NEW x \in Asked' PROVE x \in Asked \cup (IF Listed(c) THEN TokensOf(c) ELSE {})
    <3>1. PICK n \in DOMAIN source' : Listed(source'[n]) /\ x \in TokensOf(source'[n])
      BY <2>1, <2>3
    <3> QED
      BY <1>9, <2>2, <3>1
  <2>4. Asked \subseteq Asked'
    BY <1>9, <2>1, <2>2
  <2>5. Listed(c) => TokensOf(c) \subseteq Asked'
    <3>1. Len(source) + 1 \in DOMAIN source'
      BY <1>9
    <3> QED
      BY <1>9, <2>1, <3>1
  <2> QED
    BY <2>3, <2>4, <2>5
<1>11. Listed(c) => Accepts(k)
  BY DEF Listed, Accepts, Fill
<1>12. ListNamesNodes => (Listed(c) <=> Accepts(k))
  BY DEF Listed, Accepts, Fill, ListNamesNodes
<1>13. (\E T : source \in Seq(T))'
  BY <1>8
<1>14. Asked' \subseteq Streamed' \cup Left'
  BY <1>2, <1>3, <1>4, <1>10, <1>11 DEF Accounted
<1>15. ListNamesNodes => Streamed' \cup Left' \subseteq Asked'
  BY <1>2, <1>3, <1>4, <1>10, <1>12 DEF Accounted
<1> QED
  BY <1>5, <1>13, <1>14, <1>15 DEF Accounted, ListNamesNodes

-----------------------------------------------------------------------------
LEMMA TokenInit == Init => TokenInv
<1> SUFFICES ASSUME Init PROVE TokenInv
  OBVIOUS
<1>1. /\ pc = "start" /\ source = <<>> /\ cur = Nothing /\ log = <<>> /\ fed = 0
  BY DEF Init
<1>2. Left = {} /\ InOrder(cur)
  BY <1>1 DEF Left, TokensOf, Nothing, InOrder
<1>3. DeltaPositions = {} /\ Streamed = {} /\ Asked = {}
  BY <1>1 DEF DeltaPositions, Streamed, Asked
<1>4. Ordered
  BY <1>2, <1>3 DEF Ordered, DeltasInOrder
<1>5. source \in Seq({})
  BY <1>1
<1>6. Accounted
  BY <1>2, <1>3, <1>5 DEF Accounted
<1>7. Placed
  BY <1>1 DEF Placed, Spent
<1> QED
  BY <1>4, <1>6, <1>7 DEF TokenInv

\* Every action yields the first piece that is left, takes in a chunk, or leaves the
\* content alone.
LEMMA TokenStep == TypeInv /\ TokenInv /\ [Next]_vars => TokenInv'
<1> SUFFICES ASSUME TypeInv, TokenInv, [Next]_vars PROVE TokenInv'
  OBVIOUS
<1>0. /\ TypeOK /\ Ordered /\ Accounted /\ Placed /\ InOrder(cur)
      /\ log \in Seq(Event) /\ cur \in Pending
      /\ pc = "args" => cur.frags # <<>>
  BY DEF TypeInv, TypeOK, Control, TokenInv, Ordered
\* What is left does not change, and no delta is yielded.
<1>1. ASSUME UNCHANGED <<source, fed, cur>>,
             UNCHANGED log \/ \E e : Yield(e) /\ e.type \notin DeltaTypes
      PROVE  Ordered' /\ Accounted'
  BY <1>0, <1>1, OtherStep DEF Left, TokensOf, InOrder
\* No completed event is yielded.
<1>2. ASSUME pc # "end",
             UNCHANGED log \/ \E e : Yield(e) /\ e.type # "completed"
      PROVE  ~ \E i \in DOMAIN log' : log'[i].type = "completed"
  <2>1. ~ \E i \in DOMAIN log : log[i].type = "completed"
    BY <1>0, <1>2 DEF Placed
  <2>2. CASE UNCHANGED log
    BY <2>1, <2>2
  <2>3. CASE \E e : Yield(e) /\ e.type # "completed"
    <3>1. PICK e : log' = Append(log, e) /\ e.type # "completed"
      BY <2>3 DEF Yield
    <3>2. /\ DOMAIN log' = 1 .. (Len(log) + 1) /\ DOMAIN log = 1 .. Len(log) /\ Len(log) \in Nat
          /\ log'[Len(log) + 1] = e /\ \A i \in DOMAIN log : log'[i] = log[i]
      BY <1>0, <3>1
    <3> QED
      BY <2>1, <3>1, <3>2
  <2> QED
    BY <1>2, <2>2, <2>3
<1>3. CASE Created
  <2>1. /\ pc = "start" /\ pc' = "begun" /\ UNCHANGED <<source, fed, cur>>
        /\ Yield(Plain("created")) /\ Plain("created").type = "created"
    BY <1>3 DEF Created, Plain, About
  <2> QED
    BY <1>0, <1>1, <1>2, <2>1 DEF TokenInv, Placed, Spent, DeltaTypes
<1>4. CASE InProgress
  <2>1. /\ pc = "begun" /\ pc' = "stream" /\ UNCHANGED <<source, fed, cur>>
        /\ Yield(Plain("in_progress")) /\ Plain("in_progress").type = "in_progress"
    BY <1>4 DEF InProgress, Plain, About
  <2> QED
    BY <1>0, <1>1, <1>2, <2>1 DEF TokenInv, Placed, DeltaTypes
<1>5. ASSUME NEW k \in Chunks, NextChunk(k) PROVE TokenInv'
  <2>1. pc = "stream" /\ pc' = pc /\ Spent /\ UNCHANGED log
    BY <1>5 DEF NextChunk
  <2>2. Ordered' /\ Accounted'
    BY <1>0, <1>5, <2>1, ChunkStep
  <2> QED
    BY <1>2, <2>1, <2>2 DEF TokenInv, Placed
<1>6. CASE EmitReasoning
  <2> DEFINE e == About("reasoning.delta", 0, None, None, <<cur.reasoning>>)
  <2>1. /\ pc = "stream" /\ pc' = pc /\ cur.reasoning # 0 /\ UNCHANGED <<source, fed>>
        /\ cur' = [cur EXCEPT !.reasoning = 0] /\ Yield(e)
    BY <1>6 DEF EmitReasoning
  <2>2. e.type = "reasoning.delta" /\ e.body = <<cur.reasoning>>
    BY DEF About
  <2> HIDE DEF e
  <2>3. /\ InOrder(cur') /\ cur.reasoning \in Left /\ Left = Left' \cup {cur.reasoning}
        /\ \A y \in Left' : cur.reasoning < y
    BY <1>0, <2>1, PieceTaken
  <2>4. Ordered' /\ Accounted'
    BY <1>0, <2>1, <2>2, <2>3, DeltaStep DEF DeltaTypes
  <2> QED
    BY <1>2, <2>1, <2>2, <2>4 DEF TokenInv, Placed
<1>7. CASE OpenMessage
  <2> DEFINE e == About("item.added", 0, nextIndex, None, <<>>)
  <2>1. /\ pc = "stream" /\ pc' = "part" /\ UNCHANGED <<source, fed, cur>>
        /\ Yield(e) /\ e.type = "item.added"
    BY <1>7 DEF OpenMessage, About
  <2> HIDE DEF e
  <2> QED
    BY <1>0, <1>1, <1>2, <2>1 DEF TokenInv, Placed, DeltaTypes
<1>8. CASE AddPart
  <2> DEFINE e == OfMessage("part.added", <<>>)
  <2>1. /\ pc = "part" /\ pc' = "stream" /\ UNCHANGED <<source, fed, cur>>
        /\ Yield(e) /\ e.type = "part.added"
    BY <1>8 DEF AddPart, OfMessage, About
  <2> HIDE DEF e
  <2> QED
    BY <1>0, <1>1, <1>2, <2>1 DEF TokenInv, Placed, DeltaTypes
<1>9. CASE EmitText
  <2> DEFINE e == OfMessage("text.delta", <<cur.text>>)
  <2>1. /\ pc = "stream" /\ pc' = pc /\ UNCHANGED <<source, fed>>
        /\ cur.reasoning = 0 /\ cur.text # 0
        /\ cur' = [cur EXCEPT !.text = 0] /\ Yield(e)
    BY <1>9 DEF EmitText
  <2>2. e.type = "text.delta" /\ e.body = <<cur.text>>
    BY DEF OfMessage, About
  <2> HIDE DEF e
  <2>3. /\ InOrder(cur') /\ cur.text \in Left /\ Left = Left' \cup {cur.text}
        /\ \A y \in Left' : cur.text < y
    BY <1>0, <2>1, PieceTaken
  <2>4. Ordered' /\ Accounted'
    BY <1>0, <2>1, <2>2, <2>3, DeltaStep DEF DeltaTypes
  <2> QED
    BY <1>2, <2>1, <2>2, <2>4 DEF TokenInv, Placed
<1>10. CASE StartCall
  <2> DEFINE f == Head(cur.frags)
             c == [key |-> OwnKey(f), idx |-> nextIndex,
                   call |-> IdOf(f, -(Len(calls) + 1)), args |-> <<>>]
             e == OfCall("item.added", Len(calls) + 1, c, <<>>)
  <2>1. /\ pc = "stream" /\ cur.reasoning = 0 /\ cur.text = 0 /\ cur.frags # <<>>
        /\ UNCHANGED <<source, fed>> /\ Yield(e)
        /\ IF f.args # 0 THEN pc' = "args" /\ UNCHANGED cur ELSE PopFragment /\ UNCHANGED pc
    BY <1>10 DEF StartCall, AtFragment
  <2>2. e.type = "item.added"
    BY DEF OfCall, About
  <2> HIDE DEF e
  <2>3. CASE f.args # 0
    BY <1>0, <1>1, <1>2, <2>1, <2>2, <2>3 DEF TokenInv, Placed, DeltaTypes
  <2>4. CASE f.args = 0
    <3>1. InOrder(cur') /\ Left' = Left
      BY <1>0, <2>1, <2>4, FragmentTaken
    <3>2. Ordered' /\ Accounted'
      BY <1>0, <2>1, <2>2, <3>1, OtherStep DEF DeltaTypes
    <3> QED
      BY <1>2, <2>1, <2>2, <2>4, <3>2 DEF TokenInv, Placed
  <2> QED
    BY <2>3, <2>4
<1>11. CASE EmitArgs
  <2> DEFINE f == Head(cur.frags)
             e == ArgsDelta(Len(calls), f)
  <2>1. /\ pc = "args" /\ pc' = "stream" /\ UNCHANGED <<source, fed>> /\ Yield(e) /\ PopFragment
    BY <1>11 DEF EmitArgs
  <2>2. e.type = "args.delta" /\ e.body = <<f.args>>
    BY DEF ArgsDelta, About
  <2> HIDE DEF e
  <2>3. cur.reasoning = 0 /\ cur.text = 0 /\ f.args # 0 /\ cur.frags # <<>>
    BY <1>0, <2>1 DEF Placed
  <2>4. /\ InOrder(cur') /\ f.args \in Left /\ Left = Left' \cup {f.args}
        /\ \A y \in Left' : f.args < y
    BY <1>0, <2>1, <2>3, FragmentTaken
  <2>5. Ordered' /\ Accounted'
    BY <1>0, <2>1, <2>2, <2>4, DeltaStep DEF DeltaTypes
  <2> QED
    BY <1>2, <2>1, <2>2, <2>5 DEF TokenInv, Placed
<1>12. ASSUME NEW n \in DOMAIN calls, ContinueCall(n) PROVE TokenInv'
  <2> DEFINE f == Head(cur.frags)
             e == ArgsDelta(n, f)
  <2>1. /\ pc = "stream" /\ pc' = pc /\ cur.reasoning = 0 /\ cur.text = 0 /\ cur.frags # <<>>
        /\ UNCHANGED <<source, fed>> /\ PopFragment
        /\ IF f.args # 0 THEN Yield(e) ELSE UNCHANGED log
    BY <1>12 DEF ContinueCall, AtFragment
  <2>2. e.type = "args.delta" /\ e.body = <<f.args>>
    BY DEF ArgsDelta, About
  <2> HIDE DEF e
  <2>3. Ordered' /\ Accounted'
    <3>1. CASE f.args # 0
      <4>1. /\ InOrder(cur') /\ f.args \in Left /\ Left = Left' \cup {f.args}
            /\ \A y \in Left' : f.args < y
        BY <1>0, <2>1, <3>1, FragmentTaken
      <4> QED
        BY <1>0, <2>1, <2>2, <3>1, <4>1, DeltaStep DEF DeltaTypes
    <3>2. CASE f.args = 0
      <4>1. InOrder(cur') /\ Left' = Left
        BY <1>0, <2>1, <3>2, FragmentTaken
      <4> QED
        BY <1>0, <2>1, <3>2, <4>1, OtherStep
    <3> QED
      BY <3>1, <3>2
  <2> QED
    BY <1>2, <2>1, <2>2, <2>3 DEF TokenInv, Placed
<1>13. CASE EndOfStream
  <2>1. /\ pc = "stream" /\ pc' = "closing" /\ Spent /\ UNCHANGED <<source, fed, cur, log>>
    BY <1>13 DEF EndOfStream
  <2> QED
    BY <1>0, <1>1, <1>2, <2>1 DEF TokenInv, Placed, Spent
<1>14. CASE GraphRaises
  <2>1. /\ pc = "stream" /\ pc' = "end" /\ Spent /\ UNCHANGED <<source, fed, cur>>
        /\ Yield(Plain("failed")) /\ Plain("failed").type = "failed"
    BY <1>14 DEF GraphRaises, Plain, About
  <2> QED
    BY <1>0, <1>1, <1>2, <2>1 DEF TokenInv, Placed, Spent, DeltaTypes
\* The closing events repeat what has been streamed.
<1>15. CASE CloseArgs \/ CloseCall \/ CloseText \/ ClosePart \/ CloseMessage
  <2>1. /\ pc \in {"closing", "close_call", "close_part", "close_message"}
        /\ pc' \in {"closing", "close_call", "close_part", "close_message", "complete"}
        /\ UNCHANGED <<source, fed, cur>>
    BY <1>15 DEF CloseArgs, CloseCall, CloseText, ClosePart, CloseMessage
  <2>2. \E e : Yield(e) /\ e.type \in {"args.done", "item.done", "text.done", "part.done"}
    <3>1. ASSUME NEW n, NEW c, NEW body, NEW t
          PROVE  OfCall(t, n, c, body).type = t /\ OfMessage(t, body).type = t
      BY DEF OfCall, OfMessage, About
    <3>2. CASE CloseArgs
      BY <3>1, <3>2 DEF CloseArgs
    <3>3. CASE CloseCall
      BY <3>1, <3>3 DEF CloseCall
    <3>4. CASE CloseText
      BY <3>1, <3>4 DEF CloseText
    <3>5. CASE ClosePart
      BY <3>1, <3>5 DEF ClosePart
    <3>6. CASE CloseMessage
      BY <3>1, <3>6 DEF CloseMessage
    <3> QED
      BY <1>15, <3>2, <3>3, <3>4, <3>5, <3>6
  <2>3. \E e : Yield(e) /\ e.type \notin DeltaTypes /\ e.type # "completed"
    BY <2>2 DEF DeltaTypes
  <2> QED
    BY <1>0, <1>1, <1>2, <2>1, <2>3 DEF TokenInv, Placed, Spent
<1>16. CASE Complete
  <2> DEFINE e == [Plain("completed") EXCEPT !.output = output]
  <2>1. /\ pc \in {"closing", "complete"} /\ pc' = "end" /\ UNCHANGED <<source, fed, cur>>
        /\ Yield(e) /\ e.type = "completed"
    BY <1>16 DEF Complete, Plain, About
  <2> HIDE DEF e
  <2> QED
    BY <1>0, <1>1, <2>1 DEF TokenInv, Placed, Spent, DeltaTypes
<1>17. CASE Disconnect
  <2>1. pc # "end" /\ pc' = "gone" /\ UNCHANGED <<source, fed, cur, log>>
    BY <1>17 DEF Disconnect
  <2> QED
    BY <1>0, <1>1, <1>2, <2>1 DEF TokenInv, Placed
<1>18. CASE UNCHANGED vars
  <2>1. UNCHANGED <<pc, source, fed, cur, log>>
    BY <1>18 DEF vars
  <2> QED
    BY <1>0, <1>1, <2>1 DEF TokenInv, Placed, Spent
<1> QED
  BY <1>3, <1>4, <1>5, <1>6, <1>7, <1>8, <1>9, <1>10, <1>11, <1>12, <1>13, <1>14, <1>15,
     <1>16, <1>17, <1>18 DEF Next, Emit

LEMMA TokensKept == Spec => []TokenInv
<1>1. Init => TypeInv /\ TokenInv
  BY TypeInit, TokenInit
<1>2. TypeInv /\ TokenInv /\ [Next]_vars => (TypeInv /\ TokenInv)'
  BY TypeStep, TokenStep
<1> QED
  BY <1>1, <1>2, PTL DEF Spec

\* Deltas leave in the order the graph produced them and each once, for any run.
THEOREM StreamsInOrder == Spec => []DeltasInOrder
<1>1. TokenInv => DeltasInOrder
  BY DEF TokenInv, Ordered
<1> QED
  BY <1>1, TokensKept, PTL

\* Nothing from a node that is not listed is ever streamed, unless the list is
\* empty, which the code takes for no list.
THEOREM StreamsOnlyListed == ASSUME ListNamesNodes PROVE Spec => []OnlyListedNodes
<1>1. TokenInv => OnlyListedNodes
  BY DEF TokenInv, Accounted, OnlyListedNodes
<1> QED
  BY <1>1, TokensKept, PTL

\* A response reported completed has streamed everything that was asked for.
THEOREM StreamsAll == Spec => []NothingLost
<1>1. TokenInv => NothingLost
  <2> SUFFICES ASSUME TokenInv, \E i \in DOMAIN log : log[i].type = "completed"
               PROVE  Asked \subseteq Streamed
    BY DEF NothingLost
  <2>1. Left = {}
    BY SpentLeft DEF TokenInv, Placed
  <2> QED
    BY <2>1 DEF TokenInv, Accounted
<1> QED
  BY <1>1, TokensKept, PTL

-----------------------------------------------------------------------------
(* What is reported done.  What the code keeps of an item, and later reports, is   *)
(* what has been streamed of it; once an item is reported done there are   *)
(* no more deltas.                                                         *)

\* body is made of the pieces that the deltas of type t about item x have in l.
Assembles(l, body, t, x) ==
  /\ \A m, n \in DOMAIN body : m < n => body[m] < body[n]
  /\ {body[m] : m \in DOMAIN body}
       = {l[i].body[1] : i \in {k \in DOMAIN l : l[k].type = t /\ l[k].item = x}}

KindOf(item) == IF item = 0 THEN "text.delta" ELSE "args.delta"
DoneTypes == {"text.done", "part.done", "args.done", "item.done"}
Open == {"start", "begun", "stream", "part", "args"}

Kept ==
  /\ Assembles(log, message.text, "text.delta", 0)
  /\ \A n \in DOMAIN calls : Assembles(log, calls[n].args, "args.delta", n)
  /\ \A i \in DOMAIN log : log[i].type = "args.delta" => log[i].item \in DOMAIN calls

Reported ==
  /\ pc \in Open => \A i \in DOMAIN log : log[i].type \notin DoneTypes
  /\ \A i \in DOMAIN log : log[i].type \in DoneTypes
       => Assembles(log, log[i].body, KindOf(log[i].item), log[i].item)

AssemblyInv == Kept /\ Reported

-----------------------------------------------------------------------------
(* What one more event changes.                                            *)

LEMMA AppendEvent ==
  ASSUME NEW l \in Seq(Event), NEW e
  PROVE  /\ DOMAIN Append(l, e) = 1 .. (Len(l) + 1) /\ DOMAIN l = 1 .. Len(l) /\ Len(l) \in Nat
         /\ Append(l, e)[Len(l) + 1] = e /\ \A i \in DOMAIN l : Append(l, e)[i] = l[i]
  OBVIOUS

\* An event that is no delta of the item leaves what is assembled of it.
LEMMA AssemblesSame ==
  ASSUME NEW l \in Seq(Event), NEW e, NEW body, NEW t, NEW x,
         Assembles(l, body, t, x), e.type # t \/ e.item # x
  PROVE  Assembles(Append(l, e), body, t, x)
<1> DEFINE k == Append(l, e)
           Of(s) == {i \in DOMAIN s : s[i].type = t /\ s[i].item = x}
<1>1. /\ DOMAIN k = 1 .. (Len(l) + 1) /\ DOMAIN l = 1 .. Len(l) /\ Len(l) \in Nat
      /\ k[Len(l) + 1] = e /\ \A i \in DOMAIN l : k[i] = l[i]
  BY AppendEvent
<1> HIDE DEF k
<1>2. Of(k) = Of(l)
  <2> SUFFICES ASSUME NEW i PROVE i \in Of(k) <=> i \in Of(l)
    OBVIOUS
  <2>1. CASE i = Len(l) + 1
    BY <1>1, <2>1
  <2>2. CASE i # Len(l) + 1
    BY <1>1, <2>2
  <2> QED
    BY <2>1, <2>2
<1>3. \A i \in Of(l) : k[i] = l[i]
  BY <1>1
<1>4. {k[i].body[1] : i \in Of(k)} = {l[i].body[1] : i \in Of(l)}
  BY <1>2, <1>3
<1> QED
  BY <1>4 DEF Assembles, k

\* A delta that comes after all others of its type adds its piece.
LEMMA AssemblesMore ==
  ASSUME NEW l \in Seq(Event), NEW e, NEW body \in Seq(Nat), NEW y \in Nat,
         Assembles(l, body, e.type, e.item), e.body = <<y>>,
         \A i \in DOMAIN l : l[i].type = e.type => l[i].body[1] < y
  PROVE  Assembles(Append(l, e), Append(body, y), e.type, e.item)
<1> DEFINE k == Append(l, e)
           b == Append(body, y)
           Of(s) == {i \in DOMAIN s : s[i].type = e.type /\ s[i].item = e.item}
<1>1. /\ DOMAIN k = 1 .. (Len(l) + 1) /\ DOMAIN l = 1 .. Len(l) /\ Len(l) \in Nat
      /\ k[Len(l) + 1] = e /\ \A i \in DOMAIN l : k[i] = l[i]
  BY AppendEvent
<1>2. /\ DOMAIN b = 1 .. (Len(body) + 1) /\ DOMAIN body = 1 .. Len(body) /\ Len(body) \in Nat
      /\ b[Len(body) + 1] = y /\ \A m \in DOMAIN body : b[m] = body[m]
  OBVIOUS
<1>3. e.body[1] = y
  OBVIOUS
<1>4. \A m \in DOMAIN body : body[m] < y
  <2> SUFFICES ASSUME NEW m \in DOMAIN body PROVE body[m] < y
    OBVIOUS
  <2>1. PICK i \in Of(l) : body[m] = l[i].body[1]
    BY DEF Assembles
  <2> QED
    BY <2>1
<1> HIDE DEF k, b
<1>5. \A m, n \in DOMAIN b : m < n => b[m] < b[n]
  <2> SUFFICES ASSUME NEW m \in DOMAIN b, NEW n \in DOMAIN b, m < n PROVE b[m] < b[n]
    OBVIOUS
  <2>1. m \in DOMAIN body
    BY <1>2
  <2>2. CASE n \in DOMAIN body
    BY <1>2, <2>1, <2>2 DEF Assembles
  <2>3. CASE n = Len(body) + 1
    BY <1>2, <1>4, <2>1, <2>3
  <2> QED
    BY <1>2, <2>2, <2>3
<1>6. {b[m] : m \in DOMAIN b} = {body[m] : m \in DOMAIN body} \cup {y}
  <2>1. DOMAIN b = DOMAIN body \cup {Len(body) + 1}
    BY <1>2
  <2> QED
    BY <1>2, <2>1
<1>7. Of(k) = Of(l) \cup {Len(l) + 1}
  <2> SUFFICES ASSUME NEW i PROVE i \in Of(k) <=> i \in Of(l) \cup {Len(l) + 1}
    OBVIOUS
  <2>1. CASE i = Len(l) + 1
    BY <1>1, <2>1
  <2>2. CASE i # Len(l) + 1
    BY <1>1, <2>2
  <2> QED
    BY <2>1, <2>2
<1>8. {k[i].body[1] : i \in Of(k)} = {l[i].body[1] : i \in Of(l)} \cup {y}
  <2>1. \A i \in Of(l) : k[i].body[1] = l[i].body[1]
    BY <1>1
  <2>2. k[Len(l) + 1].body[1] = y
    BY <1>1, <1>3
  <2> HIDE DEF Of
  <2>3. ASSUME NEW z \in {k[i].body[1] : i \in Of(k)}
        PROVE  z \in {l[i].body[1] : i \in Of(l)} \cup {y}
    <3>1. PICK i \in Of(k) : z = k[i].body[1]
      BY <2>3
    <3> QED
      BY <1>7, <2>1, <2>2, <3>1
  <2>4. ASSUME NEW i \in Of(l) PROVE l[i].body[1] \in {k[j].body[1] : j \in Of(k)}
    BY <1>7, <2>1
  <2>5. y \in {k[i].body[1] : i \in Of(k)}
    BY <1>7, <2>2
  <2> QED
    BY <2>3, <2>4, <2>5
<1>9. {body[m] : m \in DOMAIN body} = {l[i].body[1] : i \in Of(l)}
  BY DEF Assembles
<1>10. {b[m] : m \in DOMAIN b} = {k[i].body[1] : i \in Of(k)}
  BY <1>6, <1>8, <1>9
<1> QED
  BY <1>5, <1>10 DEF Assembles, k, b

\* An event that is neither a text delta nor an argument delta, nor reports anything
\* done, while a call without arguments may be added.
LEMMA QuietStep ==
  ASSUME TypeInv, AssemblyInv, UNCHANGED message,
         NEW e, Yield(e), e.type \notin DoneTypes \cup {"text.delta", "args.delta"},
         pc' \in Open => pc \in Open,
         DOMAIN calls \subseteq DOMAIN calls',
         \A n \in DOMAIN calls : calls'[n].args = calls[n].args,
         \A n \in DOMAIN calls' \ DOMAIN calls : calls'[n].args = <<>> /\ n # 0
  PROVE  AssemblyInv'
<1>1. log \in Seq(Event) /\ log' = Append(log, e)
  BY DEF TypeInv, TypeOK, Yield
<1>2. /\ DOMAIN log' = 1 .. (Len(log) + 1) /\ DOMAIN log = 1 .. Len(log) /\ Len(log) \in Nat
      /\ log'[Len(log) + 1] = e /\ \A i \in DOMAIN log : log'[i] = log[i]
  BY <1>1, AppendEvent
<1>3. Assembles(log', message'.text, "text.delta", 0)
  BY <1>1, AssemblesSame DEF AssemblyInv, Kept
<1>4. ASSUME NEW n \in DOMAIN calls' PROVE Assembles(log', calls'[n].args, "args.delta", n)
  <2>1. CASE n \in DOMAIN calls
    BY <1>1, <2>1, AssemblesSame DEF AssemblyInv, Kept
  <2>2. CASE n \notin DOMAIN calls
    <3>1. calls'[n].args = <<>>
      BY <1>4, <2>2
    <3>2. \A i \in DOMAIN log' : ~(log'[i].type = "args.delta" /\ log'[i].item = n)
      BY <1>2, <2>2 DEF AssemblyInv, Kept
    <3> QED
      BY <3>1, <3>2 DEF Assembles
  <2> QED
    BY <2>1, <2>2
<1>5. \A i \in DOMAIN log' : log'[i].type = "args.delta" => log'[i].item \in DOMAIN calls'
  BY <1>2 DEF AssemblyInv, Kept
<1>6. pc' \in Open => \A i \in DOMAIN log' : log'[i].type \notin DoneTypes
  BY <1>2 DEF AssemblyInv, Reported
<1>7. ASSUME NEW i \in DOMAIN log', log'[i].type \in DoneTypes
      PROVE  Assembles(log', log'[i].body, KindOf(log'[i].item), log'[i].item)
  <2>1. i \in DOMAIN log /\ log'[i] = log[i]
    BY <1>2, <1>7
  <2>2. Assembles(log, log[i].body, KindOf(log[i].item), log[i].item)
    BY <1>7, <2>1 DEF AssemblyInv, Reported
  <2>3. e.type # KindOf(log[i].item)
    BY DEF KindOf
  <2> QED
    BY <1>1, <2>1, <2>2, <2>3, AssemblesSame
<1> QED
  BY <1>3, <1>4, <1>5, <1>6, <1>7 DEF AssemblyInv, Kept, Reported

\* A delta of text or arguments is added to what is kept of its item.
LEMMA DeltaKept ==
  ASSUME TypeInv, Ordered, AssemblyInv, pc \in Open,
         NEW y \in Left, NEW e, Yield(e), e.body = <<y>>,
         \/ /\ e.type = "text.delta" /\ e.item = 0
            /\ message'.text = Append(message.text, y) /\ UNCHANGED calls
         \/ /\ e.type = "args.delta" /\ e.item \in DOMAIN calls
            /\ UNCHANGED message /\ DOMAIN calls' = DOMAIN calls
            /\ calls'[e.item].args = Append(calls[e.item].args, y)
            /\ \A n \in DOMAIN calls \ {e.item} : calls'[n].args = calls[n].args
  PROVE  AssemblyInv'
<1>1. /\ log \in Seq(Event) /\ log' = Append(log, e) /\ message.text \in Seq(Nat) /\ y \in Nat
      /\ \A n \in DOMAIN calls : n # 0 /\ calls[n].args \in Seq(Nat)
  BY LeftType, CallType DEF TypeInv, TypeOK, Yield
<1>2. /\ DOMAIN log' = 1 .. (Len(log) + 1) /\ DOMAIN log = 1 .. Len(log) /\ Len(log) \in Nat
      /\ log'[Len(log) + 1] = e /\ \A i \in DOMAIN log : log'[i] = log[i]
  BY <1>1, AppendEvent
<1>3. \A i \in DOMAIN log : log[i].type = e.type => log[i].body[1] < y
  BY DEF Ordered, DeltaPositions, DeltaTypes
<1>4. Assembles(log', message'.text, "text.delta", 0)
  <2>1. CASE e.type = "text.delta"
    <3>1. e.item = 0 /\ message'.text = Append(message.text, y)
      BY <2>1
    <3>2. Assembles(log, message.text, e.type, e.item)
      BY <2>1, <3>1 DEF AssemblyInv, Kept
    <3>3. Assembles(Append(log, e), Append(message.text, y), e.type, e.item)
      BY <1>1, <1>3, <3>2, AssemblesMore
    <3> QED
      BY <1>1, <2>1, <3>1, <3>3
  <2>2. CASE e.type # "text.delta"
    BY <1>1, <2>2, AssemblesSame DEF AssemblyInv, Kept
  <2> QED
    BY <2>1, <2>2
<1>5. ASSUME NEW n \in DOMAIN calls' PROVE Assembles(log', calls'[n].args, "args.delta", n)
  <2>1. n \in DOMAIN calls /\ Assembles(log, calls[n].args, "args.delta", n)
    BY <1>5 DEF AssemblyInv, Kept
  <2>2. CASE e.type = "args.delta" /\ n = e.item
    <3>1. Assembles(log, calls[n].args, e.type, e.item)
      BY <2>1, <2>2
    <3>2. Assembles(Append(log, e), Append(calls[n].args, y), e.type, e.item)
      BY <1>1, <1>3, <2>1, <3>1, AssemblesMore
    <3> QED
      BY <1>1, <2>2, <3>2
  <2>3. CASE e.type # "args.delta" \/ n # e.item
    <3>1. calls'[n].args = calls[n].args
      BY <2>1, <2>3
    <3>2. Assembles(Append(log, e), calls[n].args, "args.delta", n)
      BY <1>1, <2>1, <2>3, AssemblesSame
    <3> QED
      BY <1>1, <3>1, <3>2
  <2> QED
    BY <2>2, <2>3
<1>6. \A i \in DOMAIN log' : log'[i].type = "args.delta" => log'[i].item \in DOMAIN calls'
  BY <1>2 DEF AssemblyInv, Kept
<1>7. \A i \in DOMAIN log' : log'[i].type \notin DoneTypes
  BY <1>2 DEF AssemblyInv, Reported, DoneTypes
<1> QED
  BY <1>4, <1>5, <1>6, <1>7 DEF AssemblyInv, Kept, Reported

\* A done event reports what is kept of its item.
LEMMA DoneStep ==
  ASSUME TypeInv, AssemblyInv, UNCHANGED <<message, calls>>, pc' \notin Open,
         NEW e, Yield(e), e.type \in DoneTypes,
         \/ e.item = 0 /\ e.body = message.text
         \/ e.item \in DOMAIN calls /\ e.body = calls[e.item].args
  PROVE  AssemblyInv'
<1>1. /\ log \in Seq(Event) /\ log' = Append(log, e) /\ \A n \in DOMAIN calls : n # 0
  BY CallType DEF TypeInv, TypeOK, Yield
<1>2. /\ DOMAIN log' = 1 .. (Len(log) + 1) /\ DOMAIN log = 1 .. Len(log) /\ Len(log) \in Nat
      /\ log'[Len(log) + 1] = e /\ \A i \in DOMAIN log : log'[i] = log[i]
  BY <1>1, AppendEvent
<1>3. e.type # "text.delta" /\ e.type # "args.delta"
  BY DEF DoneTypes
<1>4. Assembles(log', message'.text, "text.delta", 0)
  BY <1>1, <1>3, AssemblesSame DEF AssemblyInv, Kept
<1>5. \A n \in DOMAIN calls' : Assembles(log', calls'[n].args, "args.delta", n)
  BY <1>1, <1>3, AssemblesSame DEF AssemblyInv, Kept
<1>6. \A i \in DOMAIN log' : log'[i].type = "args.delta" => log'[i].item \in DOMAIN calls'
  BY <1>2, <1>3 DEF AssemblyInv, Kept
<1>7. ASSUME NEW i \in DOMAIN log', log'[i].type \in DoneTypes
      PROVE  Assembles(log', log'[i].body, KindOf(log'[i].item), log'[i].item)
  <2>1. CASE i \in DOMAIN log
    <3>1. log'[i] = log[i]
      BY <1>2, <2>1
    <3>2. Assembles(log, log[i].body, KindOf(log[i].item), log[i].item)
      BY <1>7, <2>1, <3>1 DEF AssemblyInv, Reported
    <3>3. e.type # KindOf(log[i].item)
      BY <1>3 DEF KindOf
    <3> QED
      BY <1>1, <3>1, <3>2, <3>3, AssemblesSame
  <2>2. CASE i = Len(log) + 1
    <3>1. log'[i] = e
      BY <1>2, <2>2
    <3>2. Assembles(log', e.body, KindOf(e.item), e.item)
      BY <1>1, <1>4, <1>5 DEF KindOf
    <3> QED
      BY <3>1, <3>2
  <2> QED
    BY <1>2, <2>1, <2>2
<1> QED
  BY <1>4, <1>5, <1>6, <1>7 DEF AssemblyInv, Kept, Reported

-----------------------------------------------------------------------------
LEMMA AssemblyInit == Init => AssemblyInv
  BY DEF Init, AssemblyInv, Kept, Reported, Assembles

LEMMA AssemblyStep == TypeInv /\ TokenInv /\ AssemblyInv /\ [Next]_vars => AssemblyInv'
<1> SUFFICES ASSUME TypeInv, TokenInv, AssemblyInv, [Next]_vars PROVE AssemblyInv'
  OBVIOUS
<1>0. /\ TypeOK /\ Control /\ Ordered /\ Placed /\ InOrder(cur)
      /\ log \in Seq(Event) /\ cur \in Pending /\ calls \in Seq(CallState)
      /\ message \in [idx : Int, text : Seq(Nat)]
  BY DEF TypeInv, TypeOK, TokenInv, Ordered
<1>1. ASSUME UNCHANGED <<message, calls, log>>, pc' \in Open => pc \in Open
      PROVE  AssemblyInv'
  BY <1>1 DEF AssemblyInv, Kept, Reported
<1>2. ASSUME UNCHANGED <<message, calls>>, pc' \in Open => pc \in Open,
             NEW e, Yield(e), e.type \notin DoneTypes \cup {"text.delta", "args.delta"}
      PROVE  AssemblyInv'
  BY <1>2, QuietStep
<1>3. CASE Created \/ InProgress \/ EmitReasoning \/ AddPart \/ GraphRaises \/ Complete
  <2>1. UNCHANGED <<message, calls>> /\ (pc' \in Open => pc \in Open)
    BY <1>3 DEF Created, InProgress, EmitReasoning, AddPart, GraphRaises, Complete, Open
  <2>2. \E e : Yield(e) /\ e.type \in {"created", "in_progress", "reasoning.delta",
                                       "part.added", "failed", "completed"}
    <3>1. CASE Created
      BY <3>1 DEF Created, Plain, About
    <3>2. CASE InProgress
      BY <3>2 DEF InProgress, Plain, About
    <3>3. CASE EmitReasoning
      BY <3>3 DEF EmitReasoning, About
    <3>4. CASE AddPart
      BY <3>4 DEF AddPart, OfMessage, About
    <3>5. CASE GraphRaises
      BY <3>5 DEF GraphRaises, Plain, About
    <3>6. CASE Complete
      BY <3>6 DEF Complete, Plain, About
    <3> QED
      BY <1>3, <3>1, <3>2, <3>3, <3>4, <3>5, <3>6
  <2> QED
    BY <1>2, <2>1, <2>2 DEF DoneTypes
<1>4. ASSUME NEW k \in Chunks, NextChunk(k) PROVE AssemblyInv'
  BY <1>1, <1>4 DEF NextChunk
<1>5. CASE OpenMessage
  <2> DEFINE e == About("item.added", 0, nextIndex, None, <<>>)
  <2>1. /\ Yield(e) /\ e.type = "item.added" /\ pc = "stream" /\ pc' = "part" /\ UNCHANGED calls
        /\ message'.text = message.text
    BY <1>0, <1>5 DEF OpenMessage, About
  <2> HIDE DEF e
  <2>2. log' = Append(log, e)
    BY <2>1 DEF Yield
  <2>3. /\ DOMAIN log' = 1 .. (Len(log) + 1) /\ DOMAIN log = 1 .. Len(log) /\ Len(log) \in Nat
        /\ log'[Len(log) + 1] = e /\ \A i \in DOMAIN log : log'[i] = log[i]
    BY <1>0, <2>2, AppendEvent
  <2>4. /\ Assembles(log', message'.text, "text.delta", 0)
        /\ \A n \in DOMAIN calls' : Assembles(log', calls'[n].args, "args.delta", n)
    BY <1>0, <2>1, <2>2, AssemblesSame DEF AssemblyInv, Kept
  <2>5. \A i \in DOMAIN log' : /\ log'[i].type = "args.delta" => log'[i].item \in DOMAIN calls'
                               /\ log'[i].type \notin DoneTypes
    BY <2>1, <2>3 DEF AssemblyInv, Kept, Reported, Open, DoneTypes
  <2> QED
    BY <2>4, <2>5 DEF AssemblyInv, Kept, Reported
<1>6. CASE EmitText
  <2> DEFINE e == OfMessage("text.delta", <<cur.text>>)
  <2>1. /\ Yield(e) /\ pc = "stream" /\ cur.reasoning = 0 /\ cur.text # 0 /\ UNCHANGED calls
        /\ message'.text = Append(message.text, cur.text)
    BY <1>0, <1>6 DEF EmitText
  <2>2. e.type = "text.delta" /\ e.item = 0 /\ e.body = <<cur.text>>
    BY DEF OfMessage, About
  <2>3. cur.text \in Left
    BY <2>1 DEF Left, TokensOf
  <2> HIDE DEF e
  <2> QED
    BY <1>0, <2>1, <2>2, <2>3, DeltaKept DEF Open
<1>7. CASE StartCall
  <2> DEFINE f == Head(cur.frags)
             c == [key |-> OwnKey(f), idx |-> nextIndex,
                   call |-> IdOf(f, -(Len(calls) + 1)), args |-> <<>>]
             e == OfCall("item.added", Len(calls) + 1, c, <<>>)
  <2>1. /\ pc = "stream" /\ pc' \in Open /\ UNCHANGED message /\ Yield(e)
        /\ calls' = Append(calls, c)
    BY <1>7 DEF StartCall, AtFragment, Open
  <2>2. e.type = "item.added" /\ c.args = <<>>
    BY DEF OfCall, About
  <2> HIDE DEF e, c
  <2>3. /\ DOMAIN calls = 1 .. Len(calls) /\ DOMAIN calls' = 1 .. (Len(calls) + 1)
        /\ Len(calls) \in Nat /\ calls'[Len(calls) + 1] = c
        /\ \A n \in DOMAIN calls : calls'[n] = calls[n]
    BY <1>0, <2>1
  <2>4. /\ DOMAIN calls \subseteq DOMAIN calls'
        /\ \A n \in DOMAIN calls : calls'[n].args = calls[n].args
        /\ \A n \in DOMAIN calls' \ DOMAIN calls : calls'[n].args = <<>> /\ n # 0
    BY <2>2, <2>3
  <2>5. e.type \notin DoneTypes \cup {"text.delta", "args.delta"} /\ pc \in Open
    BY <2>1, <2>2 DEF DoneTypes, Open
  <2> QED
    BY <2>1, <2>4, <2>5, QuietStep
<1>8. CASE EmitArgs
  <2> DEFINE f == Head(cur.frags)
             n == Len(calls)
             e == ArgsDelta(n, f)
  <2>1. /\ pc = "args" /\ Yield(e) /\ UNCHANGED message
        /\ calls' = [calls EXCEPT ![n].args = Append(@, f.args)]
    BY <1>8 DEF EmitArgs
  <2>2. e.type = "args.delta" /\ e.item = n /\ e.body = <<f.args>>
    BY DEF ArgsDelta, About
  <2>3. n \in DOMAIN calls /\ cur.frags # <<>> /\ f.args # 0
    BY <1>0, <2>1 DEF Control, Placed
  <2>4. f.args \in Left
    BY <1>0, <2>3 DEF Left, TokensOf, Pending
  <2>5. calls[n] \in CallState
    BY <1>0, <2>3, CallType
  <2>6. /\ DOMAIN calls' = DOMAIN calls
        /\ calls'[n].args = Append(calls[n].args, f.args)
        /\ \A m \in DOMAIN calls \ {n} : calls'[m].args = calls[m].args
    BY <2>1, <2>3, <2>5 DEF CallState
  <2> HIDE DEF e, n, f
  <2> QED
    BY <1>0, <2>1, <2>2, <2>3, <2>4, <2>6, DeltaKept DEF Open
<1>9. ASSUME NEW n \in DOMAIN calls, ContinueCall(n) PROVE AssemblyInv'
  <2> DEFINE f == Head(cur.frags)
             e == ArgsDelta(n, f)
  <2>1. /\ pc = "stream" /\ pc' = pc /\ UNCHANGED message /\ cur.frags # <<>>
        /\ f.args # 0 =>
             /\ Yield(e)
             /\ calls' = [calls EXCEPT ![n].call = IdOf(f, @), ![n].args = Append(@, f.args)]
        /\ f.args = 0 => UNCHANGED log /\ calls' = [calls EXCEPT ![n].call = IdOf(f, @)]
    BY <1>9 DEF ContinueCall, AtFragment
  <2>2. e.type = "args.delta" /\ e.item = n /\ e.body = <<f.args>>
    BY DEF ArgsDelta, About
  <2>3. calls[n] \in CallState
    BY <1>0, CallType
  <2>4. CASE f.args # 0
    <3>1. f.args \in Left
      BY <1>0, <2>1, <2>4 DEF Left, TokensOf, Pending
    <3>2. /\ DOMAIN calls' = DOMAIN calls
          /\ calls'[n].args = Append(calls[n].args, f.args)
          /\ \A m \in DOMAIN calls \ {n} : calls'[m].args = calls[m].args
      BY <2>1, <2>3, <2>4 DEF CallState
    <3> HIDE DEF e, f
    <3> QED
      BY <1>0, <2>1, <2>2, <2>4, <3>1, <3>2, DeltaKept DEF Open
  <2>5. CASE f.args = 0
    <3>1. /\ DOMAIN calls' = DOMAIN calls /\ UNCHANGED log
          /\ \A m \in DOMAIN calls : calls'[m].args = calls[m].args
      BY <2>1, <2>3, <2>5 DEF CallState
    <3> QED
      BY <2>1, <3>1 DEF AssemblyInv, Kept, Reported
  <2> QED
    BY <2>4, <2>5
<1>10. CASE EndOfStream \/ Disconnect
  <2>1. UNCHANGED <<message, calls, log>> /\ pc' \in {"closing", "gone"}
    BY <1>10 DEF EndOfStream, Disconnect
  <2> QED
    BY <1>1, <2>1 DEF Open
<1>11. CASE CloseArgs \/ CloseCall
  <2> DEFINE n == closed + 1
             c == calls[n]
  <2>1. /\ UNCHANGED <<message, calls>> /\ pc' \in {"closing", "close_call"}
        /\ Yield(OfCall("args.done", n, c, c.args)) \/ Yield(OfCall("item.done", n, c, c.args))
    BY <1>11 DEF CloseArgs, CloseCall
  <2>2. n \in DOMAIN calls
    BY <1>0, <1>11 DEF CloseArgs, CloseCall, Control, TypeOK
  <2>3. \A t : LET e == OfCall(t, n, c, c.args)
               IN e.type = t /\ e.item = n /\ e.body = calls[n].args
    BY DEF OfCall, About
  <2> HIDE DEF n
  <2>4. PICK e : Yield(e) /\ e.type \in DoneTypes /\ e.item = n /\ e.body = calls[n].args
    BY <2>1, <2>3 DEF DoneTypes
  <2> QED
    BY <2>1, <2>2, <2>4, DoneStep DEF Open
<1>12. CASE CloseText \/ ClosePart \/ CloseMessage
  <2>1. /\ UNCHANGED <<message, calls>> /\ pc' \in {"close_part", "close_message", "complete"}
        /\ \E t \in DoneTypes : Yield(OfMessage(t, message.text))
    BY <1>12 DEF CloseText, ClosePart, CloseMessage, DoneTypes
  <2>2. \A t : LET e == OfMessage(t, message.text)
               IN e.type = t /\ e.item = 0 /\ e.body = message.text
    BY DEF OfMessage, About
  <2>3. PICK e : Yield(e) /\ e.type \in DoneTypes /\ e.item = 0 /\ e.body = message.text
    BY <2>1, <2>2
  <2> QED
    BY <2>1, <2>3, DoneStep DEF Open
<1>13. CASE UNCHANGED vars
  BY <1>1, <1>13 DEF vars
<1> QED
  BY <1>3, <1>4, <1>5, <1>6, <1>7, <1>8, <1>9, <1>10, <1>11, <1>12, <1>13 DEF Next, Emit

\* Every done event repeats exactly the deltas of its item, in the order they were
\* streamed, however text, reasoning and any number of calls interleave.
THEOREM DonesRepeatDeltas == Spec => []Assembled
<1>1. Init => TypeInv /\ TokenInv /\ AssemblyInv
  BY TypeInit, TokenInit, AssemblyInit
<1>2. TypeInv /\ TokenInv /\ AssemblyInv /\ [Next]_vars => (TypeInv /\ TokenInv /\ AssemblyInv)'
  BY TypeStep, TokenStep, AssemblyStep
<1>3. AssemblyInv => Assembled
  <2> SUFFICES ASSUME AssemblyInv, NEW i \in DOMAIN log,
                      log[i].type \in {"text.done", "part.done", "args.done", "item.done"}
               PROVE  IsAssembledFrom(log[i].body, KindOf(log[i].item), log[i].item)
    BY DEF Assembled, KindOf
  <2>1. Assembles(log, log[i].body, KindOf(log[i].item), log[i].item)
    BY DEF AssemblyInv, Reported, DoneTypes
  <2> QED
    BY <2>1 DEF Assembles, IsAssembledFrom, At
<1> QED
  BY <1>1, <1>2, <1>3, PTL DEF Spec

-----------------------------------------------------------------------------
(* Which call a piece goes to.  A place is where in the run a fragment is; *)
(* the emitter has passed it when it is not in cur any more.               *)

Rest == Len(source[Len(source)].frags) - Len(cur.frags)
Passed(x) == \A j \in DOMAIN cur.frags : x # <<Len(source), Rest + j>>
AllPlaces == UNION {{m} \X DOMAIN source[m].frags : m \in DOMAIN source}
ArgDeltas == {i \in DOMAIN log : log[i].type = "args.delta"}
NamingTypes == {"item.added", "args.done", "item.done"}

\* What is left of the chunk are the last fragments delivered.
Located ==
  /\ \A m \in DOMAIN source : source[m].frags \in Seq(TokenFrag)
  /\ \A j \in DOMAIN cur.frags :
       <<Len(source), Rest + j>> \in Places /\ PieceAt(<<Len(source), Rest + j>>) = cur.frags[j]

\* Fragments are pieces of the provider, with tokens of their own.
Pieced ==
  \A x \in Places : \E g \in Pieces :
    PieceAt(x).origin = g.origin /\ PieceAt(x).index = g.index /\ PieceAt(x).id = g.id
Distinct ==
  /\ \A x \in AllPlaces : PieceAt(x).args \in Nat /\ PieceAt(x).args <= fed
  /\ \A x, y \in AllPlaces : PieceAt(x).args = PieceAt(y).args /\ PieceAt(x).args # 0 => x = y

\* Every call of which a piece was passed is kept under its key; no two calls have
\* one key, and a made-up key is the call's own.
Known ==
  \A x \in Places : Passed(x) /\ PieceAt(x).origin # 0 =>
    \E n \in DOMAIN calls : calls[n].key = KeyOf(PieceAt(x), n)
KeysApart ==
  /\ \A m, n \in DOMAIN calls : calls[m].key = calls[n].key => m = n
  /\ \A n \in DOMAIN calls : calls[n].key[1] = "anon" => calls[n].key[2] = n
  /\ pc = "args" => calls[Len(calls)].key = KeyOf(Head(cur.frags), Len(calls))

\* A call was opened by its first piece and keeps its id, and that id is the one the
\* client is told.
OpenedBy(x, n) ==
  /\ First(x) /\ calls[n].key = KeyOf(PieceAt(x), n)
  /\ Introduced => calls[n].call = IdOf(PieceAt(x), -n)
Opened == \A n \in DOMAIN calls : \E x \in Places : OpenedBy(x, n)
Announced ==
  \A i \in DOMAIN log : log[i].type \in NamingTypes =>
    IF log[i].item = 0 THEN log[i].call = None
    ELSE log[i].item \in DOMAIN calls /\ (Introduced => log[i].call = calls[log[i].item].call)

\* Arguments come from a fragment with the key of the call they are streamed for, and
\* a call with a made-up key has one.
CameFrom(x, i) ==
  /\ PieceAt(x).args = log[i].body[1] /\ log[i].body[1] # 0
  /\ calls[log[i].item].key = KeyOf(PieceAt(x), log[i].item)
Traced ==
  /\ \A i \in ArgDeltas : log[i].item \in DOMAIN calls /\ \E x \in Places : CameFrom(x, i)
  /\ \A i, j \in ArgDeltas :
       log[i].item = log[j].item /\ calls[log[i].item].key[1] = "anon" => i = j
  /\ pc = "args" => \A i \in ArgDeltas : log[i].item # Len(calls)

CallInv == Located /\ Pieced /\ Distinct /\ Known /\ KeysApart /\ Opened /\ Announced /\ Traced

LEMMA PlaceFields ==
  ASSUME NEW x \in Places
  PROVE  /\ x \in AllPlaces /\ x = <<x[1], x[2]>> /\ x[1] \in DOMAIN source
         /\ x[2] \in DOMAIN source[x[1]].frags
  BY DEF Places, AllPlaces

\* Two pieces of one provider that can be followed have one key exactly when they are
\* of one call.
LEMMA KeysTell ==
  ASSUME Coherent, Pieced, NEW x \in Places, NEW y \in Places, NEW m, NEW n
  PROVE  /\ PieceAt(x).origin = 0 => KeyOf(PieceAt(x), m) = <<"anon", m>>
         /\ PieceAt(x).origin # 0 => KeyOf(PieceAt(x), m)[1] # "anon"
         /\ PieceAt(x).origin # 0 =>
              (KeyOf(PieceAt(x), m) = KeyOf(PieceAt(y), n) <=> PieceAt(x).origin = PieceAt(y).origin)
         /\ PieceAt(x).origin = PieceAt(y).origin /\ PieceAt(x).id # None /\ PieceAt(y).id # None
              => PieceAt(x).id = PieceAt(y).id
<1>1. Like(PieceAt(x), Pieces) /\ Like(PieceAt(y), Pieces)
  BY DEF Pieced, Like
<1> QED
  BY <1>1, PiecesTell DEF Coherent

LEMMA CallInit == Init => CallInv
<1> SUFFICES ASSUME Init PROVE CallInv
  OBVIOUS
<1>1. source = <<>> /\ log = <<>> /\ calls = <<>> /\ cur.frags = <<>> /\ pc = "start"
  BY DEF Init, Nothing
<1>2. Places = {} /\ AllPlaces = {} /\ ArgDeltas = {}
  BY <1>1 DEF Places, AllPlaces, ArgDeltas
<1> QED
  BY <1>1, <1>2 DEF CallInv, Located, Pieced, Distinct, Known, KeysApart, Opened, Announced, Traced

-----------------------------------------------------------------------------
(* The run as it goes on.                                                  *)

LEMMA SamePlaces ==
  ASSUME UNCHANGED source
  PROVE  /\ Places' = Places /\ AllPlaces' = AllPlaces /\ (Introduced' <=> Introduced)
         /\ \A x : PieceAt(x)' = PieceAt(x) /\ (First(x)' <=> First(x))
<1>1. Places' = Places /\ AllPlaces' = AllPlaces
  BY DEF Places, AllPlaces, Accepts
<1>2. \A x : PieceAt(x)' = PieceAt(x)
  BY DEF PieceAt
<1>3. \A x : First(x)' <=> First(x)
  BY <1>1, <1>2 DEF First, Before
<1>4. Introduced' <=> Introduced
  BY <1>1, <1>2, <1>3 DEF Introduced
<1> QED
  BY <1>1, <1>2, <1>3, <1>4

\* A chunk adds places after all others.
LEMMA MorePlaces ==
  ASSUME Accounted, TypeOK, NEW k \in Chunks, NextChunk(k)
  PROVE  LET m == Len(source) + 1
             c == Fill(k, fed)
         IN /\ m \in Nat /\ Len(source') = m
            /\ Places \subseteq Places' /\ AllPlaces \subseteq AllPlaces'
            /\ \A x \in AllPlaces' : x \in AllPlaces \/ (x = <<m, x[2]>> /\ x[2] \in DOMAIN c.frags)
            /\ \A x \in Places' : x \in Places \/ (Accepts(k) /\ x = <<m, x[2]>> /\ x[2] \in DOMAIN c.frags)
            /\ Accepts(k) => \A j \in DOMAIN c.frags : <<m, j>> \in Places'
            /\ \A x : x[1] = m => PieceAt(x)' = c.frags[x[2]]
            /\ \A x \in AllPlaces : PieceAt(x)' = PieceAt(x) /\ x[1] \in Nat /\ x[1] < m
<1> DEFINE m == Len(source) + 1
           c == Fill(k, fed)
<1>1. PICK S : source \in Seq(S)
  BY DEF Accounted
<1>2. source' = Append(source, c)
  BY DEF NextChunk
<1>3. source \in Seq(S \cup {c}) /\ source' \in Seq(S \cup {c})
  BY <1>1, <1>2
<1>4. Accepts(c) <=> Accepts(k)
  BY DEF Accepts, Fill
<1> HIDE DEF c
<1>5. /\ DOMAIN source' = 1 .. m /\ DOMAIN source = 1 .. Len(source)
      /\ Len(source) \in Nat /\ source'[m] = c /\ Len(source') = m
      /\ \A n \in DOMAIN source : source'[n] = source[n]
  BY <1>2, <1>3
<1>6. m \in Nat /\ m \in DOMAIN source' /\ DOMAIN source' = DOMAIN source \cup {m}
      /\ \A n \in DOMAIN source : n \in Nat /\ n < m
  BY <1>5
<1> HIDE DEF m
<1>7. /\ \A x : x \in AllPlaces <=> \E n \in DOMAIN source : x \in {n} \X DOMAIN source[n].frags
      /\ \A x : x \in AllPlaces' <=> \E n \in DOMAIN source' : x \in {n} \X DOMAIN source'[n].frags
  BY DEF AllPlaces
<1>8. /\ \A x : x \in Places <=>
                  \E n \in DOMAIN source : Accepts(source[n]) /\ x \in {n} \X DOMAIN source[n].frags
      /\ \A x : x \in Places' <=>
                  \E n \in DOMAIN source' : Accepts(source'[n]) /\ x \in {n} \X DOMAIN source'[n].frags
  BY DEF Places, Accepts
<1>9. /\ \A x \in AllPlaces : x[1] \in DOMAIN source
      /\ \A x : x \in {m} \X DOMAIN c.frags => x = <<m, x[2]>> /\ x[2] \in DOMAIN c.frags
  BY <1>7
<1>10. AllPlaces \subseteq AllPlaces' /\ Places \subseteq Places'
  BY <1>5, <1>6, <1>7, <1>8
<1>11. \A x \in AllPlaces' : x \in AllPlaces \/ x \in {m} \X DOMAIN c.frags
  BY <1>5, <1>6, <1>7
<1>12. \A x \in Places' : x \in Places \/ (Accepts(k) /\ x \in {m} \X DOMAIN c.frags)
  BY <1>4, <1>5, <1>6, <1>8
<1>13. Accepts(k) => \A j \in DOMAIN c.frags : <<m, j>> \in Places'
  BY <1>4, <1>5, <1>6, <1>8
<1>14. \A x : x[1] = m => PieceAt(x)' = c.frags[x[2]]
  BY <1>5 DEF PieceAt
<1>15. \A x \in AllPlaces : PieceAt(x)' = PieceAt(x) /\ x[1] \in Nat /\ x[1] < m
  BY <1>5, <1>6, <1>9 DEF PieceAt
<1> QED
  BY <1>5, <1>6, <1>9, <1>10, <1>11, <1>12, <1>13, <1>14, <1>15 DEF m, c

\* So what was first is first, and what was not named is not.
LEMMA FirstStays ==
  ASSUME Accounted, TypeOK, NEW k \in Chunks, NextChunk(k)
  PROVE  /\ \A x \in Places : First(x) => First(x)'
         /\ Introduced' => Introduced
<1> DEFINE m == Len(source) + 1
<1>1. /\ m \in Nat /\ Places \subseteq Places'
      /\ \A y \in Places' : y \in Places \/ y[1] = m
      /\ \A x \in Places : PieceAt(x)' = PieceAt(x) /\ x[1] \in Nat /\ x[1] < m
  <2>1. Places \subseteq AllPlaces
    BY PlaceFields
  <2> QED
    BY <2>1, MorePlaces
<1> HIDE DEF m
<1>2. ASSUME NEW x \in Places, First(x) PROVE First(x)'
  <2> SUFFICES ASSUME NEW y \in Places', Before(y, x),
                      PieceAt(y)'.origin = PieceAt(x)'.origin, PieceAt(x)'.origin # 0
               PROVE  FALSE
    BY DEF First, Before
  <2>1. CASE y \in Places
    BY <1>1, <1>2, <2>1 DEF First
  <2>2. CASE y[1] = m
    <3>1. x[1] \in Nat /\ x[1] < m /\ m \in Nat
      BY <1>1
    <3> QED
      BY <2>2, <3>1 DEF Before
  <2> QED
    BY <1>1, <2>1, <2>2
<1>3. ASSUME Introduced' PROVE Introduced
  <2> SUFFICES ASSUME NEW x \in Places, NEW y \in Places, First(x),
                      PieceAt(x).origin = PieceAt(y).origin, PieceAt(y).id # None
               PROVE  PieceAt(x).id # None
    BY DEF Introduced
  <2>1. First(x)' /\ x \in Places' /\ y \in Places'
    BY <1>1, <1>2
  <2> QED
    BY <1>1, <1>3, <2>1 DEF Introduced
<1> QED
  BY <1>2, <1>3

LEMMA CallChunk ==
  ASSUME Accounted, TypeOK, CallInv, NEW k \in Chunks, NextChunk(k)
  PROVE  CallInv'
<1> DEFINE m == Len(source) + 1
           c == Fill(k, fed)
<1>1. /\ m \in Nat /\ Len(source') = m
      /\ Places \subseteq Places' /\ AllPlaces \subseteq AllPlaces'
      /\ \A x \in AllPlaces' : x \in AllPlaces \/ (x = <<m, x[2]>> /\ x[2] \in DOMAIN c.frags)
      /\ \A x \in Places' : x \in Places \/ (Accepts(k) /\ x = <<m, x[2]>> /\ x[2] \in DOMAIN c.frags)
      /\ Accepts(k) => \A j \in DOMAIN c.frags : <<m, j>> \in Places'
      /\ \A x : x[1] = m => PieceAt(x)' = c.frags[x[2]]
      /\ \A x \in AllPlaces : PieceAt(x)' = PieceAt(x) /\ x[1] \in Nat /\ x[1] < m
  BY MorePlaces
<1>2. /\ \A x \in Places : First(x) => First(x)'
      /\ Introduced' => Introduced
  BY FirstStays
<1>3. pc = "stream" /\ pc' = "stream" /\ UNCHANGED <<calls, log>> /\ cur.frags = <<>>
      /\ fed' = fed + 2 + Len(k.frags) /\ fed \in Nat
  BY DEF NextChunk, Spent, Nothing, TypeOK
<1>4. /\ k.frags \in Seq(Fragment) /\ DOMAIN c.frags = DOMAIN k.frags
      /\ DOMAIN k.frags = 1 .. Len(k.frags) /\ Len(k.frags) \in Nat /\ Len(c.frags) = Len(k.frags)
      /\ \A j \in DOMAIN k.frags :
           /\ c.frags[j].origin = k.frags[j].origin /\ c.frags[j].index = k.frags[j].index
           /\ c.frags[j].id = k.frags[j].id
           /\ c.frags[j].args = IF k.frags[j].args THEN fed + 2 + j ELSE 0
  <2>1. k.frags \in Seq(Fragment)
    BY ChunksAssumption DEF ChunkKind
  <2> QED
    BY <2>1 DEF Fill
<1>5. cur'.frags = IF Accepts(k) THEN c.frags ELSE <<>>
  BY DEF NextChunk, Contents, Nothing
<1> HIDE DEF c, m
<1>6a. \A n \in DOMAIN source' : source'[n].frags \in Seq(TokenFrag)
  <2>1. PICK S : source \in Seq(S)
    BY DEF Accounted
  <2>2. source' = Append(source, c)
    BY DEF NextChunk, c
  <2>3. c.frags \in Seq(TokenFrag)
    BY FillType DEF TypeOK, Pending, Contents, c
  <2>4. \A n \in DOMAIN source : source[n].frags \in Seq(TokenFrag)
    BY DEF CallInv, Located
  <2> QED
    BY <2>1, <2>2, <2>3, <2>4
<1>6. Located'
  <2> SUFFICES ASSUME NEW j \in DOMAIN cur'.frags
               PROVE  /\ <<Len(source'), Rest' + j>> \in Places'
                      /\ PieceAt(<<Len(source), Rest + j>>)' = cur'.frags[j]
    BY <1>6a DEF Located
  <2>1. Accepts(k) /\ cur'.frags = c.frags /\ j \in 1 .. Len(k.frags)
    BY <1>4, <1>5
  <2>2. Rest' = 0
    <3>1. PieceAt(<<m, 1>>) = PieceAt(<<m, 1>>)
      OBVIOUS
    <3>2. source'[m].frags = c.frags
      BY DEF NextChunk, m, c
    <3> QED
      BY <1>1, <1>4, <2>1, <3>2 DEF Rest
  <2>3. PICK x : x = <<m, j>>
    OBVIOUS
  <2>4. <<Len(source'), Rest' + j>> = x
    BY <1>1, <2>1, <2>2, <2>3
  <2>5. PieceAt(x)' = c.frags[j] /\ x \in Places'
    BY <1>1, <1>4, <2>1, <2>3
  <2> QED
    BY <2>1, <2>4, <2>5
<1>7. Places \subseteq AllPlaces /\ Places' \subseteq AllPlaces'
  BY PlaceFields DEF Places, AllPlaces
<1>8. Pieced'
  <2>1. Pieces' = Pieces
    BY DEF Pieces, Accepts
  <2>2. ASSUME NEW x \in Places, x \in Places'
        PROVE  \E g \in Pieces : /\ PieceAt(x)'.origin = g.origin /\ PieceAt(x)'.index = g.index
                                 /\ PieceAt(x)'.id = g.id
    BY <1>1, <1>7 DEF CallInv, Pieced
  <2>3. ASSUME NEW x, Accepts(k), x[1] = m, x[2] \in DOMAIN c.frags
        PROVE  \E g \in Pieces : /\ PieceAt(x)'.origin = g.origin /\ PieceAt(x)'.index = g.index
                                 /\ PieceAt(x)'.id = g.id
    <3>1. k.frags[x[2]] \in Pieces
      BY <1>4, <2>3 DEF Pieces
    <3> QED
      BY <1>1, <1>4, <2>3, <3>1
  <2> QED
    BY <1>1, <2>1, <2>2, <2>3 DEF Pieced
<1>9. Distinct'
  <2>1. \A x \in AllPlaces : PieceAt(x)'.args \in Nat /\ PieceAt(x)'.args <= fed
    BY <1>1 DEF CallInv, Distinct
  <2>2. ASSUME NEW x \in AllPlaces', x \notin AllPlaces
        PROVE  /\ x = <<m, x[2]>> /\ x[2] \in 1 .. Len(k.frags)
               /\ PieceAt(x)'.args = 0 \/ PieceAt(x)'.args = fed + 2 + x[2]
    BY <1>1, <1>4, <2>2
  <2>3. \A x \in AllPlaces' : PieceAt(x)'.args \in Nat /\ PieceAt(x)'.args <= fed'
    <3> SUFFICES ASSUME NEW x \in AllPlaces' PROVE PieceAt(x)'.args \in Nat /\ PieceAt(x)'.args <= fed'
      OBVIOUS
    <3>1. PICK a : a = PieceAt(x)'.args
      OBVIOUS
    <3>2. PICK l, p, q : l = Len(k.frags) /\ p = fed /\ q = fed'
      OBVIOUS
    <3>3. l \in Nat /\ p \in Nat /\ q = p + 2 + l
      BY <1>3, <1>4, <3>2
    <3>4. x \in AllPlaces => a \in Nat /\ a <= p
      BY <2>1, <3>1, <3>2
    <3>5. x \notin AllPlaces => x[2] \in 1 .. l /\ (a = 0 \/ a = p + 2 + x[2])
      BY <2>2, <3>1, <3>2
    <3>6. a \in Nat /\ a <= q
      BY <3>3, <3>4, <3>5
    <3> QED
      BY <3>1, <3>2, <3>6
  <2>4. ASSUME NEW x \in AllPlaces', NEW y \in AllPlaces',
               PieceAt(x)'.args = PieceAt(y)'.args, PieceAt(x)'.args # 0
        PROVE  x = y
    <3>1. PICK a : a = PieceAt(x)'.args
      OBVIOUS
    <3>2. a = PieceAt(y)'.args /\ a # 0
      BY <2>4, <3>1
    <3>3. CASE x \in AllPlaces /\ y \in AllPlaces
      BY <1>1, <2>4, <3>3 DEF CallInv, Distinct
    <3>4. CASE x \notin AllPlaces /\ y \notin AllPlaces
      <4>1. /\ x = <<m, x[2]>> /\ x[2] \in 1 .. Len(k.frags) /\ a = fed + 2 + x[2]
            /\ y = <<m, y[2]>> /\ y[2] \in 1 .. Len(k.frags) /\ a = fed + 2 + y[2]
        BY <2>2, <3>1, <3>2, <3>4
      <4>2. x[2] = y[2]
        BY <1>3, <1>4, <4>1
      <4> QED
        BY <4>1, <4>2
    <3>5. ASSUME NEW z \in Nat, z <= fed, NEW l \in 1 .. Len(k.frags), z = fed + 2 + l PROVE FALSE
      BY <1>3, <1>4, <3>5
    <3>6. x \in AllPlaces => a \in Nat /\ a <= fed
      BY <2>1, <3>1
    <3>7. y \in AllPlaces => a \in Nat /\ a <= fed
      BY <2>1, <3>2
    <3>8. x \notin AllPlaces => x[2] \in 1 .. Len(k.frags) /\ a = fed + 2 + x[2]
      BY <2>2, <3>1, <3>2
    <3>9. y \notin AllPlaces => y[2] \in 1 .. Len(k.frags) /\ a = fed + 2 + y[2]
      BY <2>2, <3>1, <3>2
    <3> QED
      BY <3>3, <3>4, <3>5, <3>6, <3>7, <3>8, <3>9
  <2> QED
    BY <2>3, <2>4 DEF Distinct
<1>10. Known'
  <2> SUFFICES ASSUME NEW x \in Places', Passed(x)', PieceAt(x)'.origin # 0
               PROVE  \E n \in DOMAIN calls : calls[n].key = KeyOf(PieceAt(x)', n)
    BY <1>3 DEF Known, KeyOf
  <2>1. x \in Places
    <3> SUFFICES ASSUME Accepts(k), x = <<m, x[2]>>, x[2] \in DOMAIN c.frags PROVE FALSE
      BY <1>1
    <3>1. cur'.frags = c.frags
      BY <1>5
    <3>2. source'[m].frags = c.frags /\ x[2] \in Nat
      BY <1>4 DEF NextChunk, m, c
    <3>3. Rest' = 0
      BY <1>1, <1>4, <3>1, <3>2 DEF Rest
    <3> QED
      BY <1>1, <3>1, <3>2, <3>3 DEF Passed
  <2>2. Passed(x)
    BY <1>3 DEF Passed
  <2>3. PieceAt(x)' = PieceAt(x)
    BY <1>1, <1>7, <2>1
  <2> QED
    BY <2>1, <2>2, <2>3 DEF CallInv, Known
<1>11. KeysApart'
  BY <1>3 DEF CallInv, KeysApart
<1>12. Opened'
  <2> SUFFICES ASSUME NEW n \in DOMAIN calls PROVE \E x \in Places' : OpenedBy(x, n)'
    BY <1>3 DEF Opened
  <2>1. PICK x \in Places : OpenedBy(x, n)
    BY DEF CallInv, Opened
  <2>2. x \in Places' /\ First(x)' /\ PieceAt(x)' = PieceAt(x)
    BY <1>1, <1>2, <1>7, <2>1 DEF OpenedBy
  <2>3. OpenedBy(x, n)'
    BY <1>2, <1>3, <2>1, <2>2 DEF OpenedBy, KeyOf, IdOf
  <2> QED
    BY <2>2, <2>3
<1>13. Announced'
  BY <1>2, <1>3 DEF CallInv, Announced
<1>14. Traced'
  <2>1. ArgDeltas' = ArgDeltas
    BY <1>3 DEF ArgDeltas
  <2>2. ASSUME NEW i \in ArgDeltas PROVE \E x \in Places' : CameFrom(x, i)'
    <3>1. PICK x \in Places : CameFrom(x, i)
      BY DEF CallInv, Traced
    <3>2. x \in Places' /\ PieceAt(x)' = PieceAt(x)
      BY <1>1, <1>7
    <3>3. CameFrom(x, i)'
      BY <1>3, <3>1, <3>2 DEF CameFrom, KeyOf
    <3> QED
      BY <3>2, <3>3
  <2> QED
    BY <1>3, <2>1, <2>2 DEF CallInv, Traced
<1> QED
  BY <1>6, <1>8, <1>9, <1>10, <1>11, <1>12, <1>13, <1>14 DEF CallInv

\* Steps that touch neither fragments nor calls.
LEMMA QuietCalls ==
  ASSUME TypeOK, CallInv, UNCHANGED <<source, fed, calls>>, cur'.frags = cur.frags, pc' # "args",
         \/ UNCHANGED log
         \/ \E e : /\ Yield(e) /\ e.type # "args.delta"
                   /\ e.type \in NamingTypes =>
                        IF e.item = 0 THEN e.call = None
                        ELSE e.item \in DOMAIN calls /\ e.call = calls[e.item].call
  PROVE  CallInv'
<1>1. /\ Places' = Places /\ AllPlaces' = AllPlaces /\ (Introduced' <=> Introduced)
      /\ \A x : PieceAt(x)' = PieceAt(x) /\ (First(x)' <=> First(x))
  BY SamePlaces
<1>2. Rest' = Rest /\ \A x : Passed(x)' <=> Passed(x)
  BY DEF Rest, Passed
<1>3. Located'
  BY <1>1, <1>2 DEF CallInv, Located, PieceAt
<1>4. Pieced' /\ Distinct'
  BY <1>1 DEF CallInv, Pieced, Distinct, Pieces, Accepts
<1>5. Known'
  BY <1>1, <1>2 DEF CallInv, Known, KeyOf
<1>6. KeysApart'
  BY DEF CallInv, KeysApart
<1>7. Opened'
  BY <1>1 DEF CallInv, Opened, OpenedBy, KeyOf, IdOf
<1>8. Announced' /\ ArgDeltas' = ArgDeltas /\ \A i \in ArgDeltas : log'[i] = log[i]
  <2>1. CASE UNCHANGED log
    BY <1>1, <2>1 DEF CallInv, Announced, ArgDeltas
  <2>2. ASSUME NEW e, Yield(e), e.type # "args.delta",
               e.type \in NamingTypes =>
                 IF e.item = 0 THEN e.call = None
                 ELSE e.item \in DOMAIN calls /\ e.call = calls[e.item].call
        PROVE  Announced' /\ ArgDeltas' = ArgDeltas /\ \A i \in ArgDeltas : log'[i] = log[i]
    <3>1. log' = Append(log, e) /\ log \in Seq(Event)
      BY <2>2 DEF Yield, TypeOK
    <3>2. /\ DOMAIN log' = 1 .. (Len(log) + 1) /\ DOMAIN log = 1 .. Len(log) /\ Len(log) \in Nat
          /\ log'[Len(log) + 1] = e /\ \A i \in DOMAIN log : log'[i] = log[i]
      BY <3>1, AppendEvent
    <3>3. \A i \in DOMAIN log' : i \in DOMAIN log \/ i = Len(log) + 1
      BY <3>2
    <3>4. DOMAIN log \subseteq DOMAIN log'
      BY <3>2
    <3>5. Announced'
      BY <1>1, <2>2, <3>2, <3>3 DEF CallInv, Announced
    <3> QED
      BY <2>2, <3>2, <3>3, <3>4, <3>5 DEF ArgDeltas
  <2> QED
    BY <2>1, <2>2
<1>9. Traced'
  BY <1>1, <1>8 DEF CallInv, Traced, CameFrom, KeyOf
<1> QED
  BY <1>3, <1>4, <1>5, <1>6, <1>7, <1>8, <1>9 DEF CallInv

-----------------------------------------------------------------------------
(* The next fragment.                                                      *)

Next1 == <<Len(source), Rest + 1>>

LEMMA HeadPlace ==
  ASSUME TypeOK, Accounted, CallInv, cur.frags # <<>>
  PROVE  /\ Next1 \in Places /\ PieceAt(Next1) = Head(cur.frags)
         /\ Len(source) \in Nat /\ Rest \in Nat
         /\ ~Passed(Next1)
         /\ \A x \in Places : Before(x, Next1) => Passed(x)
<1>1. /\ cur.frags \in Seq(TokenFrag) /\ DOMAIN cur.frags = 1 .. Len(cur.frags)
      /\ Len(cur.frags) \in Nat /\ 1 \in DOMAIN cur.frags /\ Head(cur.frags) = cur.frags[1]
  BY DEF TypeOK, Pending
<1>2. Next1 \in Places /\ PieceAt(Next1) = Head(cur.frags)
  BY <1>1 DEF CallInv, Located, Next1
<1>3. ~Passed(Next1)
  BY <1>1 DEF Passed, Next1
<1>4. Len(source) \in Nat /\ DOMAIN source = 1 .. Len(source)
  BY DEF Accounted
<1>5. \A x \in Places : x[1] \in Nat /\ x[2] \in Nat /\ x[2] \in 1 .. Len(source[x[1]].frags)
  <2> SUFFICES ASSUME NEW x \in Places
               PROVE  x[1] \in Nat /\ x[2] \in Nat /\ x[2] \in 1 .. Len(source[x[1]].frags)
    OBVIOUS
  <2>1. x[1] \in DOMAIN source /\ x[2] \in DOMAIN source[x[1]].frags
    BY PlaceFields
  <2>2. source[x[1]].frags \in Seq(TokenFrag)
    BY <2>1 DEF CallInv, Located
  <2> QED
    BY <1>4, <2>1, <2>2
<1>6. Rest \in Nat
  <2>1. PICK n, k : n = Len(source[Len(source)].frags) /\ k = Len(cur.frags)
    OBVIOUS
  <2>2. Rest + 1 \in 1 .. n
    BY <1>2, <1>5, <2>1 DEF Next1
  <2>3. n \in Nat
    <3>1. Len(source) \in DOMAIN source
      BY <1>2, PlaceFields DEF Next1
    <3> QED
      BY <2>1, <3>1 DEF CallInv, Located
  <2> QED
    BY <1>1, <2>1, <2>2, <2>3 DEF Rest
<1>7. ASSUME NEW x \in Places, Before(x, Next1) PROVE Passed(x)
  <2> SUFFICES ASSUME NEW j \in DOMAIN cur.frags, x = <<Len(source), Rest + j>> PROVE FALSE
    BY DEF Passed
  <2>1. PICK l, r : l = Len(source) /\ r = Rest
    OBVIOUS
  <2>2. x[1] = l /\ x[2] = r + j /\ (x[1] < l \/ (x[1] = l /\ x[2] < r + 1))
    BY <1>7, <2>1 DEF Before, Next1
  <2> QED
    BY <1>1, <1>4, <1>6, <2>1, <2>2
<1> QED
  BY <1>2, <1>3, <1>4, <1>6, <1>7

\* Passing it.
LEMMA HeadPassed ==
  ASSUME TypeOK, Accounted, CallInv, cur.frags # <<>>, PopFragment, UNCHANGED source
  PROVE  /\ Located' /\ \A x : Passed(x)' => Passed(x) \/ x = Next1
         /\ \A x : x = Next1 \/ Passed(x) => Passed(x)'
<1>1. /\ cur.frags \in Seq(TokenFrag) /\ DOMAIN cur.frags = 1 .. Len(cur.frags) /\ cur \in Pending
      /\ Len(cur.frags) \in Nat /\ 1 \in DOMAIN cur.frags /\ Head(cur.frags) = cur.frags[1]
  BY DEF TypeOK, Pending
<1>2. cur'.frags = Tail(cur.frags)
  BY <1>1 DEF PopFragment, Pending
<1>3. /\ Len(cur'.frags) = Len(cur.frags) - 1 /\ DOMAIN cur'.frags = 1 .. Len(cur'.frags)
      /\ \A j \in DOMAIN cur'.frags : j + 1 \in DOMAIN cur.frags /\ cur'.frags[j] = cur.frags[j + 1]
      /\ \A j \in DOMAIN cur.frags : j = 1 \/ j - 1 \in DOMAIN cur'.frags
  BY <1>1, <1>2
<1>4. Rest \in Nat /\ Len(source) \in Nat /\ Len(source) \in DOMAIN source
  BY HeadPlace, PlaceFields DEF Next1
<1>5. Rest' = Rest + 1
  <2>1. PICK n, k, r : n = Len(source[Len(source)].frags) /\ k = Len(cur.frags) /\ r = Rest
    OBVIOUS
  <2>2. n \in Nat
    BY <1>4, <2>1 DEF CallInv, Located
  <2>3. r = n - k /\ Rest' = n - (k - 1)
    BY <1>3, <2>1 DEF Rest
  <2> QED
    BY <1>1, <2>1, <2>2, <2>3
<1>5a. PICK r, s : r = Rest /\ s = Rest' /\ r \in Nat /\ s = r + 1
  BY <1>4, <1>5
<1>5b. \A j \in Nat : s + j = r + (j + 1) /\ s + (j - 1) = r + j
  BY <1>5a
<1>6. \A j \in DOMAIN cur'.frags : j \in Nat /\ Rest' + j = Rest + (j + 1)
  <2>1. \A j \in DOMAIN cur'.frags : j \in Nat
    BY <1>1, <1>3
  <2> QED
    BY <1>5a, <1>5b, <2>1
<1>7. \A j \in DOMAIN cur.frags : j = 1 \/ Rest' + (j - 1) = Rest + j
  BY <1>1, <1>5a, <1>5b
<1>8. Located'
  <2> SUFFICES ASSUME NEW j \in DOMAIN cur'.frags
               PROVE  /\ <<Len(source), Rest' + j>> \in Places'
                      /\ PieceAt(<<Len(source), Rest + j>>)' = cur'.frags[j]
    BY DEF CallInv, Located
  <2>1. PICK x, i : i = j + 1 /\ x = <<Len(source), Rest + i>>
    OBVIOUS
  <2>2. i \in DOMAIN cur.frags /\ cur'.frags[j] = cur.frags[i]
    BY <1>3, <2>1
  <2>3. x \in Places /\ PieceAt(x) = cur.frags[i]
    BY <2>1, <2>2 DEF CallInv, Located
  <2>4. x = <<Len(source), Rest' + j>>
    BY <1>6, <2>1
  <2>5. x \in Places' /\ PieceAt(x)' = PieceAt(x)
    BY <2>3, SamePlaces
  <2> QED
    BY <2>2, <2>3, <2>4, <2>5 DEF PieceAt
<1>9. ASSUME NEW x, Passed(x)' PROVE Passed(x) \/ x = Next1
  <2> SUFFICES ASSUME NEW j \in DOMAIN cur.frags, x = <<Len(source), Rest + j>>, j # 1 PROVE FALSE
    BY DEF Passed, Next1
  <2>1. PICK i : i = j - 1
    OBVIOUS
  <2>2. i \in DOMAIN cur'.frags /\ x = <<Len(source), Rest' + i>>
    BY <1>3, <1>7, <2>1
  <2> QED
    BY <1>9, <2>2 DEF Passed
<1>10. ASSUME NEW x, x = Next1 \/ Passed(x) PROVE Passed(x)'
  <2> SUFFICES ASSUME NEW j \in DOMAIN cur'.frags, x = <<Len(source), Rest' + j>> PROVE FALSE
    BY DEF Passed
  <2>1. PICK i, q : i = j + 1 /\ q = Rest
    OBVIOUS
  <2>2. i \in DOMAIN cur.frags /\ x = <<Len(source), q + i>> /\ q \in Nat /\ i \in Nat /\ i # 1
    BY <1>1, <1>3, <1>4, <1>6, <2>1
  <2>3. x # Next1
    <3>1. q + i # q + 1
      BY <2>2
    <3> QED
      BY <2>1, <2>2, <3>1 DEF Next1
  <2> QED
    BY <1>10, <2>1, <2>2, <2>3 DEF Passed
<1> QED
  BY <1>8, <1>9, <1>10

\* A piece that its call takes in, with or without a delta.
LEMMA PieceTakenIn ==
  ASSUME TypeOK, Accounted, CallInv, cur.frags # <<>>, PopFragment, UNCHANGED <<source, fed>>,
         pc' # "args", NEW n \in DOMAIN calls, calls[n].key = KeyOf(Head(cur.frags), n),
         DOMAIN calls' = DOMAIN calls,
         \A k \in DOMAIN calls : /\ calls'[k].key = calls[k].key
                                 /\ Introduced => calls'[k].call = calls[k].call,
         \/ UNCHANGED log
         \/ /\ Yield(ArgsDelta(n, Head(cur.frags))) /\ Head(cur.frags).args # 0
            /\ calls[n].key[1] = "anon" => \A i \in ArgDeltas : log[i].item # n
  PROVE  CallInv'
<1> DEFINE f == Head(cur.frags)
<1>0. PICK y : y = Next1
  OBVIOUS
<1>1. y \in Places /\ PieceAt(y) = f
  BY <1>0, HeadPlace
<1>2. Located' /\ \A x : Passed(x)' => Passed(x) \/ x = y
  BY <1>0, HeadPassed
<1>3. /\ Places' = Places /\ AllPlaces' = AllPlaces /\ (Introduced' <=> Introduced)
      /\ \A x : PieceAt(x)' = PieceAt(x) /\ (First(x)' <=> First(x))
  BY SamePlaces
<1>4. Pieced' /\ Distinct'
  BY <1>3 DEF CallInv, Pieced, Distinct, Pieces, Accepts
<1>5. Known'
  <2> SUFFICES ASSUME NEW x \in Places, Passed(x)', PieceAt(x).origin # 0
               PROVE  \E k \in DOMAIN calls : calls'[k].key = KeyOf(PieceAt(x), k)
    BY <1>3 DEF Known, KeyOf
  <2>1. CASE Passed(x)
    BY <2>1 DEF CallInv, Known
  <2>2. CASE x = y
    BY <1>1, <2>2
  <2> QED
    BY <1>2, <2>1, <2>2
<1>6. KeysApart'
  BY DEF CallInv, KeysApart
<1>7. Opened'
  BY <1>3 DEF CallInv, Opened, OpenedBy, KeyOf, IdOf
<1>8. CASE UNCHANGED log
  <2>1. Announced'
    BY <1>3, <1>8 DEF CallInv, Announced
  <2>2. ArgDeltas' = ArgDeltas
    BY <1>8 DEF ArgDeltas
  <2>3. ASSUME NEW i \in ArgDeltas PROVE log[i].item \in DOMAIN calls /\ \E x \in Places : CameFrom(x, i)'
    <3>1. PICK x \in Places : CameFrom(x, i) /\ log[i].item \in DOMAIN calls
      BY DEF CallInv, Traced
    <3>2. CameFrom(x, i)'
      BY <1>3, <1>8, <3>1 DEF CameFrom, KeyOf
    <3> QED
      BY <3>1, <3>2
  <2>4. ASSUME NEW i \in ArgDeltas, NEW j \in ArgDeltas,
               log[i].item = log[j].item, calls'[log[i].item].key[1] = "anon"
        PROVE  i = j
    BY <2>3, <2>4 DEF CallInv, Traced
  <2>5. Traced'
    BY <1>3, <1>8, <2>2, <2>3, <2>4 DEF Traced
  <2> QED
    BY <1>2, <1>4, <1>5, <1>6, <1>7, <2>1, <2>5 DEF CallInv
<1>9. ASSUME Yield(ArgsDelta(n, f)), f.args # 0,
             calls[n].key[1] = "anon" => \A i \in ArgDeltas : log[i].item # n
      PROVE  CallInv'
  <2>1. PICK e : e = ArgsDelta(n, f)
    OBVIOUS
  <2>2. e.type = "args.delta" /\ e.item = n /\ e.body[1] = f.args
    BY <2>1 DEF ArgsDelta, About
  <2>3. log' = Append(log, e) /\ log \in Seq(Event)
    BY <1>9, <2>1 DEF Yield, TypeOK
  <2>4. PICK l : l = Len(log) + 1
    OBVIOUS
  <2>5. /\ l \notin DOMAIN log /\ DOMAIN log' = DOMAIN log \cup {l}
        /\ log'[l] = e /\ \A i \in DOMAIN log : log'[i] = log[i]
    BY <2>3, <2>4, AppendEvent
  <2>6. Announced'
    BY <1>3, <2>2, <2>5 DEF CallInv, Announced, NamingTypes
  <2>7. ArgDeltas' = ArgDeltas \cup {l} /\ \A i \in ArgDeltas : log'[i] = log[i] /\ i # l
    BY <2>2, <2>5 DEF ArgDeltas
  <2>8. ASSUME NEW i \in ArgDeltas' PROVE log'[i].item \in DOMAIN calls /\ \E x \in Places : CameFrom(x, i)'
    <3>1. CASE i = l
      <4>1. CameFrom(y, i)'
        BY <1>1, <1>3, <1>9, <2>2, <2>5, <3>1 DEF CameFrom, KeyOf
      <4> QED
        BY <1>1, <2>2, <2>5, <3>1, <4>1
    <3>2. CASE i \in ArgDeltas
      <4>1. PICK x \in Places : CameFrom(x, i) /\ log[i].item \in DOMAIN calls
        BY <3>2 DEF CallInv, Traced
      <4>2. CameFrom(x, i)'
        BY <1>3, <2>7, <3>2, <4>1 DEF CameFrom, KeyOf
      <4> QED
        BY <2>7, <3>2, <4>1, <4>2
    <3> QED
      BY <2>7, <3>1, <3>2
  <2>9. ASSUME NEW i \in ArgDeltas', NEW j \in ArgDeltas',
               log'[i].item = log'[j].item, calls'[log'[i].item].key[1] = "anon"
        PROVE  i = j
    <3>1. calls[log'[i].item].key[1] = "anon"
      BY <2>8, <2>9
    <3>2. CASE i \in ArgDeltas /\ j \in ArgDeltas
      BY <2>7, <2>9, <3>1, <3>2 DEF CallInv, Traced
    <3> QED
      BY <1>9, <2>2, <2>5, <2>7, <2>9, <3>1, <3>2
  <2>10. Traced'
    BY <1>3, <2>8, <2>9 DEF Traced
  <2> QED
    BY <1>2, <1>4, <1>5, <1>6, <1>7, <2>6, <2>10 DEF CallInv
<1> QED
  BY <1>8, <1>9

LEMMA StartStep ==
  ASSUME Coherent, TypeOK, Accounted, CallInv, pc # "args", StartCall
  PROVE  CallInv'
<1> DEFINE f == Head(cur.frags)
<1>0. PICK y, l : y = Next1 /\ l = Len(log) + 1
  OBVIOUS
<1>1. PICK n, c, e : /\ n = Len(calls) + 1 /\ c.key = KeyOf(f, n) /\ c.call = IdOf(f, -n)
                     /\ calls' = Append(calls, c) /\ log' = Append(log, e)
                     /\ e.type = "item.added" /\ e.item = n /\ e.call = c.call
  <2>1. PICK n : n = Len(calls) + 1
    OBVIOUS
  <2>2. PICK c : c = [key |-> OwnKey(f), idx |-> nextIndex, call |-> IdOf(f, -n), args |-> <<>>]
    OBVIOUS
  <2>3. PICK e : e = OfCall("item.added", n, c, <<>>)
    OBVIOUS
  <2>4. calls' = Append(calls, c) /\ log' = Append(log, e)
    BY <2>1, <2>2, <2>3 DEF StartCall, Yield
  <2>5. c.key = KeyOf(f, n) /\ c.call = IdOf(f, -n)
    BY <2>1, <2>2 DEF OwnKey
  <2>6. e.type = "item.added" /\ e.item = n /\ e.call = c.call
    BY <2>3 DEF OfCall, About
  <2> QED
    BY <2>1, <2>4, <2>5, <2>6
<1>2. ~KnownKey(f) /\ cur.frags # <<>> /\ UNCHANGED <<source, fed>>
  BY DEF StartCall, AtFragment
<1>3. /\ \/ pc' = "args" /\ UNCHANGED cur
         \/ PopFragment /\ UNCHANGED pc
  BY DEF StartCall
<1>4. y \in Places /\ PieceAt(y) = f /\ \A x \in Places : Before(x, y) => Passed(x)
  BY <1>0, <1>2, HeadPlace
<1>5. /\ Places' = Places /\ AllPlaces' = AllPlaces /\ (Introduced' <=> Introduced)
      /\ \A x : PieceAt(x)' = PieceAt(x) /\ (First(x)' <=> First(x))
  BY <1>2, SamePlaces
<1>6. Located' /\ \A x : Passed(x)' => Passed(x) \/ x = y
  <2>1. CASE UNCHANGED cur
    <3>1. Rest' = Rest /\ \A x : Passed(x)' <=> Passed(x)
      BY <1>2, <2>1 DEF Rest, Passed
    <3> QED
      BY <1>2, <1>5, <2>1, <3>1 DEF CallInv, Located, PieceAt
  <2>2. CASE PopFragment
    BY <1>0, <1>2, <2>2, HeadPassed
  <2> QED
    BY <1>3, <2>1, <2>2
<1>7. /\ n \in Nat /\ n # 0 /\ n \notin DOMAIN calls /\ DOMAIN calls' = DOMAIN calls \cup {n} /\ Len(calls') = n
      /\ calls'[n] = c /\ \A k \in DOMAIN calls : calls'[k] = calls[k] /\ k # n
  <2>1. calls \in Seq(CallState) /\ DOMAIN calls = 1 .. Len(calls) /\ Len(calls) \in Nat
    BY DEF TypeOK
  <2>2. calls \in Seq(CallState \cup {c})
    BY <2>1
  <2> QED
    BY <1>1, <2>1, <2>2
<1>8. /\ l \notin DOMAIN log /\ DOMAIN log' = DOMAIN log \cup {l}
      /\ log'[l] = e /\ \A i \in DOMAIN log : log'[i] = log[i]
  BY <1>0, <1>1, AppendEvent DEF TypeOK
<1>9. \A k \in DOMAIN calls : calls[k].key # c.key
  BY <1>1, <1>2 DEF KnownKey, OwnKey
<1>10. First(y)
  <2> SUFFICES ASSUME NEW z \in Places, Before(z, y), PieceAt(z).origin = f.origin, f.origin # 0
               PROVE  FALSE
    BY <1>4 DEF First
  <2>1. PICK k \in DOMAIN calls : calls[k].key = KeyOf(PieceAt(z), k)
    BY <1>4 DEF CallInv, Known
  <2>2. KeyOf(PieceAt(z), k) = KeyOf(f, n)
    BY <1>4, KeysTell DEF CallInv
  <2> QED
    BY <1>1, <1>9, <2>1, <2>2
<1>11. Pieced' /\ Distinct'
  BY <1>2, <1>5 DEF CallInv, Pieced, Distinct, Pieces, Accepts
<1>12. Known'
  <2> SUFFICES ASSUME NEW x \in Places, Passed(x)', PieceAt(x).origin # 0
               PROVE  \E k \in DOMAIN calls' : calls'[k].key = KeyOf(PieceAt(x), k)
    BY <1>5 DEF Known, KeyOf
  <2>1. CASE Passed(x)
    BY <1>7, <2>1 DEF CallInv, Known
  <2>2. CASE x = y
    BY <1>1, <1>4, <1>7, <2>2
  <2> QED
    BY <1>6, <2>1, <2>2
<1>13. KeysApart'
  <2>1. c.key[1] = "anon" => c.key[2] = n
    BY <1>1 DEF KeyOf
  <2>2. pc' = "args" => calls'[n].key = KeyOf(Head(cur'.frags), n)
    BY <1>1, <1>3, <1>7
  <2> QED
    BY <1>7, <1>9, <2>1, <2>2 DEF CallInv, KeysApart, KeyOf
<1>14. Opened'
  <2>1. ASSUME NEW k \in DOMAIN calls PROVE \E x \in Places : OpenedBy(x, k)'
    BY <1>5, <1>7 DEF CallInv, Opened, OpenedBy, KeyOf, IdOf
  <2>2. OpenedBy(y, n)'
    BY <1>1, <1>4, <1>5, <1>7, <1>10 DEF OpenedBy, KeyOf, IdOf
  <2> QED
    BY <1>4, <1>5, <1>7, <2>1, <2>2 DEF Opened
<1>15. Announced'
  BY <1>1, <1>5, <1>7, <1>8 DEF CallInv, Announced
<1>16. ArgDeltas' = ArgDeltas /\ \A i \in ArgDeltas : log'[i] = log[i]
  BY <1>1, <1>8 DEF ArgDeltas
<1>17. Traced'
  <2>1. ASSUME NEW i \in ArgDeltas
        PROVE  log'[i] = log[i] /\ log[i].item \in DOMAIN calls /\ \E x \in Places : CameFrom(x, i)'
    <3>1. PICK x \in Places : CameFrom(x, i) /\ log[i].item \in DOMAIN calls
      BY DEF CallInv, Traced
    <3>2. CameFrom(x, i)'
      BY <1>5, <1>7, <1>16, <3>1 DEF CameFrom, KeyOf
    <3> QED
      BY <1>16, <3>1, <3>2
  <2>2. ASSUME NEW i \in ArgDeltas, NEW j \in ArgDeltas,
               log'[i].item = log'[j].item, calls'[log'[i].item].key[1] = "anon"
        PROVE  i = j
    BY <1>7, <2>1, <2>2 DEF CallInv, Traced
  <2>3. \A i \in ArgDeltas : log'[i].item # n /\ log'[i].item \in DOMAIN calls'
    BY <1>7, <2>1
  <2> QED
    BY <1>5, <1>7, <1>16, <2>1, <2>2, <2>3 DEF Traced
<1> QED
  BY <1>6, <1>11, <1>12, <1>13, <1>14, <1>15, <1>17 DEF CallInv

\* A call met again is one with a name, and the name has not changed.
LEMMA ContinueStep ==
  ASSUME Coherent, TypeOK, Accounted, CallInv, NEW n \in DOMAIN calls, ContinueCall(n)
  PROVE  CallInv'
<1> DEFINE f == Head(cur.frags)
<1>1. /\ cur.frags # <<>> /\ calls[n].key = OwnKey(f) /\ PopFragment
      /\ UNCHANGED <<source, fed>> /\ pc' = "stream"
      /\ \/ UNCHANGED log
         \/ Yield(ArgsDelta(n, f)) /\ f.args # 0
  BY DEF ContinueCall, AtFragment
<1>2. n \in Nat /\ Len(calls) \in Nat /\ n # Len(calls) + 1
  BY DEF TypeOK
<1>3. calls[n].key[1] # "anon"
  <2> SUFFICES ASSUME OwnKey(f)[1] = "anon", calls[n].key[2] = n PROVE FALSE
    BY <1>1 DEF CallInv, KeysApart
  <2>1. OwnKey(f)[2] = Len(calls) + 1
    BY DEF OwnKey, KeyOf
  <2> QED
    BY <1>1, <1>2, <2>1
<1>4. calls[n].key = KeyOf(f, n)
  BY <1>1, <1>3 DEF OwnKey, KeyOf
<1>5. /\ DOMAIN calls' = DOMAIN calls
      /\ \A k \in DOMAIN calls : /\ calls'[k].key = calls[k].key
                                 /\ calls'[k].call = IF k = n THEN IdOf(f, calls[n].call) ELSE calls[k].call
  <2>1. \A k \in DOMAIN calls : calls[k] \in CallState
    BY CallType
  <2>2. /\ DOMAIN calls' = DOMAIN calls /\ \A k \in DOMAIN calls \ {n} : calls'[k] = calls[k]
        /\ \/ calls'[n] = [calls[n] EXCEPT !.call = IdOf(f, @), !.args = Append(@, f.args)]
           \/ calls'[n] = [calls[n] EXCEPT !.call = IdOf(f, @)]
    BY <2>1 DEF ContinueCall, CallState
  <2>3. calls'[n].key = calls[n].key /\ calls'[n].call = IdOf(f, calls[n].call)
    BY <2>1, <2>2 DEF CallState
  <2> QED
    BY <2>2, <2>3
<1>6. ASSUME Introduced, f.id # None PROVE f.id = calls[n].call
  <2>1. PICK y : y = Next1
    OBVIOUS
  <2>2. y \in Places /\ PieceAt(y) = f
    BY <1>1, <2>1, HeadPlace
  <2>3. PICK x \in Places : OpenedBy(x, n)
    BY DEF CallInv, Opened
  <2>4. KeyOf(PieceAt(y), n) = KeyOf(PieceAt(x), n) /\ KeyOf(PieceAt(y), n)[1] # "anon"
    BY <1>3, <1>4, <2>2, <2>3 DEF OpenedBy
  <2>5. PieceAt(y).origin # 0
    BY <2>2, <2>4, KeysTell DEF CallInv
  <2>6. PieceAt(y).origin = PieceAt(x).origin
    BY <2>2, <2>3, <2>4, <2>5, KeysTell DEF CallInv
  <2>7. PieceAt(x).id # None
    BY <1>6, <2>2, <2>3, <2>6 DEF Introduced, OpenedBy
  <2>8. PieceAt(x).id = f.id
    BY <1>6, <2>2, <2>3, <2>6, <2>7, KeysTell DEF CallInv
  <2> QED
    BY <1>6, <2>3, <2>7, <2>8 DEF OpenedBy, IdOf
<1>7. \A k \in DOMAIN calls : Introduced => calls'[k].call = calls[k].call
  BY <1>5, <1>6 DEF IdOf
<1> QED
  BY <1>1, <1>3, <1>4, <1>5, <1>7, PieceTakenIn

\* The arguments owed are the first its call is given.
LEMMA OwedStep ==
  ASSUME TypeInv, Accounted, Placed, CallInv, EmitArgs
  PROVE  CallInv'
<1> DEFINE f == Head(cur.frags)
<1>1. PICK n : n = Len(calls)
  OBVIOUS
<1>2. /\ pc = "args" /\ cur.frags # <<>> /\ f.args # 0 /\ PopFragment /\ Yield(ArgsDelta(n, f))
      /\ UNCHANGED <<source, fed>> /\ pc' = "stream"
  BY <1>1 DEF EmitArgs, TypeInv, Control, Placed
<1>3. n \in DOMAIN calls
  BY <1>1, <1>2 DEF TypeInv, TypeOK, Control
<1>4. calls[n].key = KeyOf(f, n) /\ \A i \in ArgDeltas : log[i].item # n
  BY <1>1, <1>2 DEF CallInv, KeysApart, Traced
<1>5. /\ DOMAIN calls' = DOMAIN calls
      /\ \A k \in DOMAIN calls : calls'[k].key = calls[k].key /\ calls'[k].call = calls[k].call
  <2>1. \A k \in DOMAIN calls : calls[k] \in CallState
    BY CallType DEF TypeInv
  <2>2. /\ DOMAIN calls' = DOMAIN calls /\ \A k \in DOMAIN calls \ {n} : calls'[k] = calls[k]
        /\ calls'[n] = [calls[n] EXCEPT !.args = Append(@, f.args)]
    BY <1>1, <1>3, <2>1 DEF EmitArgs, CallState
  <2>3. calls'[n].key = calls[n].key /\ calls'[n].call = calls[n].call
    BY <1>3, <2>1, <2>2 DEF CallState
  <2> QED
    BY <2>2, <2>3
<1> QED
  BY <1>2, <1>3, <1>4, <1>5, PieceTakenIn DEF TypeInv

LEMMA CallStep ==
  ASSUME Coherent
  PROVE  TypeInv /\ TokenInv /\ CallInv /\ [Next]_vars => CallInv'
<1> SUFFICES ASSUME TypeInv, TokenInv, CallInv, [Next]_vars PROVE CallInv'
  OBVIOUS
<1>0. TypeOK /\ Control /\ Accounted /\ Placed
  BY DEF TypeInv, TokenInv
<1> DEFINE Silent(e) == /\ e.type # "args.delta"
                        /\ e.type \in NamingTypes =>
                             IF e.item = 0 THEN e.call = None
                             ELSE e.item \in DOMAIN calls /\ e.call = calls[e.item].call
<1>1. ASSUME UNCHANGED <<source, fed, calls>>, cur'.frags = cur.frags, pc' # "args",
             UNCHANGED log \/ \E e : Yield(e) /\ Silent(e)
      PROVE  CallInv'
  BY <1>0, <1>1, QuietCalls
<1>2. /\ \A t : t \notin NamingTypes \cup {"args.delta"} => Silent(Plain(t))
      /\ \A t, i, b : t # "args.delta" => Silent(About(t, 0, i, None, b))
      /\ \A t, i, b : t \notin NamingTypes \cup {"args.delta"} => Silent(About(t, 0, i, None, b))
      /\ Silent([Plain("completed") EXCEPT !.output = output])
      /\ \A t, n, b : t # "args.delta" /\ n \in DOMAIN calls /\ n # 0 => Silent(OfCall(t, n, calls[n], b))
  BY DEF Plain, About, NamingTypes, OfCall
<1> HIDE DEF Silent
<1>3. CASE UNCHANGED vars
  <2>1. UNCHANGED <<source, fed, calls, cur, log, pc>>
    BY <1>3 DEF vars
  <2>2. CASE pc # "args"
    BY <1>1, <2>1, <2>2
  <2>3. CASE pc = "args"
    <3>1. /\ Places' = Places /\ AllPlaces' = AllPlaces /\ (Introduced' <=> Introduced)
          /\ \A x : PieceAt(x)' = PieceAt(x) /\ (First(x)' <=> First(x))
      BY <2>1, SamePlaces
    <3>2. Located' /\ Pieced' /\ Distinct'
      BY <2>1, <3>1 DEF CallInv, Located, Pieced, Distinct, Rest, PieceAt, Pieces, Accepts
    <3>3. Known'
      BY <2>1, <3>1 DEF CallInv, Known, Passed, Rest, KeyOf
    <3>4. KeysApart'
      BY <2>1 DEF CallInv, KeysApart, KeyOf
    <3>5. Opened'
      BY <2>1, <3>1 DEF CallInv, Opened, OpenedBy, KeyOf, IdOf
    <3>6. Announced' /\ Traced'
      BY <2>1, <3>1 DEF CallInv, Announced, Traced, CameFrom, ArgDeltas, KeyOf
    <3> QED
      BY <3>2, <3>3, <3>4, <3>5, <3>6 DEF CallInv
  <2> QED
    BY <2>2, <2>3
<1>4. CASE Created
  BY <1>1, <1>2, <1>4 DEF Created, NamingTypes
<1>5. CASE InProgress
  BY <1>1, <1>2, <1>5 DEF InProgress, NamingTypes
<1>6. ASSUME NEW k \in Chunks, NextChunk(k) PROVE CallInv'
  BY <1>0, <1>6, CallChunk
<1>7. CASE EmitReasoning
  <2>1. cur'.frags = cur.frags
    BY <1>0, <1>7 DEF EmitReasoning, TypeOK, Pending
  <2>2. UNCHANGED <<source, fed, calls, pc>> /\ Yield(About("reasoning.delta", 0, None, None, <<cur.reasoning>>))
    BY <1>7 DEF EmitReasoning
  <2> QED
    BY <1>1, <1>2, <1>7, <2>1, <2>2 DEF EmitReasoning
<1>8. CASE OpenMessage
  BY <1>1, <1>2, <1>8 DEF OpenMessage
<1>9. CASE AddPart
  BY <1>1, <1>2, <1>9 DEF AddPart, OfMessage
<1>10. CASE EmitText
  <2>1. cur'.frags = cur.frags
    BY <1>0, <1>10 DEF EmitText, TypeOK, Pending
  <2> QED
    BY <1>1, <1>2, <1>10, <2>1 DEF EmitText, OfMessage
<1>11. CASE StartCall
  BY <1>0, <1>11, StartStep DEF StartCall, AtFragment
<1>12. CASE EmitArgs
  BY <1>0, <1>12, OwedStep
<1>13. ASSUME NEW n \in DOMAIN calls, ContinueCall(n) PROVE CallInv'
  BY <1>0, <1>13, ContinueStep
<1>14. CASE EndOfStream
  BY <1>1, <1>14 DEF EndOfStream
<1>15. CASE GraphRaises
  BY <1>1, <1>2, <1>15 DEF GraphRaises, NamingTypes
<1>16. CASE CloseArgs
  <2>1. PICK n : n = closed + 1
    OBVIOUS
  <2>2. n \in DOMAIN calls /\ n # 0
    BY <1>0, <1>16, <2>1 DEF CloseArgs, TypeOK
  <2>3. Yield(OfCall("args.done", n, calls[n], calls[n].args))
    BY <1>16, <2>1 DEF CloseArgs
  <2> QED
    BY <1>1, <1>2, <1>16, <2>2, <2>3 DEF CloseArgs
<1>17. CASE CloseCall
  <2>1. PICK n : n = closed + 1
    OBVIOUS
  <2>2. n \in DOMAIN calls /\ n # 0
    BY <1>0, <1>17, <2>1 DEF CloseCall, TypeOK, Control
  <2>3. Yield(OfCall("item.done", n, calls[n], calls[n].args))
    BY <1>17, <2>1 DEF CloseCall
  <2> QED
    BY <1>1, <1>2, <1>17, <2>2, <2>3 DEF CloseCall
<1>18. CASE CloseText
  BY <1>1, <1>2, <1>18 DEF CloseText, OfMessage
<1>19. CASE ClosePart
  BY <1>1, <1>2, <1>19 DEF ClosePart, OfMessage
<1>20. CASE CloseMessage
  BY <1>1, <1>2, <1>20 DEF CloseMessage, OfMessage
<1>21. CASE Complete
  BY <1>1, <1>2, <1>21 DEF Complete
<1>22. CASE Disconnect
  BY <1>1, <1>22 DEF Disconnect
<1> QED
  BY <1>3, <1>4, <1>5, <1>6, <1>7, <1>8, <1>9, <1>10, <1>11, <1>12, <1>13, <1>14, <1>15, <1>16, <1>17,
     <1>18, <1>19, <1>20, <1>21, <1>22 DEF Next, Emit

LEMMA CallsKept == ASSUME Coherent PROVE Spec => []CallInv
<1>1. TypeInv /\ TokenInv /\ CallInv /\ [Next]_vars => CallInv'
  BY CallStep
<1>2. Spec => []TypeInv
  BY TypeInit, TypeStep, PTL DEF Spec
<1> QED
  BY <1>1, <1>2, TokensKept, CallInit, PTL DEF Spec

-----------------------------------------------------------------------------
(* What follows.                                                           *)

\* The origin that the model looks up is that of the place.
LEMMA OriginFound ==
  ASSUME Distinct, NEW x \in AllPlaces, PieceAt(x).args # 0
  PROVE  OriginOf(PieceAt(x).args) = PieceAt(x).origin
<1> DEFINE frags == UNION {{source[m].frags[j] : j \in DOMAIN source[m].frags} : m \in DOMAIN source}
<1>1. PICK p : p = PieceAt(x)
  OBVIOUS
<1>2. p \in frags
  BY <1>1 DEF AllPlaces, PieceAt
<1>3. ASSUME NEW g \in frags, g.args = p.args PROVE g = p
  <2>0. PICK m \in DOMAIN source : g \in {source[m].frags[j] : j \in DOMAIN source[m].frags}
    OBVIOUS
  <2>1. PICK j \in DOMAIN source[m].frags : g = source[m].frags[j]
    BY <2>0
  <2>2. PICK y : y = <<m, j>>
    OBVIOUS
  <2>3. y \in AllPlaces /\ PieceAt(y) = g
    BY <2>1, <2>2 DEF AllPlaces, PieceAt
  <2>4. x = y
    BY <1>1, <1>3, <2>3 DEF Distinct
  <2> QED
    BY <1>1, <2>3, <2>4
<1>4. (CHOOSE g \in frags : g.args = p.args) = p
  BY <1>2, <1>3
<1> QED
  BY <1>1, <1>4 DEF OriginOf

LEMMA ReassembledHere == ASSUME Coherent, CallInv PROVE CallsReassembled
<1> SUFFICES ASSUME NEW i \in ArgDeltas, NEW j \in ArgDeltas, i # j
             PROVE  log[i].item = log[j].item
                      <=> /\ OriginOf(log[i].body[1]) = OriginOf(log[j].body[1])
                          /\ OriginOf(log[i].body[1]) # 0
  BY DEF CallsReassembled, ArgDeltas
<1>1. PICK x \in Places : CameFrom(x, i) /\ log[i].item \in DOMAIN calls
  BY DEF CallInv, Traced
<1>2. PICK y \in Places : CameFrom(y, j) /\ log[j].item \in DOMAIN calls
  BY DEF CallInv, Traced
<1>3. PICK m, n, p, q : m = log[i].item /\ n = log[j].item /\ p = PieceAt(x) /\ q = PieceAt(y)
  OBVIOUS
<1>4. OriginOf(log[i].body[1]) = p.origin /\ OriginOf(log[j].body[1]) = q.origin
  BY <1>1, <1>2, <1>3, OriginFound, PlaceFields DEF CallInv, CameFrom
<1>5. calls[m].key = KeyOf(p, m) /\ calls[n].key = KeyOf(q, n) /\ m \in DOMAIN calls /\ n \in DOMAIN calls
  BY <1>1, <1>2, <1>3 DEF CameFrom
<1>6. /\ p.origin = 0 => KeyOf(p, m) = <<"anon", m>>
      /\ p.origin # 0 => (KeyOf(p, m) = KeyOf(q, n) <=> p.origin = q.origin)
  BY <1>1, <1>2, <1>3, KeysTell DEF CallInv
<1>7. ASSUME m = n PROVE p.origin = q.origin /\ p.origin # 0
  <2>1. KeyOf(p, m) = KeyOf(q, n)
    BY <1>5, <1>7
  <2>2. calls[m].key[1] # "anon"
    BY <1>3, <1>7 DEF CallInv, Traced
  <2>3. p.origin # 0
    BY <1>5, <1>6, <2>2
  <2> QED
    BY <1>6, <2>1, <2>3
<1>8. ASSUME p.origin = q.origin, p.origin # 0 PROVE m = n
  <2>1. KeyOf(p, m) = KeyOf(q, n)
    BY <1>6, <1>8
  <2> QED
    BY <1>5, <2>1 DEF CallInv, KeysApart
<1> QED
  BY <1>3, <1>4, <1>7, <1>8

\* Argument deltas of a run whose pieces can be followed are put together the way the
\* provider took them apart: two land in one function_call item exactly when they are
\* of one upstream call (responses.py 353-360, 499-526).  A provider that counts its
\* indices from 0 in every model turn is not one of these, and the emitter then fails.
THEOREM CallsAreReassembled == ASSUME Coherent PROVE Spec => []CallsReassembled
<1>1. CallInv => CallsReassembled
  BY ReassembledHere
<1> QED
  BY <1>1, CallsKept, PTL

\* If the first piece of every call that is ever named names it, the call_id a client
\* is told when the call is announced is the one its closing events and the completed
\* response carry (responses.py 502-525, 536-557).
THEOREM CallIdsAreStable == ASSUME Coherent PROVE Spec => []CallIdStable
<1>1. CallInv => CallIdStable
  BY DEF CallInv, Announced, NamingTypes, CallIdStable
<1> QED
  BY <1>1, CallsKept, PTL

-----------------------------------------------------------------------------
(* The turn as it is stored.  What the emitter keeps of its calls and of   *)
(* its text is what the graph has put together of the pieces before those  *)
(* that are left in cur.                                                   *)

LEMMA PutTogetherSteps ==
  ASSUME NEW s, Len(s) \in Nat
  PROVE  \E f : /\ f = [n \in 0 .. Len(s) |->
                          IF n = 0 THEN Message(1, "assistant", <<>>)
                          ELSE IF Listed(s[n]) THEN AddChunk(f[n - 1], s[n], NoneListed(s, n - 1))
                          ELSE f[n - 1]]
                /\ PutTogether(s) = f[Len(s)]
<1> DEFINE R(f, k) == f = [n \in 0 .. k |->
                             IF n = 0 THEN Message(1, "assistant", <<>>)
                             ELSE IF Listed(s[n]) THEN AddChunk(f[n - 1], s[n], NoneListed(s, n - 1))
                             ELSE f[n - 1]]
           T == {k \in Nat : \E f : R(f, k)}
           F == CHOOSE f : R(f, Len(s))
<1>1. 0 \in T
  <2> DEFINE g == [n \in 0 .. 0 |-> Message(1, "assistant", <<>>)]
  <2>1. R(g, 0)
    OBVIOUS
  <2> QED
    BY <2>1
<1>2. ASSUME NEW k \in 0 .. (Len(s) - 1), k \in T PROVE k + 1 \in T
  <2>1. PICK f : R(f, k)
    BY <1>2
  <2> DEFINE more(m, n) == IF Listed(s[n]) THEN AddChunk(m, s[n], NoneListed(s, n - 1)) ELSE m
             g == [n \in 0 .. (k + 1) |-> IF n <= k THEN f[n] ELSE more(f[k], k + 1)]
  <2>2. \A n \in 0 .. k : f[n] = IF n = 0 THEN Message(1, "assistant", <<>>) ELSE more(f[n - 1], n)
    BY <2>1
  <2> HIDE DEF more
  <2>3. ASSUME NEW n \in 0 .. (k + 1)
        PROVE  g[n] = IF n = 0 THEN Message(1, "assistant", <<>>) ELSE more(g[n - 1], n)
    BY <2>2
  <2>4. R(g, k + 1)
    BY <2>3 DEF more
  <2>5. k + 1 \in Nat
    OBVIOUS
  <2> HIDE DEF R, g
  <2> QED
    BY <2>4, <2>5
<1>3. Len(s) \in T
  <2> HIDE DEF T
  <2> QED
    BY <1>1, <1>2, UpTo
<1>4. \E f : R(f, Len(s))
  BY <1>3
<1>5. R(F, Len(s))
  <2> HIDE DEF R
  <2> QED
    BY <1>4
<1>6. PutTogether(s) = F[Len(s)]
  BY DEF PutTogether
<1> QED
  BY <1>5, <1>6

\* No chunk of a prefix is listed, in one sequence as in another that begins alike.
LEMMA NoneListedAlike ==
  ASSUME NEW s, NEW t, NEW n, \A k \in 1 .. n : t[k] = s[k]
  PROVE  NoneListed(t, n) = NoneListed(s, n)
  BY DEF NoneListed

LEMMA PutMore ==
  ASSUME NEW S, NEW s \in Seq(S), NEW c
  PROVE  PutTogether(Append(s, c)) =
           IF Listed(c) THEN AddChunk(PutTogether(s), c, NoneListed(s, Len(s))) ELSE PutTogether(s)
<1>0. PICK l, t : l = Len(s) /\ t = Append(s, c)
  OBVIOUS
<1>1. /\ l \in Nat /\ Len(t) = l + 1 /\ Len(t) \in Nat /\ t[l + 1] = c
      /\ \A n \in 1 .. l : t[n] = s[n]
  BY <1>0
<1>1a. \A n \in 0 .. l : NoneListed(t, n) = NoneListed(s, n)
  <2> SUFFICES ASSUME NEW n \in 0 .. l PROVE NoneListed(t, n) = NoneListed(s, n)
    OBVIOUS
  <2>1. \A k \in 1 .. n : t[k] = s[k]
    BY <1>1
  <2> QED
    BY <2>1, NoneListedAlike
<1> DEFINE more(m, x, b) == IF Listed(x) THEN AddChunk(m, x, b) ELSE m
<1>2. PICK f : /\ \A n \in 0 .. l : f[n] = IF n = 0 THEN Message(1, "assistant", <<>>)
                                           ELSE more(f[n - 1], s[n], NoneListed(s, n - 1))
               /\ PutTogether(s) = f[l]
  <2>1. PICK f : /\ f = [n \in 0 .. Len(s) |->
                           IF n = 0 THEN Message(1, "assistant", <<>>)
                           ELSE IF Listed(s[n]) THEN AddChunk(f[n - 1], s[n], NoneListed(s, n - 1))
                           ELSE f[n - 1]]
                 /\ PutTogether(s) = f[Len(s)]
    BY <1>0, <1>1, PutTogetherSteps
  <2> QED
    BY <1>0, <2>1
<1>3. PICK g : /\ \A n \in 0 .. (l + 1) : g[n] = IF n = 0 THEN Message(1, "assistant", <<>>)
                                                 ELSE more(g[n - 1], t[n], NoneListed(t, n - 1))
               /\ PutTogether(t) = g[l + 1]
  <2>1. PICK g : /\ g = [n \in 0 .. Len(t) |->
                           IF n = 0 THEN Message(1, "assistant", <<>>)
                           ELSE IF Listed(t[n]) THEN AddChunk(g[n - 1], t[n], NoneListed(t, n - 1))
                           ELSE g[n - 1]]
                 /\ PutTogether(t) = g[Len(t)]
    BY <1>1, PutTogetherSteps
  <2> QED
    BY <1>1, <2>1
<1> HIDE DEF more
<1> DEFINE T == {k \in 0 .. l : g[k] = f[k]}
<1>4. 0 \in T
  BY <1>1, <1>2, <1>3
<1>5. ASSUME NEW k \in 0 .. (l - 1), k \in T PROVE k + 1 \in T
  <2>1. PICK m : m = k + 1
    OBVIOUS
  <2>2. m \in 1 .. l /\ m \in 0 .. l /\ m \in 0 .. (l + 1) /\ m # 0 /\ m - 1 = k /\ k \in 0 .. l
    BY <1>1, <2>1
  <2>3. /\ f[m] = more(f[k], s[m], NoneListed(s, k)) /\ g[m] = more(g[k], t[m], NoneListed(t, k))
        /\ t[m] = s[m] /\ NoneListed(t, k) = NoneListed(s, k)
    BY <1>1, <1>1a, <1>2, <1>3, <2>2
  <2> QED
    BY <1>5, <2>1, <2>2, <2>3
<1> HIDE DEF T
<1>6. l \in T
  BY <1>1, <1>4, <1>5, UpTo
<1>7. g[l] = f[l]
  BY <1>6 DEF T
<1>8. g[l + 1] = more(g[l], c, NoneListed(s, l))
  <2>1. l + 1 \in 0 .. (l + 1) /\ l + 1 # 0 /\ (l + 1) - 1 = l /\ l \in 0 .. l
    BY <1>1
  <2> QED
    BY <1>1, <1>1a, <1>3, <2>1
<1> QED
  BY <1>0, <1>2, <1>3, <1>7, <1>8 DEF more

LEMMA PutNone == PutTogether(<<>>) = Message(1, "assistant", <<>>)
<1>1. PICK none : none = <<>>
  OBVIOUS
<1>2. Len(none) = 0
  BY <1>1
<1>3. PICK f : /\ f = [n \in 0 .. Len(none) |->
                         IF n = 0 THEN Message(1, "assistant", <<>>)
                         ELSE IF Listed(none[n]) THEN AddChunk(f[n - 1], none[n], NoneListed(none, n - 1))
                         ELSE f[n - 1]]
               /\ PutTogether(none) = f[Len(none)]
  <2>1. Len(none) \in Nat
    BY <1>2
  <2> QED
    BY <2>1, PutTogetherSteps
<1>4. f[0] = Message(1, "assistant", <<>>)
  BY <1>2, <1>3
<1> QED
  BY <1>1, <1>2, <1>3, <1>4

\* While what LangChain cannot put together has not come.  The pieces left in cur are
\* of the first chunk of the message, or are not.
AtFirst == NoneListed(source, Len(source) - 1)

LEMMA JoinableStays == ASSUME UNCHANGED source PROVE (Joinable' <=> Joinable) /\ AtFirst' = AtFirst
<1>1. Places' = Places /\ \A x : PieceAt(x)' = PieceAt(x)
  BY SamePlaces
<1>2. \A x : OfFirstChunk(x)' = OfFirstChunk(x)
  BY DEF OfFirstChunk, NoneListed, Listed
<1> QED
  BY <1>1, <1>2 DEF Joinable, AtFirst, NoneListed, Listed

LEMMA JoinableBefore ==
  ASSUME Accounted, TypeOK, NEW k \in Chunks, NextChunk(k)
  PROVE  (Joinable' => Joinable) /\ AtFirst' = NoneListed(source, Len(source))
<1>1. PICK m : m = Len(source) + 1
  OBVIOUS
<1>2. /\ m \in Nat /\ Len(source') = m /\ Places \subseteq Places'
      /\ \A x \in AllPlaces : PieceAt(x)' = PieceAt(x) /\ x[1] \in Nat /\ x[1] < m
  BY <1>1, MorePlaces
<1>3. \A n \in 1 .. (m - 1) : source'[n] = source[n]
  <2>1. PICK S : source \in Seq(S)
    BY DEF Accounted
  <2> QED
    BY <1>1, <2>1 DEF NextChunk
<1>4. \A n \in 0 .. (m - 1) : NoneListed(source', n) = NoneListed(source, n)
  <2> SUFFICES ASSUME NEW n \in 0 .. (m - 1) PROVE NoneListed(source', n) = NoneListed(source, n)
    OBVIOUS
  <2>1. PICK t, s : t = source' /\ s = source
    OBVIOUS
  <2>2. \A i \in 1 .. n : t[i] = s[i]
    BY <1>2, <1>3, <2>1
  <2>3. NoneListed(t, n) = NoneListed(s, n)
    BY <2>2, NoneListedAlike
  <2> QED
    BY <2>1, <2>3
<1>5. ASSUME NEW x \in Places
      PROVE  x \in Places' /\ PieceAt(x)' = PieceAt(x) /\ OfFirstChunk(x)' = OfFirstChunk(x)
  <2>1. PieceAt(x)' = PieceAt(x) /\ x[1] \in Nat /\ x[1] < m /\ x[1] # 0
    BY <1>2, PlaceFields DEF Accounted
  <2>2. x[1] - 1 \in 0 .. (m - 1)
    BY <1>2, <2>1
  <2>3. OfFirstChunk(x)' = NoneListed(source', x[1] - 1)
    BY DEF OfFirstChunk, NoneListed, Listed
  <2> QED
    BY <1>2, <1>4, <2>1, <2>2, <2>3 DEF OfFirstChunk
<1>6. Joinable' => Joinable
  BY <1>5 DEF Joinable
<1>7. AtFirst' = NoneListed(source, Len(source))
  <2>1. m - 1 \in 0 .. (m - 1) /\ m - 1 = Len(source)
    <3>1. Len(source) \in Nat
      BY DEF Accounted
    <3> QED
      BY <1>1, <3>1
  <2>2. AtFirst' = NoneListed(source', m - 1)
    BY <1>2 DEF AtFirst, NoneListed, Listed
  <2> QED
    BY <1>4, <2>1, <2>2
<1> QED
  BY <1>6, <1>7

\* A call of the emitter and one of the stored message are the same.
SavedCall == [origin : Nat, index : Nat \cup {None}, id : Nat \cup {None}, args : Seq(Nat),
              object : {TRUE}]
Match(c, s, n) ==
  /\ c.args = s.args
  /\ c.call = s.id \/ (s.id = None /\ c.call < 0)
  /\ \A g \in Pieces : g.origin # 0 => (g.origin = s.origin <=> KeyOf(g, n) = c.key)
  /\ \A g \in Pieces : g.index # None => (g.index = s.index <=> g.origin = s.origin)
  /\ \A g \in Pieces : g.origin = s.origin /\ g.id # None => s.id \in {None, g.id}

Matched(cs, st) == \A n \in DOMAIN st : Match(cs[n], st[n], n)

\* A stored call has had a piece.
Seen(st) ==
  \A n \in DOMAIN st : \E x \in Places : Passed(x) /\ PieceAt(x).origin = st[n].origin

\* Those before the pieces left in cur are st, but for the one just opened.
Gathered(st) ==
  /\ st \in Seq(SavedCall) /\ Stored.calls = AddFragments(st, cur.frags, AtFirst)
  /\ Len(calls) = IF pc = "args" THEN Len(st) + 1 ELSE Len(st)
  /\ Matched(calls, st) /\ Seen(st)
  /\ pc = "args" => LET c == calls[Len(calls)]
                    IN c.args = <<>> /\ c.call = IdOf(Head(cur.frags), -Len(calls))

Plainly == [id : {1}, role : {"assistant"}, text : Seq(Nat), calls : {Stored.calls},
            thought : {None}, blocks : Seq(Seq(Nat)), answers : {None}]
TextSaved ==
  /\ Stored \in Plainly
  /\ pc # "gone" => Stored.text = message.text \o Token(cur.text)
  /\ message.idx = -1 => message.text = <<>>
  /\ message.idx # -1 => message.text # <<>> \/ cur.text # 0

\* What has been reported, and a completed response reports everything.
SentCall(o, n) == o.item = n /\ o.call = calls[n].call /\ o.body = calls[n].args
SentText(o) == o.item = 0 /\ o.call = None /\ o.body = message.text
SentAll(out) ==
  /\ Len(out) = Len(calls) + (IF message.idx = -1 THEN 0 ELSE 1)
  /\ \A n \in DOMAIN calls : SentCall(out[n], n)
  /\ message.idx # -1 => SentText(out[Len(calls) + 1])
Sent ==
  /\ pc \notin {"end", "gone"} =>
       /\ Len(output) = IF pc = "complete" THEN closed + 1 ELSE closed
       /\ \A n \in 1 .. closed : SentCall(output[n], n)
       /\ pc = "complete" => SentText(output[closed + 1])
  /\ \A i \in DOMAIN log : log[i].type = "completed" => SentAll(log[i].output)

Gathering == pc # "gone" /\ Joinable => \E st : Gathered(st)
TurnInv == Gathering /\ TextSaved /\ Sent

\* What pieces tell of their calls.
LEMMA ProviderTells ==
  ASSUME Coherent, NEW f \in Pieces, NEW g \in Pieces, NEW m, NEW n
  PROVE  /\ f.origin = 0 => KeyOf(f, m) = <<"anon", m>> /\ f.id = None /\ f.index = None
         /\ f.origin # 0 => KeyOf(f, m)[1] # "anon" /\ KeyOf(f, m) = KeyOf(f, n)
         /\ f.origin # 0 => (KeyOf(f, m) = KeyOf(g, n) <=> f.origin = g.origin)
         /\ f.index # None => (f.index = g.index <=> f.origin = g.origin)
         /\ f.origin = g.origin /\ f.id # None /\ g.id # None => f.id = g.id
<1>1. Like(f, Pieces) /\ Like(g, Pieces)
  BY DEF Like
<1>2. f.origin = 0 <=> f.index = None /\ f.id = None
  BY DEF Coherent, Followable
<1>3. f.index # None => (f.index = g.index <=> f.origin = g.origin)
  BY <1>2 DEF Coherent, Followable, NamedOneWay
<1> QED
  BY <1>1, <1>2, <1>3, PiecesTell DEF Coherent

\* The fragment at the head is one of them.
Stands(f, h) ==
  /\ h \in Pieces /\ f \in TokenFrag
  /\ f.origin = h.origin /\ f.index = h.index /\ f.id = h.id
LEMMA HeadPiece ==
  ASSUME TypeOK, Accounted, CallInv, Joinable, cur.frags # <<>>
  PROVE  LET f == Head(cur.frags)
         IN  /\ f.origin \notin Garbled /\ PieceAt(Next1) = f
             /\ \E h : Stands(f, h) /\ \A n : KeyOf(f, n) = KeyOf(h, n)
<1>1. PICK y, f : y = Next1 /\ f = Head(cur.frags)
  OBVIOUS
<1>2. y \in Places /\ PieceAt(y) = f /\ f \in TokenFrag
  BY <1>1, HeadPlace, HeadType
<1>3. PICK h \in Pieces : f.origin = h.origin /\ f.index = h.index /\ f.id = h.id
  BY <1>2 DEF CallInv, Pieced
<1>4. \A n : KeyOf(f, n) = KeyOf(h, n)
  BY <1>3 DEF KeyOf
<1>5. f.origin \notin Garbled
  BY <1>2 DEF Joinable
<1> QED
  BY <1>1, <1>2, <1>3, <1>4, <1>5 DEF Stands

\* Passing it shows its call.
LEMMA HeadSeen ==
  ASSUME TypeOK, Accounted, CallInv, cur.frags # <<>>, PopFragment, UNCHANGED source,
         NEW st, Seen(st), NEW t, NEW f, f = Head(cur.frags),
         \A n \in DOMAIN t : t[n].origin = f.origin \/ (n \in DOMAIN st /\ t[n].origin = st[n].origin)
  PROVE  Seen(t)'
<1> SUFFICES ASSUME NEW n \in DOMAIN t
             PROVE  \E x \in Places' : Passed(x)' /\ (PieceAt(x).origin)' = t[n].origin
  BY DEF Seen
<1>1. /\ Places' = Places /\ \A x : PieceAt(x)' = PieceAt(x)
      /\ \A x : x = Next1 \/ Passed(x) => Passed(x)'
  BY SamePlaces, HeadPassed
<1>2. CASE t[n].origin = f.origin
  <2>1. PICK y : y = Next1
    OBVIOUS
  <2>2. y \in Places /\ PieceAt(y) = f
    BY <2>1, HeadPlace
  <2> QED
    BY <1>1, <1>2, <2>1, <2>2
<1>3. CASE n \in DOMAIN st /\ t[n].origin = st[n].origin
  <2>1. PICK x \in Places : Passed(x) /\ PieceAt(x).origin = st[n].origin
    BY <1>3 DEF Seen
  <2> QED
    BY <1>1, <1>3, <2>1
<1> QED
  BY <1>2, <1>3

\* A call that its first piece opens, on either side.
Fresh(f) == [origin |-> f.origin, index |-> f.index, id |-> f.id, args |-> Token(f.args), object |-> TRUE]
LEMMA FirstMatch ==
  ASSUME Coherent, NEW f, NEW h, Stands(f, h),
         NEW n \in Nat \ {0}, NEW c, c.key = KeyOf(h, n), c.call = IdOf(f, -n), c.args = Token(f.args),
         NEW s, s = Fresh(f)
  PROVE  s \in SavedCall /\ Match(c, s, n)
<1>0. f \in TokenFrag /\ h \in Pieces /\ f.origin = h.origin /\ f.index = h.index /\ f.id = h.id
  BY DEF Stands
<1>1. /\ f.origin \in Nat /\ f.index \in Nat \cup {None} /\ f.id \in Nat \cup {None}
      /\ Token(f.args) \in Seq(Nat)
  BY <1>0 DEF TokenFrag, Token
<1>2. s.origin = h.origin /\ s.index = h.index /\ s.id = h.id /\ s.args = Token(f.args) /\ s \in SavedCall
  BY <1>0, <1>1 DEF SavedCall, Fresh
<1>3. c.args = s.args /\ (c.call = s.id \/ (s.id = None /\ c.call < 0))
  BY <1>0, <1>2 DEF IdOf
<1>4. ASSUME NEW g \in Pieces, g.origin # 0 PROVE g.origin = s.origin <=> KeyOf(g, n) = c.key
  BY <1>0, <1>2, <1>4, ProviderTells
<1>5. ASSUME NEW g \in Pieces, g.index # None PROVE g.index = s.index <=> g.origin = s.origin
  BY <1>0, <1>2, <1>5, ProviderTells
<1>6. ASSUME NEW g \in Pieces, g.origin = s.origin, g.id # None PROVE s.id \in {None, g.id}
  BY <1>0, <1>2, <1>6, ProviderTells
<1> QED
  BY <1>2, <1>3, <1>4, <1>5, <1>6 DEF Match

\* No stored call is of the piece's call when no call of the emitter is.
LEMMA StoredAnew ==
  ASSUME Coherent, NEW st \in Seq(SavedCall), NEW cs, NEW f, NEW h, Stands(f, h), NEW n, NEW first,
         Matched(cs, st), \A k \in DOMAIN st : cs[k].key # KeyOf(h, n), f.origin \notin Garbled
  PROVE  AddFragment(st, f, first) = Append(st, Fresh(f))
<1>0. h \in Pieces /\ f.origin = h.origin /\ f.index = h.index
  BY DEF Stands
<1>1. ASSUME NEW k \in DOMAIN st, st[k].origin = f.origin, f.origin # 0 PROVE FALSE
  <2>1. KeyOf(h, k) = cs[k].key
    BY <1>0, <1>1 DEF Matched, Match
  <2>2. KeyOf(h, k) = KeyOf(h, n)
    BY <1>0, <1>1, ProviderTells
  <2> QED
    BY <2>1, <2>2
<1>2. ASSUME NEW k \in DOMAIN st, Joins(st[k], f) PROVE FALSE
  <2>1. h.index # None /\ h.index = st[k].index
    BY <1>0, <1>2 DEF Joins
  <2>2. h.origin = st[k].origin
    BY <1>0, <2>1 DEF Matched, Match
  <2>3. h.origin # 0
    BY <1>0, <2>1, ProviderTells
  <2> QED
    BY <1>0, <1>1, <2>2, <2>3
<1>3. IsObject(st, f) = TRUE
  <2>1. Begins(st, f)
    BY <1>1 DEF Begins
  <2> QED
    BY <2>1 DEF IsObject
<1>4. AddFragment(st, f, first) = Append(st, [origin |-> f.origin, index |-> f.index, id |-> f.id,
                                              args |-> Token(f.args), object |-> IsObject(st, f)])
  BY <1>2 DEF AddFragment
<1> QED
  BY <1>3, <1>4 DEF Fresh

LEMMA AsSeq == ASSUME NEW S, NEW n \in Nat, NEW f \in [1 .. n -> S] PROVE f \in Seq(S) /\ Len(f) = n
  OBVIOUS

\* b is c when f is added.
Continues(c, b, f) ==
  c.key = b.key /\ c.call = IdOf(f, b.call) /\ c.args = b.args \o Token(f.args)

\* And when one is, it is the one stored call.
Belongs(cs, st, n, f, h) ==
  /\ st \in Seq(SavedCall) /\ n \in DOMAIN st /\ Matched(cs, st)
  /\ Stands(f, h) /\ f.index # None /\ f.origin \notin Garbled
  /\ cs[n].key = KeyOf(h, n) /\ cs[n].key[1] # "anon" /\ cs[n].args \in Seq(Nat)
  /\ \A k \in DOMAIN st : cs[k].key = cs[n].key => k = n

\* t is st after that.
Again(t, st, c, n) ==
  /\ t \in Seq(SavedCall) /\ Len(t) = Len(st) /\ Match(c, t[n], n)
  /\ \A k \in DOMAIN st : (k # n => t[k] = st[k]) /\ t[k].origin = st[k].origin

LEMMA StoredAgain ==
  ASSUME Coherent, NEW st, NEW cs, NEW f, NEW h, NEW n, Belongs(cs, st, n, f, h),
         NEW b, b = cs[n], NEW c, Continues(c, b, f), NEW t, t = AddFragment(st, f, FALSE)
  PROVE  Again(t, st, c, n)
<1>0. /\ st \in Seq(SavedCall) /\ n \in DOMAIN st /\ Matched(cs, st)
      /\ f \in TokenFrag /\ h \in Pieces /\ f.origin = h.origin /\ f.index = h.index /\ f.id = h.id
      /\ f.index # None /\ f.origin \notin Garbled
      /\ cs[n].key = KeyOf(h, n) /\ cs[n].key[1] # "anon" /\ cs[n].args \in Seq(Nat)
      /\ \A k \in DOMAIN st : cs[k].key = cs[n].key => k = n
  BY DEF Belongs, Stands
<1>1. h.origin # 0 /\ h.origin = st[n].origin
  <2>1. h.origin # 0
    BY <1>0, ProviderTells
  <2> QED
    BY <1>0, <2>1 DEF Matched, Match
<1>2. ASSUME NEW k \in DOMAIN st, st[k].origin = f.origin PROVE k = n
  <2>1. KeyOf(h, k) = cs[k].key
    BY <1>0, <1>1, <1>2 DEF Matched, Match
  <2>2. KeyOf(h, k) = KeyOf(h, n)
    BY <1>0, <1>1, ProviderTells
  <2> QED
    BY <1>0, <2>1, <2>2
<1>3. PICK s, u : s = st[n] /\ u = Merged(s, f, IsObject(st, f))
  OBVIOUS
<1>4. s \in SavedCall
  BY <1>0, <1>3
<1>5. /\ s.origin \in Nat /\ s.index \in Nat \cup {None} /\ s.id \in Nat \cup {None}
      /\ s.args \in Seq(Nat) /\ s.object = TRUE
      /\ f.id \in Nat \cup {None} /\ Token(f.args) \in Seq(Nat)
  <2>1. /\ s.origin \in Nat /\ s.index \in Nat \cup {None} /\ s.id \in Nat \cup {None}
        /\ s.args \in Seq(Nat) /\ s.object \in {TRUE}
    BY <1>4 DEF SavedCall
  <2>2. f.id \in Nat \cup {None} /\ Token(f.args) \in Seq(Nat)
    BY <1>0 DEF TokenFrag, Token
  <2> QED
    BY <2>1, <2>2
<1>5a. s.args = <<>> => IsObject(st, f) = TRUE
  <2>1. ASSUME s.args = <<>> PROVE Begins(st, f)
    BY <1>2, <1>3, <2>1 DEF Begins
  <2> QED
    BY <1>0, <2>1 DEF IsObject
<1>6. u = [origin |-> s.origin, index |-> s.index, id |-> IdOf(s, f.id), args |-> s.args \o Token(f.args),
           object |-> TRUE]
  <2>1. u = [s EXCEPT !.id = IdOf(s, f.id), !.args = s.args \o Token(f.args), !.object = TRUE]
    BY <1>3, <1>4, <1>5, <1>5a DEF Merged, SavedCall
  <2> QED
    BY <1>4, <2>1 DEF SavedCall
<1>7. s.args \o Token(f.args) \in Seq(Nat) /\ IdOf(s, f.id) \in Nat \cup {None}
  BY <1>0, <1>5 DEF IdOf
<1>8. /\ u \in SavedCall /\ u.origin = s.origin /\ u.index = s.index /\ u.id = IdOf(s, f.id)
      /\ u.args = s.args \o Token(f.args)
  BY <1>0, <1>5, <1>6, <1>7 DEF SavedCall
<1>9. \A k \in DOMAIN st : Joins(st[k], f) <=> k = n
  <2>1. ASSUME NEW k \in DOMAIN st, Joins(st[k], f) PROVE k = n
    <3>1. h.index = st[k].index
      BY <1>0, <2>1 DEF Joins
    <3>2. h.origin = st[k].origin
      BY <1>0, <3>1 DEF Matched, Match
    <3> QED
      BY <1>0, <1>2, <3>2
  <2>2. Joins(st[n], f)
    <3>1. st[n].index = f.index
      BY <1>0, <1>1 DEF Matched, Match
    <3>2. st[n].id = None \/ f.id = None \/ st[n].id = f.id
      BY <1>0, <1>1 DEF Matched, Match
    <3> QED
      BY <1>0, <3>1, <3>2 DEF Joins
  <2> QED
    BY <2>1, <2>2
<1>10. t = [k \in DOMAIN st |-> IF k = n THEN u ELSE st[k]]
  <2>1. \E k \in DOMAIN st : Joins(st[k], f)
    BY <1>0, <1>9
  <2>2. t = [k \in DOMAIN st |->
               IF IsTarget(st, f, k) THEN Merged(st[k], f, IsObject(st, f)) ELSE st[k]]
    BY <1>0, <2>1 DEF AddFragment
  <2>3. ASSUME NEW k \in DOMAIN st PROVE IsTarget(st, f, k) <=> k = n
    <3>1. DOMAIN st = 1 .. Len(st) /\ Len(st) \in Nat
      BY <1>0
    <3>2. \A j \in 1 .. (k - 1) : j \in DOMAIN st /\ j # k
      BY <3>1
    <3> QED
      BY <1>9, <3>2 DEF IsTarget
  <2>4. ASSUME NEW k \in DOMAIN st
        PROVE  (IF IsTarget(st, f, k) THEN Merged(st[k], f, IsObject(st, f)) ELSE st[k])
                 = IF k = n THEN u ELSE st[k]
    BY <1>3, <2>3
  <2> QED
    BY <2>2, <2>4
<1>11. t \in Seq(SavedCall) /\ Len(t) = Len(st) /\ t[n] = u /\ \A k \in DOMAIN st : k # n => t[k] = st[k]
  <2>1. DOMAIN st = 1 .. Len(st) /\ Len(st) \in Nat /\ \A k \in DOMAIN st : st[k] \in SavedCall
    BY <1>0
  <2>2. t \in [1 .. Len(st) -> SavedCall]
    BY <1>0, <1>8, <1>10, <2>1
  <2>3. t \in Seq(SavedCall) /\ Len(t) = Len(st)
    BY <2>1, <2>2, AsSeq
  <2>4. t[n] = u /\ \A k \in DOMAIN st : k # n => t[k] = st[k]
    BY <1>0, <1>10
  <2> QED
    BY <2>3, <2>4
<1>12. Match(cs[n], s, n)
  BY <1>0, <1>3 DEF Matched
<1>13. Match(c, u, n)
  <2>1. c.args = u.args
    BY <1>0, <1>8, <1>12 DEF Match, Continues
  <2>2. f.id # None /\ s.id # None => s.id = f.id
    BY <1>0, <1>1, <1>3, <1>12 DEF Match
  <2>3. c.call = u.id \/ (u.id = None /\ c.call < 0)
    BY <1>0, <1>8, <1>12, <2>2 DEF Match, IdOf, Continues
  <2>4. ASSUME NEW g \in Pieces, g.origin = u.origin, g.id # None PROVE u.id \in {None, g.id}
    <3>1. s.id \in {None, g.id}
      BY <1>0, <1>8, <1>12, <2>4 DEF Match
    <3>2. f.id # None => f.id = g.id
      BY <1>0, <1>1, <1>3, <1>8, <2>4, ProviderTells
    <3> QED
      BY <1>0, <1>8, <3>1, <3>2 DEF IdOf
  <2>5. \A g \in Pieces : g.origin # 0 => (g.origin = u.origin <=> KeyOf(g, n) = c.key)
    BY <1>0, <1>8, <1>12 DEF Match, Continues
  <2>6. \A g \in Pieces : g.index # None => (g.index = u.index <=> g.origin = u.origin)
    BY <1>8, <1>12 DEF Match
  <2> QED
    BY <1>0, <2>1, <2>3, <2>4, <2>5, <2>6 DEF Match
<1>14. \A k \in DOMAIN st : t[k].origin = st[k].origin
  BY <1>3, <1>8, <1>11
<1> QED
  BY <1>0, <1>11, <1>13, <1>14 DEF Again

\* A call more on either side.
LEMMA OneMore ==
  ASSUME NEW st \in Seq(SavedCall), NEW s \in SavedCall, NEW n, n = Len(st) + 1,
         NEW cs, Matched(cs, st), Match(cs[n], s, n)
  PROVE  LET t == Append(st, s)
         IN t \in Seq(SavedCall) /\ Len(t) = n /\ Matched(cs, t)
<1>1. PICK t : t = Append(st, s)
  OBVIOUS
<1>2. /\ t \in Seq(SavedCall) /\ Len(t) = n /\ DOMAIN t = DOMAIN st \cup {n}
      /\ t[n] = s /\ \A k \in DOMAIN st : t[k] = st[k]
  BY <1>1
<1> QED
  BY <1>1, <1>2 DEF Matched

\* What StartCall adds to the list.
LEMMA CallAdded ==
  ASSUME TypeOK, StartCall
  PROVE  LET f == Head(cur.frags)
             n == Len(calls) + 1
         IN /\ n \in Nat \ {0} /\ Len(calls') = n /\ n \notin DOMAIN calls
            /\ calls'[n].key = OwnKey(f) /\ calls'[n].call = IdOf(f, -n) /\ calls'[n].args = <<>>
            /\ \A k \in DOMAIN calls : calls'[k] = calls[k]
<1>1. PICK n, f : n = Len(calls) + 1 /\ f = Head(cur.frags)
  OBVIOUS
<1>2. PICK c : c = [key |-> OwnKey(f), idx |-> nextIndex, call |-> IdOf(f, -n), args |-> <<>>]
  OBVIOUS
<1>3. calls' = Append(calls, c)
  BY <1>1, <1>2 DEF StartCall
<1>4. calls \in Seq(CallState) /\ DOMAIN calls = 1 .. Len(calls) /\ Len(calls) \in Nat
  BY DEF TypeOK
<1>5. calls \in Seq(CallState \cup {c})
  BY <1>4
<1>6. /\ n \in Nat \ {0} /\ Len(calls') = n /\ n \notin DOMAIN calls
      /\ calls'[n] = c /\ \A k \in DOMAIN calls : calls'[k] = calls[k]
  BY <1>1, <1>3, <1>4, <1>5
<1> QED
  BY <1>1, <1>2, <1>6

\* The next fragment is added next.
LEMMA GatheredNext ==
  ASSUME TypeOK, cur.frags # <<>>, PopFragment, NEW st, Gathered(st), NEW f, f = Head(cur.frags)
  PROVE  Stored.calls = AddFragments(AddFragment(st, f, AtFirst), cur'.frags, AtFirst)
<1>1. PICK first, g : first = AtFirst /\ g = cur.frags
  OBVIOUS
<1>2. g \in Seq(TokenFrag) /\ g # <<>> /\ Head(g) = f /\ cur'.frags = Tail(g)
  BY <1>1 DEF TypeOK, Pending, PopFragment
<1>3. AddFragments(st, g, first) = AddFragments(AddFragment(st, Head(g), first), Tail(g), first)
  BY <1>2, AddFragmentsNext
<1>4. Stored.calls = AddFragments(st, g, first)
  BY <1>1 DEF Gathered
<1> QED
  BY <1>1, <1>2, <1>3, <1>4

LEMMA GatherStart ==
  ASSUME Coherent, Joinable, TypeOK, Accounted, CallInv, StartCall, NEW st, Gathered(st)
  PROVE  \E t : Gathered(t)'
<1>1. PICK n, f : n = Len(calls) + 1 /\ f = Head(cur.frags)
  OBVIOUS
<1>2. /\ pc = "stream" /\ cur.frags # <<>> /\ ~KnownKey(f) /\ UNCHANGED source
      /\ IF f.args # 0 THEN pc' = "args" /\ UNCHANGED cur ELSE PopFragment /\ UNCHANGED pc
  BY <1>1 DEF StartCall, AtFragment
<1>3. /\ n \in Nat \ {0} /\ Len(calls') = n /\ n \notin DOMAIN calls
      /\ calls'[n].key = OwnKey(f) /\ calls'[n].call = IdOf(f, -n) /\ calls'[n].args = <<>>
      /\ \A k \in DOMAIN calls : calls'[k] = calls[k]
  BY <1>1, CallAdded
<1>4. Stored' = Stored /\ AtFirst' = AtFirst
  BY <1>2, JoinableStays DEF Stored
<1>5. /\ st \in Seq(SavedCall) /\ n = Len(st) + 1 /\ DOMAIN calls = DOMAIN st
      /\ Matched(calls, st) /\ Seen(st)
  BY <1>1, <1>2 DEF Gathered, TypeOK
<1>6. Matched(calls', st)
  BY <1>3, <1>5 DEF Matched
<1>7. CASE f.args # 0
  <2>1. pc' = "args" /\ cur' = cur
    BY <1>2, <1>7
  <2>2. st \in Seq(SavedCall) /\ Stored.calls = AddFragments(st, cur.frags, AtFirst)
    BY DEF Gathered
  <2>2a. Seen(st)'
    <3>1. Places' = Places /\ \A x : PieceAt(x)' = PieceAt(x) /\ Passed(x)' = Passed(x)
      BY <1>2, <2>1, SamePlaces DEF Passed, Rest
    <3> QED
      BY <1>5, <3>1 DEF Seen
  <2>3. Len(calls') = Len(st) + 1 /\ calls'[Len(calls')].args = <<>>
        /\ calls'[Len(calls')].call = IdOf(Head(cur'.frags), -Len(calls'))
    BY <1>1, <1>3, <1>5, <2>1
  <2>4. Gathered(st)'
    BY <1>4, <1>6, <2>1, <2>2, <2>2a, <2>3 DEF Gathered
  <2> QED
    BY <2>4
<1>8. CASE f.args = 0
  <2>1. pc' = "stream" /\ PopFragment
    BY <1>2, <1>8
  <2>2. PICK h : f.origin \notin Garbled /\ Stands(f, h) /\ \A k : KeyOf(f, k) = KeyOf(h, k)
    BY <1>1, <1>2, HeadPiece
  <2>3. PICK s : s = Fresh(f)
    OBVIOUS
  <2>4. Token(f.args) = <<>> /\ calls'[n].key = KeyOf(h, n)
    BY <1>1, <1>3, <1>8, <2>2 DEF Token, OwnKey
  <2>5. s \in SavedCall /\ Match(calls'[n], s, n)
    BY <1>3, <2>2, <2>3, <2>4, FirstMatch
  <2>6. \A k \in DOMAIN st : calls[k].key # KeyOf(h, n)
    BY <1>1, <1>2, <1>5, <2>2 DEF KnownKey, OwnKey
  <2>7. AddFragment(st, f, AtFirst) = Append(st, s)
    BY <1>5, <2>2, <2>3, <2>6, StoredAnew
  <2>8. PICK t : t = Append(st, s)
    OBVIOUS
  <2>9. t \in Seq(SavedCall) /\ Len(t) = n /\ Matched(calls', t)
    BY <1>5, <1>6, <2>5, <2>8, OneMore
  <2>10. Stored.calls = AddFragments(t, cur'.frags, AtFirst)
    BY <1>1, <1>2, <2>1, <2>7, <2>8, GatheredNext
  <2>10a. Seen(t)'
    <3>1. s.origin = f.origin
      BY <2>3 DEF Fresh
    <3>2. \A k \in DOMAIN t : t[k].origin = f.origin \/ (k \in DOMAIN st /\ t[k].origin = st[k].origin)
      BY <1>5, <2>5, <2>8, <3>1
    <3> QED
      BY <1>1, <1>2, <1>5, <2>1, <3>2, HeadSeen
  <2>11. Gathered(t)'
    BY <1>3, <1>4, <2>1, <2>9, <2>10, <2>10a DEF Gathered
  <2> QED
    BY <2>11
<1> QED
  BY <1>7, <1>8

LEMMA GatherOwed ==
  ASSUME Coherent, Joinable, TypeInv, Accounted, Placed, CallInv, EmitArgs, NEW st, Gathered(st)
  PROVE  \E t : Gathered(t)'
<1>1. PICK n, f : n = Len(calls) /\ f = Head(cur.frags)
  OBVIOUS
<1>2. /\ pc = "args" /\ cur.frags # <<>> /\ f.args # 0 /\ PopFragment /\ UNCHANGED source /\ pc' = "stream"
      /\ n \in DOMAIN calls /\ n \in Nat \ {0} /\ TypeOK
      /\ calls' = [calls EXCEPT ![n].args = Append(@, f.args)]
  BY <1>1 DEF EmitArgs, TypeInv, TypeOK, Control, Placed
<1>3. /\ Len(calls') = n
      /\ calls'[n].key = calls[n].key /\ calls'[n].call = calls[n].call
      /\ calls'[n].args = Append(calls[n].args, f.args)
      /\ \A k \in DOMAIN calls : k # n => calls'[k] = calls[k]
  <2>1. calls \in Seq(CallState) /\ calls[n] \in CallState
    BY <1>2, CallType DEF TypeOK
  <2>2. calls'[n] = [calls[n] EXCEPT !.args = Append(@, f.args)] /\ Len(calls') = Len(calls)
        /\ \A k \in DOMAIN calls : k # n => calls'[k] = calls[k]
    BY <1>2, <2>1
  <2> QED
    BY <1>1, <2>1, <2>2 DEF CallState
<1>4. Stored' = Stored /\ AtFirst' = AtFirst
  BY <1>2, JoinableStays DEF Stored
<1>5. /\ st \in Seq(SavedCall) /\ n = Len(st) + 1
      /\ Matched(calls, st) /\ \A k \in DOMAIN st : k \in DOMAIN calls /\ k # n
      /\ calls[n].args = <<>> /\ calls[n].call = IdOf(f, -n)
  <2>1. st \in Seq(SavedCall) /\ Len(calls) = Len(st) + 1 /\ Matched(calls, st)
        /\ calls[n].args = <<>> /\ calls[n].call = IdOf(f, -n)
    BY <1>1, <1>2 DEF Gathered
  <2>2. DOMAIN calls = 1 .. Len(calls) /\ DOMAIN st = 1 .. Len(st) /\ Len(st) \in Nat
    BY <1>2, <2>1 DEF TypeOK
  <2>3. \A k \in DOMAIN st : k \in DOMAIN calls /\ k # n
    BY <1>1, <2>1, <2>2
  <2>4. n = Len(st) + 1
    BY <1>1, <2>1
  <2> QED
    BY <2>1, <2>3, <2>4
<1>6. Matched(calls', st)
  BY <1>3, <1>5 DEF Matched
<1>7. PICK h : f.origin \notin Garbled /\ Stands(f, h) /\ \A k : KeyOf(f, k) = KeyOf(h, k)
  BY <1>1, <1>2, HeadPiece
<1>8. PICK s : s = Fresh(f)
  OBVIOUS
<1>9. calls[n].key = KeyOf(h, n) /\ \A k \in DOMAIN st : calls[k].key # KeyOf(h, n)
  BY <1>1, <1>2, <1>5, <1>7 DEF CallInv, KeysApart
<1>10. s \in SavedCall /\ Match(calls'[n], s, n)
  <2>1. calls'[n].args = Token(f.args)
    BY <1>2, <1>3, <1>5 DEF Token
  <2> QED
    BY <1>2, <1>3, <1>5, <1>7, <1>8, <1>9, <2>1, FirstMatch
<1>11. AddFragment(st, f, AtFirst) = Append(st, s)
  BY <1>5, <1>7, <1>8, <1>9, StoredAnew
<1>12. PICK t : t = Append(st, s)
  OBVIOUS
<1>13. t \in Seq(SavedCall) /\ Len(t) = n /\ Matched(calls', t)
  BY <1>5, <1>6, <1>10, <1>12, OneMore
<1>14. Stored.calls = AddFragments(t, cur'.frags, AtFirst)
  BY <1>1, <1>2, <1>11, <1>12, GatheredNext
<1>14a. Seen(t)'
  <2>1. s.origin = f.origin
    BY <1>8 DEF Fresh
  <2>2. \A k \in DOMAIN t : t[k].origin = f.origin \/ (k \in DOMAIN st /\ t[k].origin = st[k].origin)
    BY <1>5, <1>10, <1>12, <2>1
  <2>3. Seen(st)
    BY DEF Gathered
  <2> QED
    BY <1>1, <1>2, <2>2, <2>3, HeadSeen
<1>15. Gathered(t)'
  BY <1>2, <1>3, <1>4, <1>13, <1>14, <1>14a DEF Gathered
<1> QED
  BY <1>15

LEMMA GatherMore ==
  ASSUME Coherent, Joinable, TypeOK, Accounted, CallInv, NEW n \in DOMAIN calls, ContinueCall(n),
         NEW st, Gathered(st)
  PROVE  \E t : Gathered(t)'
<1>1. PICK f : f = Head(cur.frags)
  OBVIOUS
<1>2. /\ pc = "stream" /\ pc' = "stream" /\ cur.frags # <<>> /\ PopFragment /\ UNCHANGED source
      /\ calls[n].key = OwnKey(f)
  BY <1>1 DEF ContinueCall, AtFragment
<1>3. PICK h : /\ f.origin \notin Garbled /\ PieceAt(Next1) = f /\ Stands(f, h)
               /\ \A k : KeyOf(f, k) = KeyOf(h, k)
  BY <1>1, <1>2, HeadPiece
<1>3a. h \in Pieces /\ f \in TokenFrag /\ f.origin = h.origin
  BY <1>3 DEF Stands
<1>4. calls[n].key = KeyOf(h, n) /\ calls[n].key[1] # "anon"
  <2>1. n \in Nat /\ Len(calls) \in Nat /\ n # Len(calls) + 1
    BY DEF TypeOK
  <2>2. calls[n].key = KeyOf(h, Len(calls) + 1)
    BY <1>2, <1>3 DEF OwnKey
  <2>3. h.origin # 0
    <3> SUFFICES ASSUME h.origin = 0 PROVE FALSE
      OBVIOUS
    <3>1. KeyOf(h, Len(calls) + 1) = <<"anon", Len(calls) + 1>>
      BY <1>3a, ProviderTells
    <3> QED
      BY <2>1, <2>2, <3>1 DEF CallInv, KeysApart
  <2> QED
    BY <1>3a, <2>2, <2>3, ProviderTells
<1>5. /\ Len(calls') = Len(calls) /\ calls[n].args \in Seq(Nat)
      /\ calls'[n].key = calls[n].key /\ calls'[n].call = IdOf(f, calls[n].call)
      /\ calls'[n].args = calls[n].args \o Token(f.args)
      /\ \A k \in DOMAIN calls : k # n => calls'[k] = calls[k]
  <2>1. calls \in Seq(CallState) /\ calls[n] \in CallState /\ calls[n].args \in Seq(Nat) /\ f.args \in Nat
    BY <1>3a, CallType DEF TypeOK, TokenFrag
  <2>2. /\ Len(calls') = Len(calls) /\ \A k \in DOMAIN calls : k # n => calls'[k] = calls[k]
        /\ calls'[n] = IF f.args # 0 THEN [calls[n] EXCEPT !.call = IdOf(f, @), !.args = Append(@, f.args)]
                       ELSE [calls[n] EXCEPT !.call = IdOf(f, @)]
    <3>1. CASE f.args # 0
      <4>1. calls' = [calls EXCEPT ![n].call = IdOf(f, @), ![n].args = Append(@, f.args)]
        BY <1>1, <3>1 DEF ContinueCall
      <4> QED
        BY <2>1, <3>1, <4>1
    <3>2. CASE f.args = 0
      <4>1. calls' = [calls EXCEPT ![n].call = IdOf(f, @)]
        BY <1>1, <3>2 DEF ContinueCall
      <4> QED
        BY <2>1, <3>2, <4>1
    <3> QED
      BY <3>1, <3>2
  <2>3. f.args # 0 => Append(calls[n].args, f.args) = calls[n].args \o Token(f.args)
    BY <2>1 DEF Token
  <2>4. f.args = 0 => calls[n].args = calls[n].args \o Token(f.args)
    BY <2>1 DEF Token
  <2>5. /\ calls'[n].key = calls[n].key /\ calls'[n].call = IdOf(f, calls[n].call)
        /\ calls'[n].args = IF f.args # 0 THEN Append(calls[n].args, f.args) ELSE calls[n].args
    BY <2>1, <2>2 DEF CallState
  <2> QED
    BY <2>1, <2>2, <2>3, <2>4, <2>5
<1>6. Stored' = Stored /\ AtFirst' = AtFirst
  BY <1>2, JoinableStays DEF Stored
<1>7. /\ st \in Seq(SavedCall) /\ Len(calls) = Len(st) /\ DOMAIN calls = DOMAIN st
      /\ Matched(calls, st) /\ Seen(st)
  BY <1>2 DEF Gathered, TypeOK
<1>8. PICK t : t = AddFragment(st, f, FALSE)
  OBVIOUS
<1>8a. st[n].origin = f.origin /\ f.origin # 0
  BY <1>3a, <1>4, <1>7, ProviderTells DEF Matched, Match
<1>8b. f.index # None /\ AtFirst = FALSE
  <2>1. PICK y, l : y = Next1 /\ l = Len(source)
    OBVIOUS
  <2>2. y \in Places /\ PieceAt(y) = f /\ y[1] = l /\ l \in Nat /\ ~Passed(y)
    BY <1>2, <1>3, <2>1, HeadPlace DEF Next1
  <2>3. PICK x \in Places : Passed(x) /\ PieceAt(x).origin = f.origin
    BY <1>7, <1>8a DEF Seen
  <2>4. x # y
    BY <2>2, <2>3
  <2>5. f.index # None /\ ~(OfFirstChunk(y) /\ OfFirstChunk(x))
    BY <1>8a, <2>2, <2>3, <2>4 DEF Joinable
  <2>6. x[1] \in 1 .. l
    BY <2>1, PlaceFields DEF Accounted
  <2>7. NoneListed(source, l - 1) => NoneListed(source, x[1] - 1)
    BY <2>2, <2>6 DEF NoneListed
  <2>8. ~NoneListed(source, l - 1)
    BY <2>2, <2>5, <2>7 DEF OfFirstChunk
  <2> QED
    BY <2>1, <2>5, <2>8 DEF AtFirst, NoneListed
<1>9. \A k \in DOMAIN st : calls[k].key = calls[n].key => k = n
  BY <1>7 DEF CallInv, KeysApart
<1>10. PICK c : c = calls'[n]
  OBVIOUS
<1>10a. Continues(c, calls[n], f)
  BY <1>5, <1>10 DEF Continues
<1>11. /\ t \in Seq(SavedCall) /\ Len(t) = Len(st) /\ Match(c, t[n], n)
       /\ \A k \in DOMAIN st : (k # n => t[k] = st[k]) /\ t[k].origin = st[k].origin
  <2>1. PICK cs : cs = calls
    OBVIOUS
  <2>2. Belongs(cs, st, n, f, h)
    BY <1>3, <1>4, <1>5, <1>7, <1>8b, <1>9, <2>1 DEF Belongs
  <2>3. PICK b : b = cs[n]
    OBVIOUS
  <2>4. Continues(c, b, f)
    BY <1>10a, <2>1, <2>3
  <2>5. Again(t, st, c, n)
    BY <1>8, <2>2, <2>3, <2>4, StoredAgain
  <2> QED
    BY <2>5 DEF Again
<1>12. Matched(calls', t)
  <2>1. DOMAIN t = DOMAIN st
    BY <1>7, <1>11
  <2> QED
    BY <1>5, <1>7, <1>10, <1>11, <2>1 DEF Matched
<1>13. Stored.calls = AddFragments(t, cur'.frags, AtFirst)
  BY <1>1, <1>2, <1>8, <1>8b, GatheredNext
<1>13a. Seen(t)'
  <2>1. DOMAIN t = DOMAIN st
    BY <1>7, <1>11
  <2> QED
    BY <1>1, <1>2, <1>7, <1>11, <2>1, HeadSeen
<1>14. Gathered(t)'
  BY <1>2, <1>5, <1>6, <1>7, <1>11, <1>12, <1>13, <1>13a DEF Gathered
<1> QED
  BY <1>14

\* A chunk is put to the stored message when the emitter accepts it.
LEMMA StoredChunk ==
  ASSUME ListNamesNodes, TypeOK, Accounted, Stored \in Plainly, NEW k \in Chunks, NextChunk(k)
  PROVE  /\ Stored' \in Plainly'
         /\ Stored'.calls = AddFragments(Stored.calls, cur'.frags, AtFirst')
         /\ Stored'.text = Stored.text \o Token(cur'.text)
<1>1. PICK c : c = Fill(k, fed)
  OBVIOUS
<1>2. PICK S : source \in Seq(S)
  BY DEF Accounted
<1>3. source' = Append(source, c) /\ cur' = IF Accepts(k) THEN Contents(c) ELSE Nothing
  BY <1>1 DEF NextChunk
<1>3a. PICK first : first = AtFirst' /\ first = NoneListed(source, Len(source))
  BY JoinableBefore
<1>4. Stored' = IF Listed(c) THEN AddChunk(Stored, c, first) ELSE Stored
  BY <1>2, <1>3, <1>3a, PutMore DEF Stored
<1>5. Listed(c) <=> Accepts(k)
  BY <1>1 DEF Listed, Accepts, Fill, ListNamesNodes
<1>6. PICK m : m = Stored
  OBVIOUS
<1>7. /\ m.text \in Seq(Nat) /\ m.blocks \in Seq(Seq(Nat)) /\ m.id = 1 /\ m.role = "assistant"
      /\ m.thought = None /\ m.answers = None
      /\ m = [id |-> 1, role |-> "assistant", text |-> m.text, calls |-> m.calls,
              thought |-> None, blocks |-> m.blocks, answers |-> None]
  BY <1>6 DEF Plainly
<1>8. CASE ~Accepts(k)
  <2>1. Stored' = Stored /\ cur'.frags = <<>> /\ cur'.text = 0
    BY <1>3, <1>4, <1>5, <1>8 DEF Nothing
  <2>2. AddFragments(m.calls, <<>>, first) = m.calls
    BY AddFragmentsNone
  <2>3. m.text \o Token(0) = m.text
    BY <1>7 DEF Token
  <2>4. Stored' \in Plainly'
    BY <2>1 DEF Plainly
  <2> QED
    BY <1>3a, <1>6, <2>1, <2>2, <2>3, <2>4
<1>9. CASE Accepts(k)
  <2>1. PICK r, t, g : r = c.reasoning /\ t = c.text /\ g = c.frags
    OBVIOUS
  <2>2. r \in Nat /\ t \in Nat /\ cur'.frags = g /\ cur'.text = t
    <3>1. Contents(c) \in Pending
      BY <1>1, FillType DEF TypeOK
    <3> QED
      BY <1>3, <1>9, <2>1, <3>1 DEF Contents, Pending
  <2>3. PICK text, blocks, cs : /\ text = m.text \o Token(t) /\ cs = AddFragments(m.calls, g, first)
                                /\ blocks = IF r = 0 THEN m.blocks ELSE Append(m.blocks, Token(r))
    OBVIOUS
  <2>4. text \in Seq(Nat) /\ blocks \in Seq(Seq(Nat))
    <3>1. Token(t) \in Seq(Nat) /\ Token(r) \in Seq(Nat)
      BY <2>2 DEF Token
    <3> QED
      BY <1>7, <2>3, <3>1
  <2>5. Stored' = [m EXCEPT !.text = text, !.blocks = blocks, !.calls = cs]
    <3>1. AddChunk(m, c, first)
            = [m EXCEPT !.text = m.text \o Token(t),
                         !.blocks = IF r = 0 THEN m.blocks ELSE Append(m.blocks, Token(r)),
                         !.calls = AddFragments(m.calls, g, first)]
      BY <1>7, <2>1 DEF AddChunk
    <3> QED
      BY <1>4, <1>5, <1>6, <1>9, <2>3, <3>1
  <2>6. Stored' = [id |-> 1, role |-> "assistant", text |-> text, calls |-> cs,
                   thought |-> None, blocks |-> blocks, answers |-> None]
    BY <1>7, <2>5
  <2>7. PICK s : s = Stored'
    OBVIOUS
  <2>8. /\ s.calls = cs /\ s.text = text
        /\ s \in [id : {1}, role : {"assistant"}, text : Seq(Nat), calls : {s.calls},
                  thought : {None}, blocks : Seq(Seq(Nat)), answers : {None}]
    BY <2>4, <2>6, <2>7
  <2> QED
    BY <1>3a, <1>6, <2>2, <2>3, <2>7, <2>8 DEF Plainly
<1> QED
  BY <1>8, <1>9

LEMMA GatherChunk ==
  ASSUME ListNamesNodes, TypeOK, Accounted, Stored \in Plainly, NEW k \in Chunks, NextChunk(k),
         NEW st, Gathered(st)
  PROVE  Gathered(st)'
<1>1. pc = "stream" /\ pc' = "stream" /\ UNCHANGED calls /\ cur.frags = <<>>
  BY DEF NextChunk, Spent, Nothing
<1>2. st \in Seq(SavedCall) /\ Stored.calls = st
  BY <1>1, AddFragmentsNone DEF Gathered
<1>3. Stored'.calls = AddFragments(st, cur'.frags, AtFirst')
  BY <1>2, StoredChunk
<1>4. Seen(st)'
  <2>1. PICK m : m = Len(source) + 1
    OBVIOUS
  <2>2. /\ Len(source') = m /\ Places \subseteq Places'
        /\ \A x \in AllPlaces : PieceAt(x)' = PieceAt(x) /\ x[1] \in Nat /\ x[1] < m
    BY <2>1, MorePlaces
  <2>3. ASSUME NEW x \in Places
        PROVE  x \in Places' /\ PieceAt(x)' = PieceAt(x) /\ Passed(x)'
    <3>1. x \in AllPlaces
      BY PlaceFields
    <3>2. x[1] # m
      BY <2>2, <3>1
    <3> QED
      BY <2>2, <3>1, <3>2 DEF Passed
  <2>4. Seen(st)
    BY DEF Gathered
  <2> QED
    BY <2>3, <2>4 DEF Seen
<1> QED
  BY <1>1, <1>2, <1>3, <1>4 DEF Gathered

LEMMA GatherQuiet ==
  ASSUME UNCHANGED <<source, calls>>, cur'.frags = cur.frags, pc' = "args" <=> pc = "args",
         NEW st, Gathered(st)
  PROVE  Gathered(st)'
<1>1. Stored' = Stored /\ AtFirst' = AtFirst
  BY JoinableStays DEF Stored
<1>2. Places' = Places /\ \A x : PieceAt(x)' = PieceAt(x) /\ Passed(x)' = Passed(x)
  BY SamePlaces DEF Passed, Rest
<1>3. Seen(st)'
  BY <1>2 DEF Gathered, Seen
<1> QED
  BY <1>1, <1>3 DEF Gathered

LEMMA GatherInit == Init => Gathering
<1> SUFFICES ASSUME Init PROVE Gathered(<<>>)
  BY DEF Gathering
<1>1. Stored = Message(1, "assistant", <<>>)
  BY PutNone DEF Stored, Init
<1>2. Stored.calls = AddFragments(<<>>, <<>>, AtFirst)
  BY <1>1, AddFragmentsNone DEF Message
<1> QED
  BY <1>2 DEF Init, Nothing, Gathered, Matched, Seen

LEMMA GatherStep ==
  ASSUME Coherent, ListNamesNodes
  PROVE  TypeInv /\ TokenInv /\ CallInv /\ Stored \in Plainly /\ Gathering /\ [Next]_vars => Gathering'
<1> SUFFICES ASSUME TypeInv, TokenInv, CallInv, Stored \in Plainly, Gathering, [Next]_vars, pc' # "gone",
                    Joinable'
             PROVE  \E st : Gathered(st)'
  BY DEF Gathering
<1>00. TypeOK /\ Accounted /\ Placed
  BY DEF TypeInv, TokenInv
<1>01. Joinable
  <2>1. ASSUME NEW k \in Chunks, NextChunk(k) PROVE Joinable
    BY <1>00, <2>1, JoinableBefore
  <2>2. CASE UNCHANGED source
    BY <2>2, JoinableStays
  <2> QED
    BY <2>1, <2>2 DEF Next, Emit, vars, Created, InProgress, EmitReasoning, OpenMessage, AddPart, EmitText,
       StartCall, EmitArgs, ContinueCall, EndOfStream, GraphRaises, CloseArgs, CloseCall, CloseText,
       ClosePart, CloseMessage, Complete, Disconnect
<1>0. Joinable /\ TypeOK /\ Accounted /\ Placed
  BY <1>00, <1>01
<1>1. pc # "gone"
  BY DEF Next, Emit, vars, Created, InProgress, NextChunk, EmitReasoning, OpenMessage, AddPart, EmitText,
     StartCall, EmitArgs, ContinueCall, AtFragment, EndOfStream, GraphRaises, CloseArgs, CloseCall, CloseText,
     ClosePart, CloseMessage, Complete, Disconnect
<1>2. PICK st : Gathered(st)
  BY <1>0, <1>1 DEF Gathering
<1>3. ASSUME UNCHANGED <<source, calls>>, cur'.frags = cur.frags, pc' = "args" <=> pc = "args"
      PROVE  \E t : Gathered(t)'
  BY <1>2, <1>3, GatherQuiet
<1>4. CASE UNCHANGED vars
  BY <1>3, <1>4 DEF vars
<1>5. ASSUME NEW k \in Chunks, NextChunk(k) PROVE \E t : Gathered(t)'
  BY <1>0, <1>2, <1>5, GatherChunk
<1>6. CASE StartCall
  BY <1>0, <1>2, <1>6, GatherStart
<1>7. CASE EmitArgs
  BY <1>0, <1>2, <1>7, GatherOwed
<1>8. ASSUME NEW n \in DOMAIN calls, ContinueCall(n) PROVE \E t : Gathered(t)'
  BY <1>0, <1>2, <1>8, GatherMore
<1>9. CASE EmitReasoning \/ EmitText
  <2>1. cur'.frags = cur.frags
    BY <1>0, <1>9 DEF EmitReasoning, EmitText, TypeOK, Pending
  <2> QED
    BY <1>3, <1>9, <2>1 DEF EmitReasoning, EmitText
<1>10. CASE Created \/ InProgress \/ OpenMessage \/ AddPart \/ EndOfStream \/ GraphRaises
  BY <1>3, <1>10 DEF Created, InProgress, OpenMessage, AddPart, EndOfStream, GraphRaises
<1>11. CASE CloseArgs \/ CloseCall \/ CloseText \/ ClosePart \/ CloseMessage \/ Complete
  BY <1>3, <1>11 DEF CloseArgs, CloseCall, CloseText, ClosePart, CloseMessage, Complete
<1>12. CASE Disconnect
  BY <1>12 DEF Disconnect
<1> QED
  BY <1>4, <1>5, <1>6, <1>7, <1>8, <1>9, <1>10, <1>11, <1>12 DEF Next, Emit

LEMMA TextInit == Init => TextSaved
<1> SUFFICES ASSUME Init PROVE TextSaved
  OBVIOUS
<1>1. Stored = Message(1, "assistant", <<>>)
  BY PutNone DEF Stored, Init
<1>2. Stored \in Plainly
  BY <1>1 DEF Message, Plainly
<1>3. Stored.text = <<>> /\ message.text = <<>> /\ message.idx = -1 /\ cur.text = 0
  BY <1>1 DEF Message, Init, Nothing
<1> QED
  BY <1>2, <1>3 DEF TextSaved, Token

LEMMA TextStep ==
  ASSUME ListNamesNodes
  PROVE  TypeInv /\ TokenInv /\ TextSaved /\ [Next]_vars => TextSaved'
<1> SUFFICES ASSUME TypeInv, TokenInv, TextSaved, [Next]_vars PROVE TextSaved'
  OBVIOUS
<1>0. /\ TypeOK /\ Accounted /\ cur \in Pending /\ message \in [idx : Int, text : Seq(Nat)] /\ message.text \in Seq(Nat)
      /\ nextIndex \in Nat
  BY DEF TypeInv, TokenInv, TypeOK
<1>1. ASSUME UNCHANGED <<source, message>>, cur'.text = cur.text, pc' = "gone" \/ pc # "gone" PROVE TextSaved'
  <2>1. Stored' = Stored
    BY <1>1 DEF Stored
  <2> QED
    BY <1>1, <2>1 DEF TextSaved, Plainly
<1>2. CASE UNCHANGED vars
  <2>1. Stored' = Stored
    BY <1>2 DEF Stored, vars
  <2> QED
    BY <1>2, <2>1 DEF TextSaved, Plainly, vars
<1>3. ASSUME NEW k \in Chunks, NextChunk(k) PROVE TextSaved'
  <2>1. cur.text = 0 /\ UNCHANGED message /\ pc = "stream"
    BY <1>3 DEF NextChunk, Spent, Nothing
  <2>2. Stored' \in Plainly' /\ Stored'.text = Stored.text \o Token(cur'.text)
    BY <1>0, <1>3, StoredChunk DEF TextSaved
  <2>3. Stored.text = message.text
    BY <1>0, <2>1 DEF TextSaved, Token
  <2> QED
    BY <2>1, <2>2, <2>3 DEF TextSaved
<1>4. CASE EmitText
  <2>1. PICK t, x : t = message.text /\ x = cur.text
    OBVIOUS
  <2>2. /\ message'.text = Append(t, x) /\ message'.idx = message.idx /\ message.idx # -1 /\ cur'.text = 0
        /\ x # 0 /\ x \in Nat /\ t \in Seq(Nat) /\ UNCHANGED source /\ pc = "stream"
    BY <1>0, <1>4, <2>1 DEF EmitText, Pending
  <2>3. Stored' = Stored
    BY <2>2 DEF Stored
  <2>4. Stored.text = t \o <<x>>
    BY <2>1, <2>2 DEF TextSaved, Token
  <2>5. PICK u : u = Append(t, x)
    OBVIOUS
  <2>6. t \o <<x>> = u
    BY <2>2, <2>5
  <2>7. u \in Seq(Nat) /\ Len(u) = Len(t) + 1 /\ Len(t) \in Nat
    BY <2>2, <2>5
  <2>8. u \o Token(0) = u /\ u # <<>>
    BY <2>7 DEF Token
  <2> QED
    BY <2>2, <2>3, <2>4, <2>5, <2>6, <2>8 DEF TextSaved, Plainly
<1>5. CASE OpenMessage
  <2>1. /\ message'.text = message.text /\ message'.idx # -1 /\ cur'.text = cur.text /\ cur.text # 0
        /\ UNCHANGED source /\ pc = "stream"
    BY <1>0, <1>5 DEF OpenMessage
  <2>2. Stored' = Stored
    BY <2>1 DEF Stored
  <2> QED
    BY <2>1, <2>2 DEF TextSaved, Plainly
<1>6. CASE EmitReasoning
  <2>1. cur'.text = cur.text
    BY <1>0, <1>6 DEF EmitReasoning, Pending
  <2> QED
    BY <1>1, <1>6, <2>1 DEF EmitReasoning
<1>7. PopFragment => cur'.text = cur.text
  BY <1>0 DEF PopFragment, Pending
<1>8. CASE StartCall
  BY <1>1, <1>7, <1>8 DEF StartCall, AtFragment
<1>9. CASE EmitArgs
  BY <1>1, <1>7, <1>9 DEF EmitArgs
<1>10. ASSUME NEW n \in DOMAIN calls, ContinueCall(n) PROVE TextSaved'
  BY <1>1, <1>7, <1>10 DEF ContinueCall, AtFragment
<1>11. CASE Created \/ InProgress \/ AddPart \/ EndOfStream \/ GraphRaises \/ Disconnect
  BY <1>1, <1>11 DEF Created, InProgress, AddPart, EndOfStream, GraphRaises, Disconnect
<1>12. CASE CloseArgs \/ CloseCall \/ CloseText \/ ClosePart \/ CloseMessage \/ Complete
  BY <1>1, <1>12 DEF CloseArgs, CloseCall, CloseText, ClosePart, CloseMessage, Complete
<1> QED
  BY <1>2, <1>3, <1>4, <1>5, <1>6, <1>8, <1>9, <1>10, <1>11, <1>12 DEF Next, Emit

\* What is reported of calls and of the message.
LEMMA SentQuiet ==
  ASSUME TypeInv, Placed, Sent, UNCHANGED <<output, closed>>,
         closed = 0 \/ UNCHANGED calls, pc # "end", pc # "gone", pc # "complete", pc' # "complete",
         \/ UNCHANGED log
         \/ \E e : Yield(e) /\ e.type # "completed"
  PROVE  Sent'
<1>1. \A i \in DOMAIN log : log[i].type # "completed"
  BY DEF Placed
<1>2. \A i \in DOMAIN log' : log'[i].type # "completed"
  <2>1. CASE UNCHANGED log
    BY <1>1, <2>1
  <2>2. ASSUME NEW e, Yield(e), e.type # "completed" PROVE \A i \in DOMAIN log' : log'[i].type # "completed"
    BY <1>1, <2>2, AppendEvent DEF Yield, TypeInv, TypeOK
  <2> QED
    BY <2>1, <2>2
<1>3. closed \in Nat
  BY DEF TypeInv, TypeOK
<1>4. pc' \notin {"end", "gone"} =>
        /\ Len(output') = closed'
        /\ \A n \in 1 .. closed' : SentCall(output[n], n)'
  <2>1. CASE closed = 0
    BY <2>1 DEF Sent
  <2>2. CASE UNCHANGED calls
    BY <2>2 DEF Sent, SentCall
  <2> QED
    BY <2>1, <2>2
<1> QED
  BY <1>2, <1>4 DEF Sent

LEMMA SentInit == Init => Sent
  BY DEF Init, Sent

LEMMA SentStep == TypeInv /\ TokenInv /\ Sent /\ [Next]_vars => Sent'
<1> SUFFICES ASSUME TypeInv, TokenInv, Sent, [Next]_vars PROVE Sent'
  OBVIOUS
<1>0. TypeOK /\ Control /\ Placed /\ output \in Seq(OutputItem) /\ closed \in 0 .. Len(calls) /\ Len(calls) \in Nat
  BY DEF TypeInv, TokenInv, TypeOK
<1>1. CASE UNCHANGED vars
  BY <1>1 DEF vars, Sent, SentAll, SentCall, SentText
<1>2. /\ \A t, x, i, c, b : About(t, x, i, c, b).type = t
      /\ \A t, n, c, b : OfCall(t, n, c, b).type = t
      /\ \A t, b : OfMessage(t, b).type = t
      /\ \A t : Plain(t).type = t
      /\ \A n, f : ArgsDelta(n, f).type = "args.delta"
  BY DEF About, OfCall, OfMessage, Plain, ArgsDelta
<1>3. CASE Created \/ InProgress \/ EmitReasoning \/ OpenMessage \/ AddPart \/ EmitText \/ EndOfStream \/ GraphRaises
  <2>1. /\ UNCHANGED <<output, closed, calls>> /\ pc \notin {"end", "gone", "complete"} /\ pc' # "complete"
        /\ UNCHANGED log \/ \E e : Yield(e) /\ e.type # "completed"
    BY <1>2, <1>3 DEF Created, InProgress, EmitReasoning, OpenMessage, AddPart, EmitText, EndOfStream, GraphRaises
  <2> QED
    BY <1>0, <2>1, SentQuiet
<1>4. ASSUME NEW k \in Chunks, NextChunk(k) PROVE Sent'
  <2>1. /\ UNCHANGED <<output, closed, calls, log>> /\ pc \notin {"end", "gone", "complete"} /\ pc' # "complete"
    BY <1>4 DEF NextChunk
  <2> QED
    BY <1>0, <2>1, SentQuiet
<1>5. CASE StartCall \/ EmitArgs \/ \E n \in DOMAIN calls : ContinueCall(n)
  <2>1. pc \in {"stream", "args"}
    BY <1>5 DEF StartCall, EmitArgs, ContinueCall, AtFragment
  <2>2. closed = 0
    BY <1>0, <2>1 DEF Control
  <2>3. UNCHANGED <<output, closed>> /\ pc' # "complete"
    BY <1>5 DEF StartCall, EmitArgs, ContinueCall, AtFragment
  <2>4. UNCHANGED log \/ \E e : Yield(e) /\ e.type # "completed"
    <3>1. CASE StartCall
      BY <1>2, <3>1 DEF StartCall
    <3>2. CASE EmitArgs
      BY <1>2, <3>2 DEF EmitArgs
    <3>3. ASSUME NEW n \in DOMAIN calls, ContinueCall(n)
          PROVE  UNCHANGED log \/ \E e : Yield(e) /\ e.type # "completed"
      BY <1>2, <3>3 DEF ContinueCall
    <3> QED
      BY <1>5, <3>1, <3>2, <3>3
  <2> QED
    BY <1>0, <2>1, <2>2, <2>3, <2>4, SentQuiet
<1>6. CASE CloseArgs \/ CloseText \/ ClosePart
  <2>1. /\ UNCHANGED <<output, closed, calls>> /\ pc \notin {"end", "gone", "complete"} /\ pc' # "complete"
        /\ \E e : Yield(e) /\ e.type # "completed"
    BY <1>2, <1>6 DEF CloseArgs, CloseText, ClosePart
  <2> QED
    BY <1>0, <2>1, SentQuiet
<1>7. ASSUME pc # "end", NEW e, Yield(e), e.type # "completed" PROVE \A i \in DOMAIN log' : log'[i].type # "completed"
  <2>1. \A i \in DOMAIN log : log[i].type # "completed"
    BY <1>0, <1>7 DEF Placed
  <2> QED
    BY <1>0, <1>7, <2>1, AppendEvent DEF Yield, TypeOK
<1>8. CASE CloseCall
  <2>1. PICK n, o : n = closed + 1 /\ o = [item |-> n, call |-> calls[n].call, body |-> calls[n].args]
    OBVIOUS
  <2>2. /\ pc = "close_call" /\ pc' = "closing" /\ output' = Append(output, o) /\ closed' = n /\ UNCHANGED calls
        /\ Yield(OfCall("item.done", n, calls[n], calls[n].args))
    BY <1>8, <2>1 DEF CloseCall
  <2>3. Len(output) = closed /\ \A m \in 1 .. closed : SentCall(output[m], m)
    BY <2>2 DEF Sent
  <2>4. /\ Len(output') = n /\ output'[n] = o /\ n \in Nat
        /\ \A m \in 1 .. n : m = n \/ (m \in 1 .. closed /\ output'[m] = output[m])
    BY <1>0, <2>1, <2>2, <2>3
  <2>5. o.item = n /\ o.call = calls[n].call /\ o.body = calls[n].args
    BY <2>1
  <2>6. \A m \in 1 .. closed' : SentCall(output[m], m)'
    BY <2>2, <2>3, <2>4, <2>5 DEF SentCall
  <2>7. \A i \in DOMAIN log' : log'[i].type # "completed"
    BY <1>2, <1>7, <2>2
  <2> QED
    BY <2>2, <2>4, <2>6, <2>7 DEF Sent
<1>9. CASE CloseMessage
  <2>1. PICK n, o : n = closed + 1 /\ o = [item |-> 0, call |-> None, body |-> message.text]
    OBVIOUS
  <2>2. /\ pc = "close_message" /\ pc' = "complete" /\ output' = Append(output, o) /\ UNCHANGED <<calls, closed, message>>
        /\ Yield(OfMessage("item.done", message.text))
    BY <1>9, <2>1 DEF CloseMessage
  <2>3. Len(output) = closed /\ \A m \in 1 .. closed : SentCall(output[m], m)
    BY <2>2 DEF Sent
  <2>4. /\ Len(output') = n /\ output'[n] = o
        /\ \A m \in 1 .. closed : output'[m] = output[m]
    BY <1>0, <2>1, <2>2, <2>3
  <2>5. SentText(o)
    BY <2>1 DEF SentText
  <2>6. \A m \in 1 .. closed' : SentCall(output[m], m)'
    BY <2>2, <2>3, <2>4 DEF SentCall
  <2>7. SentText(output[closed + 1])'
    BY <2>1, <2>2, <2>4, <2>5 DEF SentText
  <2>8. \A i \in DOMAIN log' : log'[i].type # "completed"
    BY <1>2, <1>7, <2>2
  <2> QED
    BY <2>1, <2>2, <2>4, <2>6, <2>7, <2>8 DEF Sent
<1>10. CASE Complete
  <2>1. PICK e : e = [Plain("completed") EXCEPT !.output = output]
    OBVIOUS
  <2>2. /\ pc \in {"closing", "complete"} /\ pc' = "end" /\ log' = Append(log, e) /\ UNCHANGED <<calls, message, closed>>
        /\ closed = Len(calls) /\ (message.idx = -1 <=> pc = "closing") /\ e.output = output
    BY <1>0, <1>10, <2>1 DEF Complete, Yield, Control, Plain, About
  <2>3. SentAll(output)
    <3>1. Len(output) = Len(calls) + (IF message.idx = -1 THEN 0 ELSE 1)
      BY <1>0, <2>2 DEF Sent
    <3>2. \A n \in DOMAIN calls : SentCall(output[n], n)
      BY <1>0, <2>2 DEF Sent, TypeOK
    <3>3. message.idx # -1 => SentText(output[Len(calls) + 1])
      BY <2>2 DEF Sent
    <3> QED
      BY <3>1, <3>2, <3>3 DEF SentAll
  <2>4. \A i \in DOMAIN log : log[i].type # "completed"
    BY <1>0, <2>2 DEF Placed
  <2>5. \A i \in DOMAIN log' : log'[i].type = "completed" => log'[i] = e
    BY <1>0, <2>2, <2>4, AppendEvent DEF TypeOK
  <2>6. ASSUME NEW out, SentAll(out) PROVE SentAll(out)'
    BY <2>2, <2>6 DEF SentAll, SentCall, SentText
  <2>7. PICK out : out = output
    OBVIOUS
  <2>8. SentAll(out)'
    BY <2>3, <2>6, <2>7
  <2>9. ASSUME NEW i \in DOMAIN log', log'[i].type = "completed" PROVE SentAll(log[i].output)'
    <3>1. log'[i].output = out
      BY <2>2, <2>5, <2>7, <2>9
    <3> QED
      BY <2>8, <3>1 DEF SentAll, SentCall, SentText
  <2> QED
    BY <2>2, <2>9 DEF Sent
<1>11. CASE Disconnect
  <2>1. pc # "end" /\ pc' = "gone" /\ UNCHANGED log
    BY <1>11 DEF Disconnect
  <2>2. \A i \in DOMAIN log : log[i].type # "completed"
    BY <1>0, <2>1 DEF Placed
  <2> QED
    BY <2>1, <2>2 DEF Sent
<1> QED
  BY <1>1, <1>3, <1>4, <1>5, <1>6, <1>8, <1>9, <1>10, <1>11 DEF Next, Emit

\* Sequences one after the other, and the rest of one.

LEMMA JoinedLen ==
  ASSUME NEW S, NEW u \in Seq(S), NEW v \in Seq(S), NEW w, w = u \o v
  PROVE  /\ w \in Seq(S) /\ Len(w) = Len(u) + Len(v) /\ Len(u) \in Nat /\ Len(v) \in Nat
         /\ \A i \in 1 .. Len(u) : w[i] = u[i]
         /\ \A i \in 1 .. Len(v) : w[Len(u) + i] = v[i]
  OBVIOUS

RestOf(w, n, p) == p = SubSeq(w, n + 1, Len(w))
LEMMA Suffix ==
  ASSUME NEW S, NEW w \in Seq(S), NEW n \in 0 .. Len(w), NEW p, RestOf(w, n, p)
  PROVE  Len(p) = Len(w) - n /\ DOMAIN p = 1 .. Len(p) /\ \A i \in 1 .. Len(p) : p[i] = w[n + i]
<1>1. PICK l : l = Len(w)
  OBVIOUS
<1>2. l \in Nat /\ n \in Nat /\ n <= l /\ DOMAIN w = 1 .. l
  BY <1>1
<1>3. p = [i \in 1 .. ((l - (n + 1)) + 1) |-> w[(i + (n + 1)) - 1]]
  BY <1>1, <1>2 DEF RestOf
<1>4. (l - (n + 1)) + 1 = l - n /\ l - n \in Nat
  BY <1>2
<1>5. \A i \in 1 .. (l - n) : (i + (n + 1)) - 1 = n + i
  BY <1>2
<1>6. p = [i \in 1 .. (l - n) |-> w[n + i]]
  BY <1>3, <1>4, <1>5
<1>7. \A i \in 1 .. (l - n) : w[n + i] \in S
  BY <1>1, <1>2
<1>8. p \in [1 .. (l - n) -> S]
  BY <1>6, <1>7
<1>9. Len(p) = l - n
  BY <1>4, <1>8, AsSeq
<1> QED
  BY <1>1, <1>6, <1>9

LEMMA AfterFirst ==
  ASSUME NEW S, NEW r \in Seq(S), NEW k \in Seq(S), NEW x \in Seq(S),
         NEW p, RestOf((r \o k) \o x, Len(r), p)
  PROVE  /\ Len(p) = Len(k) + Len(x) /\ DOMAIN p = 1 .. Len(p)
         /\ \A i \in 1 .. Len(k) : p[i] = k[i]
         /\ \A i \in 1 .. Len(x) : p[Len(k) + i] = x[i]
<1>1. PICK a, b, l : a = r \o k /\ b = a \o x /\ l = Len(r)
  OBVIOUS
<1>2. /\ a \in Seq(S) /\ Len(a) = l + Len(k) /\ l \in Nat /\ Len(k) \in Nat
      /\ \A i \in 1 .. Len(k) : a[l + i] = k[i]
  <2>1. a = r \o k /\ l = Len(r)
    BY <1>1
  <2>2. /\ a \in Seq(S) /\ Len(a) = Len(r) + Len(k) /\ Len(r) \in Nat /\ Len(k) \in Nat
        /\ \A i \in 1 .. Len(k) : a[Len(r) + i] = k[i]
    BY <2>1, JoinedLen
  <2> QED
    BY <2>1, <2>2
<1>3. /\ b \in Seq(S) /\ Len(b) = Len(a) + Len(x) /\ Len(x) \in Nat
      /\ \A i \in 1 .. Len(a) : b[i] = a[i]
      /\ \A i \in 1 .. Len(x) : b[Len(a) + i] = x[i]
  BY <1>1, <1>2, JoinedLen
<1>4. l \in 0 .. Len(b) /\ Len(b) - l = Len(k) + Len(x)
  BY <1>2, <1>3
<1>5. Len(p) = Len(b) - l /\ DOMAIN p = 1 .. Len(p) /\ \A i \in 1 .. Len(p) : p[i] = b[l + i]
  <2>1. RestOf(b, l, p)
    BY <1>1
  <2>2. b \in Seq(S) /\ l \in 0 .. Len(b)
    BY <1>3, <1>4
  <2> QED
    BY <2>1, <2>2, Suffix
<1>6. ASSUME NEW i \in 1 .. Len(k) PROVE p[i] = k[i]
  <2>1. i \in 1 .. Len(p) /\ l + i \in 1 .. Len(a)
    BY <1>2, <1>3, <1>4, <1>5
  <2> QED
    BY <1>2, <1>3, <1>5, <2>1
<1>7. ASSUME NEW i \in 1 .. Len(x) PROVE p[Len(k) + i] = x[i]
  <2>1. Len(k) + i \in 1 .. Len(p) /\ l + (Len(k) + i) = Len(a) + i
    BY <1>2, <1>3, <1>4, <1>5
  <2> QED
    BY <1>3, <1>5, <2>1
<1> QED
  BY <1>4, <1>5, <1>6, <1>7

\* Calls whose arguments are objects are all tool calls.
LEMMA AllToolCalls ==
  ASSUME NEW m, m.calls \in Seq(SavedCall)
  PROVE  ToolCalls(m) = m.calls
<1>1. PICK c, ss : /\ c = m.calls
                   /\ ss = [i \in DOMAIN m.calls |-> IF m.calls[i].object THEN <<m.calls[i]>> ELSE <<>>]
  OBVIOUS
<1>2. c \in Seq(SavedCall) /\ \A i \in DOMAIN c : c[i].object
  <2>1. ASSUME NEW i \in DOMAIN c PROVE c[i].object
    <3>1. c[i] \in SavedCall
      BY <1>1
    <3>2. c[i].object \in {TRUE}
      BY <3>1 DEF SavedCall
    <3> QED
      BY <3>2
  <2> QED
    BY <1>1, <2>1
<1>3. ss = [i \in DOMAIN c |-> <<c[i]>>]
  BY <1>1, <1>2
<1>4. Concat(ss) = c
  BY <1>2, <1>3, ConcatSingles
<1> QED
  BY <1>1, <1>4 DEF ToolCalls

\* After its reasoning a stored message has its calls and then its text.
LEMMA AfterThoughts ==
  ASSUME NEW m, m.thought = None, m.blocks \in Seq(Seq(Nat)), NEW C, m.calls \in Seq(C),
         ToolCalls(m) = m.calls, m.text # <<>> \/ m.calls # <<>>
  PROVE  LET kept == SubSeq(AiItems(m), Len(Thoughts(m)) + 1, Len(AiItems(m)))
         IN  /\ Len(kept) = Len(m.calls) + (IF m.text = <<>> THEN 0 ELSE 1)
             /\ DOMAIN kept = 1 .. Len(kept)
             /\ \A j \in 1 .. Len(m.calls) : kept[j] = CallItem(m, m.calls[j])
             /\ m.text # <<>> =>
                  kept[Len(m.calls) + 1] = Item("message", MessageId(m), "assistant", None, m.text)
<1>1. PICK t, c : t = Thoughts(m) /\ c = m.calls
  OBVIOUS
<1>2. /\ t \in Seq(Seq(Nat)) /\ c \in Seq(C) /\ Len(t) \in Nat /\ Len(c) \in Nat
      /\ DOMAIN t = 1 .. Len(t) /\ DOMAIN c = 1 .. Len(c)
  <2>1. t \in Seq(Seq(Nat)) /\ c \in Seq(C)
    BY <1>1, ThoughtsAre
  <2> QED
    BY <2>1
<1> DEFINE ri(i) == Item("reasoning", ReasoningId(m), None, None, t[i])
           ci(i) == CallItem(m, c[i])
           ti == Item("message", MessageId(m), "assistant", None, m.text)
           S == {ri(i) : i \in 1 .. Len(t)} \cup {ci(i) : i \in 1 .. Len(c)} \cup {ti}
<1>3. PICK r, k, x : /\ r = [i \in 1 .. Len(t) |-> ri(i)] /\ k = [i \in 1 .. Len(c) |-> ci(i)]
                     /\ x = IF m.text = <<>> THEN <<>> ELSE <<ti>>
  OBVIOUS
<1>4. AiItems(m) = (r \o k) \o x
  <2>1. ReasoningItems(m) = r
    BY <1>1, <1>2, <1>3 DEF ReasoningItems
  <2>2. CallItems(m) = k
    BY <1>1, <1>2, <1>3 DEF CallItems
  <2>3. TextItems(m) = x
    BY <1>3 DEF TextItems
  <2> QED
    BY <2>1, <2>2, <2>3 DEF AiItems
<1> HIDE DEF ri, ci, ti
<1>5. PICK U : /\ ti \in U
                /\ r \in [1 .. Len(t) -> U]
                /\ k \in [1 .. Len(c) -> U]
  <2>1. ti \in S /\ (\A i \in 1 .. Len(t) : ri(i) \in S) /\ (\A i \in 1 .. Len(c) : ci(i) \in S)
    OBVIOUS
  <2> HIDE DEF S
  <2>2. r \in [1 .. Len(t) -> S] /\ k \in [1 .. Len(c) -> S]
    BY <1>3, <2>1
  <2> QED
    BY <2>1, <2>2
<1> HIDE DEF S
<1>6. /\ r \in Seq(U) /\ Len(r) = Len(t)
      /\ k \in Seq(U) /\ Len(k) = Len(c) /\ \A i \in 1 .. Len(c) : k[i] = ci(i)
  <2>1. r \in Seq(U) /\ Len(r) = Len(t)
    BY <1>2, <1>5, AsSeq
  <2>2. k \in Seq(U) /\ Len(k) = Len(c)
    BY <1>2, <1>5, AsSeq
  <2>3. \A i \in 1 .. Len(c) : k[i] = ci(i)
    BY <1>3
  <2> QED
    BY <2>1, <2>2, <2>3
<1>7. /\ x \in Seq(U) /\ Len(x) = (IF m.text = <<>> THEN 0 ELSE 1)
      /\ m.text # <<>> => x[1] = ti
  BY <1>3, <1>5
<1>8. PICK p : p = SubSeq(AiItems(m), Len(Thoughts(m)) + 1, Len(AiItems(m)))
  OBVIOUS
<1>9. /\ Len(p) = Len(k) + Len(x) /\ DOMAIN p = 1 .. Len(p)
      /\ \A i \in 1 .. Len(k) : p[i] = k[i]
      /\ \A i \in 1 .. Len(x) : p[Len(k) + i] = x[i]
  <2>1. RestOf((r \o k) \o x, Len(r), p)
    BY <1>1, <1>4, <1>6, <1>8 DEF RestOf
  <2>2. r \in Seq(U) /\ k \in Seq(U) /\ x \in Seq(U)
    BY <1>6, <1>7
  <2> QED
    BY <2>1, <2>2, AfterFirst
<1>10. \A j \in 1 .. Len(c) : p[j] = ci(j)
  BY <1>6, <1>9
<1>11. ASSUME m.text # <<>> PROVE p[Len(c) + 1] = ti
  BY <1>6, <1>7, <1>9, <1>11
<1>12. Len(p) = Len(c) + (IF m.text = <<>> THEN 0 ELSE 1)
  BY <1>6, <1>7, <1>9
<1> QED
  BY <1>1, <1>8, <1>9, <1>10, <1>11, <1>12 DEF ci, ti

LEMMA ItemFields ==
  ASSUME NEW t, NEW id, NEW role, NEW c, NEW b
  PROVE  /\ Item(t, id, role, c, b).type = t /\ Item(t, id, role, c, b).call = c
         /\ Item(t, id, role, c, b).body = b
  BY DEF Item

\* A turn that is over has been stored as it was streamed.
LEMMA StoredHere ==
  ASSUME Joinable, TypeInv, Placed, TurnInv, NEW i \in DOMAIN log, log[i].type = "completed"
  PROVE  \E st : /\ Stored \in Plainly /\ Stored.calls = st /\ st \in Seq(SavedCall)
                 /\ Stored.text = message.text /\ (message.idx = -1 <=> Stored.text = <<>>)
                 /\ Len(calls) = Len(st) /\ Matched(calls, st)
<1>1. pc = "end" /\ Spent
  BY DEF Placed
<1>2. PICK st : Gathered(st)
  BY <1>1 DEF TurnInv, Gathering
<1>3. cur.frags = <<>> /\ cur.text = 0
  BY <1>1 DEF Spent, Nothing
<1>4. Stored.calls = st /\ st \in Seq(SavedCall) /\ Len(calls) = Len(st) /\ Matched(calls, st)
  BY <1>1, <1>2, <1>3, AddFragmentsNone DEF Gathered
<1>5. message.text \in Seq(Nat)
  BY DEF TypeInv, TypeOK
<1>6. Stored \in Plainly /\ Stored.text = message.text /\ (message.idx = -1 <=> message.text = <<>>)
  BY <1>1, <1>3, <1>5 DEF TurnInv, TextSaved, Token
<1> QED
  BY <1>4, <1>6

LEMMA SameHere == ASSUME TypeInv, Placed, TurnInv PROVE SameAsStored
<1> DEFINE Same(o, x) ==
             \/ /\ o.item = 0 /\ x.type = "message"
                /\ o.call = None /\ x.body = o.body
             \/ /\ o.item # 0 /\ x.type = "function_call"
                /\ o.call = x.call \/ (x.call = None /\ o.call < 0)
                /\ x.body = Object(o.body)
<1> SUFFICES ASSUME Joinable, NEW i \in DOMAIN log, log[i].type = "completed"
             PROVE  LET out == log[i].output
                    IN  /\ Len(out) = Len(Lasting)
                        /\ \A j \in DOMAIN Lasting : Same(out[j], Lasting[j])
  BY DEF SameAsStored
<1> HIDE DEF Same
<1>1. PICK st : /\ Stored \in Plainly /\ Stored.calls = st /\ st \in Seq(SavedCall)
                /\ Stored.text = message.text /\ (message.idx = -1 <=> Stored.text = <<>>)
                /\ Len(calls) = Len(st) /\ Matched(calls, st)
  BY StoredHere
<1>2. PICK out, kept, m, l, t : /\ out = log[i].output /\ kept = Lasting /\ m = Stored
                                /\ l = Len(st) /\ t = message.text
  OBVIOUS
<1>3. SentAll(out)
  BY <1>2 DEF TurnInv, Sent
<1>4. l \in Nat /\ DOMAIN st = 1 .. l /\ calls \in Seq(CallState) /\ DOMAIN calls = 1 .. l
  BY <1>1, <1>2 DEF TypeInv, TypeOK
<1>5. Len(out) = l + (IF t = <<>> THEN 0 ELSE 1)
  BY <1>1, <1>2, <1>3 DEF SentAll
<1>5a. ToolCalls(m) = st
  BY <1>1, <1>2, AllToolCalls
<1>6. CASE t = <<>> /\ st = <<>>
  <2>1. kept = <<>>
    BY <1>1, <1>2, <1>5a, <1>6 DEF Lasting
  <2>2. Len(out) = 0
    BY <1>2, <1>5, <1>6
  <2> QED
    BY <1>2, <2>1, <2>2
<1>7. CASE ~(t = <<>> /\ st = <<>>)
  <2>1. /\ m.thought = None /\ m.blocks \in Seq(Seq(Nat)) /\ m.calls = st /\ m.text = t
    BY <1>1, <1>2 DEF Plainly
  <2>2. kept = SubSeq(AiItems(m), Len(Thoughts(m)) + 1, Len(AiItems(m)))
    BY <1>1, <1>2, <1>5a, <1>7 DEF Lasting
  <2>3. m.calls \in Seq(SavedCall) /\ (m.text # <<>> \/ m.calls # <<>>)
    BY <1>1, <1>7, <2>1
  <2>4. /\ Len(kept) = Len(m.calls) + (IF m.text = <<>> THEN 0 ELSE 1)
        /\ DOMAIN kept = 1 .. Len(kept)
        /\ \A j \in 1 .. Len(m.calls) : kept[j] = CallItem(m, m.calls[j])
        /\ m.text # <<>> =>
             kept[Len(m.calls) + 1] = Item("message", MessageId(m), "assistant", None, m.text)
    BY <1>5a, <2>1, <2>2, <2>3, AfterThoughts
  <2>5. Len(out) = Len(kept)
    BY <1>2, <1>5, <2>1, <2>4
  <2>6. ASSUME NEW j \in 1 .. l PROVE Same(out[j], kept[j])
    <3>1. kept[j].type = "function_call" /\ kept[j].call = st[j].id /\ kept[j].body = Object(st[j].args)
      <4>1. kept[j] = CallItem(m, st[j])
        BY <1>2, <2>1, <2>4
      <4> QED
        BY <4>1, ItemFields DEF CallItem
    <3>2. out[j].item = j /\ out[j].call = calls[j].call /\ out[j].body = calls[j].args
      BY <1>3, <1>4 DEF SentAll, SentCall
    <3>3. calls[j].args = st[j].args /\ (calls[j].call = st[j].id \/ (st[j].id = None /\ calls[j].call < 0))
      BY <1>1, <1>4 DEF Matched, Match
    <3>4. j # 0
      BY <1>4
    <3> QED
      BY <3>1, <3>2, <3>3, <3>4 DEF Same
  <2>7. ASSUME t # <<>> PROVE Same(out[l + 1], kept[l + 1])
    <3>1. kept[l + 1].type = "message" /\ kept[l + 1].body = t
      <4>1. kept[l + 1] = Item("message", MessageId(m), "assistant", None, m.text)
        BY <1>2, <2>1, <2>4, <2>7
      <4> QED
        BY <2>1, <4>1, ItemFields
    <3>2. out[l + 1].item = 0 /\ out[l + 1].call = None /\ out[l + 1].body = t
      BY <1>1, <1>2, <1>3, <2>7 DEF SentAll, SentText
    <3> QED
      BY <3>1, <3>2 DEF Same
  <2>8. ASSUME NEW j \in DOMAIN kept PROVE j \in 1 .. l \/ (j = l + 1 /\ t # <<>>)
    <3>1. j \in 1 .. (l + (IF t = <<>> THEN 0 ELSE 1))
      BY <1>2, <2>1, <2>4
    <3> QED
      BY <1>4, <3>1
  <2>9. ASSUME NEW j \in DOMAIN kept PROVE Same(out[j], kept[j])
    BY <2>6, <2>7, <2>8, <2>9
  <2> QED
    BY <1>2, <2>5, <2>9
<1> QED
  BY <1>6, <1>7

LEMMA TurnInit == Init => TurnInv
  BY GatherInit, TextInit, SentInit DEF TurnInv

LEMMA TurnStep ==
  ASSUME Coherent, ListNamesNodes
  PROVE  TypeInv /\ TokenInv /\ CallInv /\ TurnInv /\ [Next]_vars => TurnInv'
<1> SUFFICES ASSUME TypeInv, TokenInv, CallInv, TurnInv, [Next]_vars PROVE TurnInv'
  OBVIOUS
<1>1. Stored \in Plainly
  BY DEF TurnInv, TextSaved
<1>2. Gathering'
  BY <1>1, GatherStep DEF TurnInv
<1>3. TextSaved' /\ Sent'
  BY TextStep, SentStep DEF TurnInv
<1> QED
  BY <1>2, <1>3 DEF TurnInv

LEMMA TurnKept == ASSUME Coherent, ListNamesNodes PROVE Spec => [](TypeInv /\ Placed /\ TurnInv)
<1>1. TypeInv /\ TokenInv => Placed
  BY DEF TokenInv
<1> QED
  BY <1>1, TypeInit, TypeStep, TokensKept, CallsKept, TurnInit, TurnStep, PTL DEF Spec

\* When a turn whose calls LangChain can put together completes, its final output is
\* what GET returns for the response afterwards, item by item (responses.py 536-592,
\* 131-153): for every provider whose pieces say which call they belong to, and every
\* list of nodes that is None or names some (an empty list streams everything to the
\* emitter but asks for nothing).
THEOREM StreamIsStored == ASSUME Coherent, ListNamesNodes PROVE Spec => []SameAsStored
<1>1. TypeInv /\ Placed /\ TurnInv => SameAsStored
  BY SameHere
<1> QED
  BY <1>1, TurnKept, PTL
=============================================================================
