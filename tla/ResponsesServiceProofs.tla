----------------------- MODULE ResponsesServiceProofs -----------------------
(***************************************************************************)
(* Proofs about ResponsesService, for any models, graphs and checkpointers *)
(* and any number of requests that interleave, fail, are abandoned or meet *)
(* a crash: conversations do not mix, what was deleted stays away, a turn  *)
(* stays as it was reported, and a response is its own turn.               *)
(***************************************************************************)
EXTENDS ResponsesService, FiniteSetTheorems, TLAPS

-----------------------------------------------------------------------------
(* Selecting elements of a sequence.                                       *)

\* As many positions of I are up to i.
Rank(I, i) == Cardinality({j \in I : j <= i})

\* Every number up to the size of I is the rank of a position.
LEMMA RankOnto ==
  ASSUME NEW I \in SUBSET Nat, IsFiniteSet(I), NEW n \in 1 .. Cardinality(I)
  PROVE  \E i \in I : Rank(I, i) = n
<1> DEFINE Upto(i) == {j \in I : j <= i}
           f == [i \in I |-> Rank(I, i)]
<1>0. Cardinality(I) \in Nat
  BY FS_CardinalityType
<1>1. ASSUME NEW i \in I PROVE IsFiniteSet(Upto(i)) /\ Rank(I, i) \in 1 .. Cardinality(I)
  <2>1. IsFiniteSet(Upto(i)) /\ Cardinality(Upto(i)) <= Cardinality(I)
    BY FS_Subset
  <2>2. Cardinality(Upto(i)) \in Nat /\ Cardinality(Upto(i)) # 0
    <3>1. i \in Upto(i)
      OBVIOUS
    <3> QED
      BY <2>1, <3>1, FS_EmptySet, FS_CardinalityType
  <2> QED
    BY <1>0, <2>1, <2>2 DEF Rank
<1>2. ASSUME NEW i \in I, NEW k \in I, i < k PROVE Rank(I, i) # Rank(I, k)
  <2>0. \A j \in I : j \in Nat
    OBVIOUS
  <2>1. \A j \in I : j <= i => j <= k
    BY <1>2, <2>0
  <2>2. k <= k /\ ~(k <= i)
    BY <1>2, <2>0
  <2>3. Upto(i) \subseteq Upto(k) /\ k \in Upto(k) /\ k \notin Upto(i)
    BY <2>1, <2>2
  <2>4. IsFiniteSet(Upto(k)) /\ Upto(i) # Upto(k)
    BY <1>1, <2>3
  <2> QED
    BY <2>3, <2>4, FS_Subset DEF Rank
<1>3. f \in Injection(I, 1 .. Cardinality(I))
  <2>1. f \in [I -> 1 .. Cardinality(I)]
    BY <1>1
  <2>2. ASSUME NEW i \in I, NEW k \in I, f[i] = f[k] PROVE i = k
    <3>1. Rank(I, i) = Rank(I, k) /\ i \in Nat /\ k \in Nat
      BY <2>2
    <3>2. ~(i < k) /\ ~(k < i)
      BY <1>2, <3>1
    <3> QED
      BY <3>1, <3>2
  <2> QED
    BY <2>1, <2>2 DEF Injection, IsInjective
<1>4. /\ IsFiniteSet(1 .. Cardinality(I))
      /\ Cardinality(1 .. Cardinality(I)) = Cardinality(I)
  <2>1. 1 \in Int /\ Cardinality(I) \in Int
    BY <1>0
  <2> QED
    BY <1>0, <2>1, FS_Interval
<1>5. f \in Surjection(I, 1 .. Cardinality(I))
  BY <1>3, <1>4, FS_Injection
<1> QED
  BY <1>5 DEF Surjection

\* A selection is a sequence of elements at the positions.
LEMMA SelectedType ==
  ASSUME NEW S, NEW s \in Seq(S), NEW I \in SUBSET DOMAIN s
  PROVE  /\ IsFiniteSet(I) /\ Cardinality(I) \in Nat
         /\ Selected(s, I) \in Seq(S) /\ DOMAIN Selected(s, I) = 1 .. Cardinality(I)
         /\ \A n \in DOMAIN Selected(s, I) : \E i \in I : Selected(s, I)[n] = s[i]
<1>1. IsFiniteSet(I) /\ Cardinality(I) \in Nat /\ I \in SUBSET Nat
  <2>1. DOMAIN s = 1 .. Len(s) /\ 1 \in Int /\ Len(s) \in Int
    OBVIOUS
  <2>2. IsFiniteSet(DOMAIN s)
    BY <2>1, FS_Interval
  <2> QED
    BY <2>1, <2>2, FS_Subset, FS_CardinalityType
<1>2. DOMAIN Selected(s, I) = 1 .. Cardinality(I)
  BY DEF Selected
<1>3. ASSUME NEW n \in 1 .. Cardinality(I)
      PROVE  \E i \in I : Selected(s, I)[n] = s[i] /\ s[i] \in S
  <2> DEFINE i == CHOOSE j \in I : Rank(I, j) = n
  <2>1. i \in I
    BY <1>1, RankOnto
  <2>2. Selected(s, I)[n] = s[i]
    BY DEF Selected, Rank
  <2>3. s[i] \in S
    BY <2>1
  <2> QED
    BY <2>1, <2>2, <2>3
<1>4. Selected(s, I) \in Seq(S)
  <2>1. Selected(s, I) = [n \in 1 .. Cardinality(I) |-> Selected(s, I)[n]]
    BY DEF Selected
  <2>2. Selected(s, I) \in [1 .. Cardinality(I) -> S]
    BY <1>3, <2>1
  <2> QED
    BY <1>1, <2>2
<1> QED
  BY <1>1, <1>2, <1>3, <1>4

\* The elements at the positions of an interval.
LEMMA SelectedInterval ==
  ASSUME NEW s, NEW a \in Nat, NEW n \in Nat
  PROVE  Selected(s, (a + 1) .. (a + n)) = [j \in 1 .. n |-> s[a + j]]
<1> DEFINE I == (a + 1) .. (a + n)
<1>1. Cardinality(I) = n
  <2>1. a + 1 \in Int /\ a + n \in Int
    OBVIOUS
  <2> QED
    BY <2>1, FS_Interval
<1>2. ASSUME NEW i \in I PROVE Rank(I, i) = i - a
  <2>1. {j \in I : j <= i} = (a + 1) .. i
    OBVIOUS
  <2>2. a + 1 \in Int /\ i \in Int /\ ~(a + 1 > i) /\ i - (a + 1) + 1 = i - a
    OBVIOUS
  <2>3. Cardinality((a + 1) .. i) = i - (a + 1) + 1
    BY <2>2, FS_Interval
  <2>4. Rank(I, i) = Cardinality((a + 1) .. i)
    BY <2>1 DEF Rank
  <2> QED
    BY <2>2, <2>3, <2>4
<1>3. ASSUME NEW j \in 1 .. n PROVE (CHOOSE i \in I : Rank(I, i) = j) = a + j
  <2>1. a + j \in I
    OBVIOUS
  <2>2. \A i \in I : Rank(I, i) = j <=> i = a + j
    BY <1>2
  <2> QED
    BY <2>1, <2>2
<1>4. Selected(s, I) = [j \in 1 .. Cardinality(I) |-> s[CHOOSE i \in I : Rank(I, i) = j]]
  BY DEF Selected, Rank
<1> QED
  BY <1>1, <1>3, <1>4

-----------------------------------------------------------------------------
(* What the operations do to the requests and to the checkpointers.        *)

\* Only a run has a conversation to save, and the requests wait for the router.
Serving ==
  /\ \A r \in DOMAIN req : req[r].kind \in Posts => req[r].thread \in Threads
  /\ \A r \in DOMAIN req : InProgress(req[r]) => req[r].kind \in Posts
  /\ ~mounted => req = <<>> /\ \A s \in Savers : DOMAIN store[s] = {}

TypeInv == TypeOK /\ Serving

LEMMA SaverType ==
  ASSUME TypeOK, NEW m \in Models
  PROVE  SaverOf(m) \in Savers \cup {None} /\ None \notin Savers
  BY GraphAssumption, NoneIsNoSaver DEF TypeOK, SaverOf, Savers

LEMMA SavedType ==
  ASSUME TypeOK, NEW m \in Models, NEW t
  PROVE  Saved(m, t) \in Seq(Message)
<1>1. SaverOf(m) # None => SaverOf(m) \in Savers
  BY SaverType
<1> QED
  BY <1>1 DEF Saved, TypeOK

\* A checkpoint changes one thread of one checkpointer.
LEMMA SaveEffect ==
  ASSUME TypeOK, NEW m \in Models, NEW t, NEW msgs, Save(m, t, msgs)
  PROVE  /\ DOMAIN store' = Savers
         /\ \A s \in Savers :
              /\ DOMAIN store'[s] = DOMAIN store[s] \cup {x \in {t} : s = SaverOf(m)}
              /\ \A x \in DOMAIN store'[s] :
                   store'[s][x] = IF s = SaverOf(m) /\ x = t THEN msgs ELSE store[s][x]
<1>1. DOMAIN store = Savers /\ SaverOf(m) \in Savers \cup {None} /\ None \notin Savers
  BY SaverType DEF TypeOK
<1>2. CASE SaverOf(m) = None
  BY <1>1, <1>2 DEF Save
<1>3. CASE SaverOf(m) # None
  <2> DEFINE a == SaverOf(m)
             new == [x \in DOMAIN store[a] \cup {t} |-> IF x = t THEN msgs ELSE store[a][x]]
  <2>1. a \in Savers /\ store' = [store EXCEPT ![a] = new]
    BY <1>1, <1>3 DEF Save
  <2> HIDE DEF a
  <2>2. DOMAIN store' = Savers /\ \A s \in Savers : store'[s] = IF s = a THEN new ELSE store[s]
    BY <1>1, <2>1
  <2> QED
    BY <2>2 DEF a
<1> QED
  BY <1>2, <1>3

\* A deletion takes one thread from one checkpointer.
LEMMA ForgottenEffect ==
  ASSUME TypeOK, NEW m \in Models, NEW t, store' = Forgotten(m, t)
  PROVE  /\ DOMAIN store' = Savers
         /\ \A s \in Savers :
              /\ DOMAIN store'[s] = DOMAIN store[s] \ {x \in {t} : s = SaverOf(m)}
              /\ \A x \in DOMAIN store'[s] : store'[s][x] = store[s][x]
<1>1. DOMAIN store = Savers /\ SaverOf(m) \in Savers \cup {None} /\ None \notin Savers
  BY SaverType DEF TypeOK
<1>2. CASE SaverOf(m) = None
  BY <1>1, <1>2 DEF Forgotten
<1>3. CASE SaverOf(m) # None
  <2> DEFINE a == SaverOf(m)
             new == [x \in DOMAIN store[a] \ {t} |-> store[a][x]]
  <2>1. a \in Savers /\ store' = [store EXCEPT ![a] = new]
    BY <1>1, <1>3 DEF Forgotten, Restrict
  <2> HIDE DEF a
  <2>2. DOMAIN store' = Savers /\ \A s \in Savers : store'[s] = IF s = a THEN new ELSE store[s]
    BY <1>1, <2>1
  <2> QED
    BY <2>2 DEF a
<1> QED
  BY <1>2, <1>3

\* Uuids are handed out upwards, so a thread and a request stay what they are.
LEMMA TypesGrow ==
  ASSUME TypeOK, lastUuid' \in {lastUuid, lastUuid + 1}
  PROVE  lastUuid' \in Nat /\ Threads \subseteq Threads' /\ Requests \subseteq Requests'
<1>1. lastUuid \in Nat /\ lastUuid' \in Nat /\ 1 .. lastUuid \subseteq 1 .. lastUuid'
  BY DEF TypeOK
<1>2. Threads \subseteq Threads'
  BY <1>1 DEF Threads
<1> QED
  BY <1>1, <1>2 DEF Requests, Message

\* A request is appended.
LEMMA AppendEffect ==
  ASSUME TypeOK, Requests \subseteq Requests', NEW q \in Requests', req' = Append(req, q)
  PROVE  /\ req' \in Seq(Requests') /\ Len(req') = Len(req) + 1 /\ Len(req) \in Nat
         /\ DOMAIN req' = DOMAIN req \cup {Len(req) + 1} /\ Len(req) + 1 \notin DOMAIN req
         /\ \A r \in DOMAIN req : req'[r] = req[r]
         /\ req'[Len(req) + 1] = q
  BY DEF TypeOK

\* Whether it is alone is all that changes of a request.
LEMMA AloneType ==
  ASSUME NEW b \in BOOLEAN
  PROVE  /\ \A q \in Requests : [q EXCEPT !.alone = b] \in Requests
         /\ \A q \in Requests' : [q EXCEPT !.alone = b] \in Requests'
<1>1. ASSUME NEW q \in Requests PROVE [q EXCEPT !.alone = b] \in Requests
  BY DEF Requests
<1>2. ASSUME NEW q \in Requests' PROVE [q EXCEPT !.alone = b] \in Requests'
  BY DEF Requests
<1> QED
  BY <1>1, <1>2

\* A request arrives, and those it joins are no longer alone.
LEMMA ArrivesEffect ==
  ASSUME TypeOK, Requests \subseteq Requests', NEW q \in Requests', Arrives(q)
  PROVE  /\ req' \in Seq(Requests') /\ Len(req') = Len(req) + 1 /\ Len(req) \in Nat
         /\ DOMAIN req' = DOMAIN req \cup {Len(req) + 1} /\ Len(req) + 1 \notin DOMAIN req
         /\ \A r \in DOMAIN req : req'[r] = [req[r] EXCEPT !.alone =
              req[r].alone /\ ~(InProgress(req[r]) /\ SamePlace(req[r], q))]
         /\ req'[Len(req) + 1] = [q EXCEPT !.alone =
              \A r \in DOMAIN req : ~(InProgress(req[r]) /\ SamePlace(req[r], q))]
<1> DEFINE others == {r \in DOMAIN req : InProgress(req[r]) /\ SamePlace(req[r], q)}
           old == [r \in DOMAIN req |-> [req[r] EXCEPT !.alone = @ /\ r \notin others]]
           new == [q EXCEPT !.alone = others = {}]
<1>1. req' = Append(old, new)
  BY DEF Arrives
<1>2. req \in Seq(Requests) /\ DOMAIN req = 1 .. Len(req) /\ Len(req) \in Nat
  BY DEF TypeOK
<1>3. \A r \in DOMAIN req : req[r] \in Requests
  BY <1>2
<1>4. ASSUME NEW r \in DOMAIN req PROVE old[r] \in Requests'
  <2> DEFINE b == req[r].alone /\ r \notin others
  <2>1. b \in BOOLEAN /\ old[r] = [req[r] EXCEPT !.alone = b]
    OBVIOUS
  <2> HIDE DEF b, others, old
  <2>2. [req[r] EXCEPT !.alone = b] \in Requests
    BY <1>3, <2>1, AloneType
  <2> QED
    BY <2>1, <2>2
<1>5. new \in Requests'
  <2> DEFINE b == others = {}
  <2>1. b \in BOOLEAN /\ new = [q EXCEPT !.alone = b]
    OBVIOUS
  <2> HIDE DEF b, new
  <2> QED
    BY <2>1, AloneType
<1> HIDE DEF new
<1>6. old \in Seq(Requests') /\ Len(old) = Len(req)
  BY <1>2, <1>4
<1>7. \A r \in DOMAIN req : old[r] = [req[r] EXCEPT !.alone =
        req[r].alone /\ ~(InProgress(req[r]) /\ SamePlace(req[r], q))]
  OBVIOUS
<1> HIDE DEF old
<1>8. /\ req' \in Seq(Requests') /\ Len(req') = Len(req) + 1
      /\ \A r \in DOMAIN req : req'[r] = old[r]
      /\ req'[Len(req) + 1] = new
      /\ DOMAIN req' = DOMAIN req \cup {Len(req) + 1} /\ Len(req) + 1 \notin DOMAIN req
  BY <1>1, <1>2, <1>5, <1>6
<1>9. new = [q EXCEPT !.alone =
        \A r \in DOMAIN req : ~(InProgress(req[r]) /\ SamePlace(req[r], q))]
  BY DEF new
<1> QED
  BY <1>2, <1>7, <1>8, <1>9

\* A request in progress goes on.
LEMMA GoesEffect ==
  ASSUME TypeOK, NEW r \in DOMAIN req, NEW q \in Requests, Goes(r, q)
  PROVE  /\ req' \in Seq(Requests) /\ Len(req') = Len(req) /\ DOMAIN req' = DOMAIN req
         /\ req'[r] = q /\ \A p \in DOMAIN req : p # r => req'[p] = req[p]
  BY DEF TypeOK, Goes

-----------------------------------------------------------------------------
(* Type correctness.                                                       *)

LEMMA InitTypes == Init => TypeInv
<1> SUFFICES ASSUME Init PROVE TypeInv
  OBVIOUS
<1>1. saver \in [Graphs -> Savers \cup {None}]
  BY GraphAssumption DEF Init, Savers
<1>2. req = <<>> /\ Len(req) = 0 /\ DOMAIN req = {} /\ req \in Seq(Requests)
  BY DEF Init
<1>3. store = [s \in Savers |-> <<>>] /\ \A s \in Savers : DOMAIN store[s] = {}
  BY DEF Init
<1>4. Conversations \in Nat
  BY ServiceBoundsAssumption
<1>5. TypeOK
  <2>1. crashedAt \in 0 .. Len(req) /\ DOMAIN store = Savers
    BY <1>2, <1>3 DEF Init
  <2>2. registered \subseteq Models /\ mounted \in BOOLEAN /\ lastUuid \in Nat
    BY <1>4 DEF Init
  <2> QED
    BY <1>1, <1>2, <1>3, <2>1, <2>2 DEF TypeOK
<1>6. Serving
  BY <1>2, <1>3 DEF Init, Serving
<1> QED
  BY <1>5, <1>6 DEF TypeInv

\* A new request is a request, answered or to be answered.
LEMMA RequestType ==
  ASSUME TypeOK, NEW kind \in RequestKinds, NEW m \in Models, NEW t \in Threads \cup {None}
  PROVE  /\ Request(kind, m, t) \in Requests
         /\ [Request(kind, m, t) EXCEPT !.status = 404] \in Requests
         /\ \A reply \in Seq(Message) : [Request(kind, m, t) EXCEPT !.reply = reply] \in Requests
<1>1. <<>> \in Seq(Int) /\ <<>> \in Seq(Message) /\ 0 \in Nat
  OBVIOUS
<1>2. "done" \in Places /\ 200 \in Statuses /\ 404 \in Statuses
  BY DEF Places, Statuses
<1>3. Request(kind, m, t) \in Requests
  BY <1>1, <1>2 DEF Request, Requests
<1> HIDE DEF Request
<1>4. [Request(kind, m, t) EXCEPT !.status = 404] \in Requests
  BY <1>2, <1>3, SMTT(30) DEF Requests
<1>5. ASSUME NEW reply \in Seq(Message)
      PROVE  [Request(kind, m, t) EXCEPT !.reply = reply] \in Requests
  BY <1>3 DEF Requests
<1> QED
  BY <1>3, <1>4, <1>5

\* The request that Create adds.
NewRequest(kind, m, anchor, input) ==
  [Request(kind, m, ThreadOf(kind, anchor)) EXCEPT
     !.pc = IF kind = "response" THEN "count" ELSE "invoke", !.status = None,
     !.anchor = anchor, !.input = input]

\* The thread of a request that names a conversation, and of one that does not.
LEMMA Named ==
  ASSUME NEW kind, NEW anchor, Names(kind, anchor)
  PROVE  ThreadOf(kind, anchor) \in {anchor, UuidThread(anchor.uuid)}
BY DEF Names, ThreadOf, ResponseThread, ChatThread, Chats

LEMMA Unnamed ==
  ASSUME NEW kind, NEW anchor, ~Names(kind, anchor)
  PROVE  \E as \in {"uuid", "hex"} : ThreadOf(kind, anchor) = [uuid |-> lastUuid + 1, as |-> as]
BY DEF Names, ThreadOf, ResponseThread, ChatThread, UuidThread, FreshUuid, Chats

LEMMA NewRequestType ==
  ASSUME TypeOK, NEW kind \in Kinds, NEW m \in Models, NEW anchor \in Anchors \cup {None},
         NEW input \in Inputs, lastUuid' = IF Names(kind, anchor) THEN lastUuid ELSE FreshUuid
  PROVE  /\ NewRequest(kind, m, anchor, input) \in Requests'
         /\ ThreadOf(kind, anchor) \in Threads' /\ kind \in Posts
<1>1. lastUuid' \in {lastUuid, lastUuid + 1} /\ lastUuid \in Nat
  BY DEF FreshUuid, TypeOK
<1>2. Threads \subseteq Threads' /\ lastUuid' \in Nat
  BY <1>1, TypesGrow
<1>3. \A a \in Anchors : a \in Threads /\ a.uuid \in 1 .. lastUuid /\ UuidThread(a.uuid) \in Threads
  BY SpellingsAssumption DEF Anchors, Threads, UuidThread
<1>4. ThreadOf(kind, anchor) \in Threads'
  <2>1. CASE ~Names(kind, anchor)
    <3>1. lastUuid' = lastUuid + 1
      BY <2>1 DEF FreshUuid
    <3>2. lastUuid + 1 \in 1 .. (lastUuid + 1)
      BY <1>1
    <3> QED
      BY <2>1, <3>1, <3>2, Unnamed DEF Threads
  <2>2. CASE Names(kind, anchor)
    <3>1. anchor \in Anchors
      BY <2>2 DEF Names
    <3> QED
      BY <1>2, <1>3, <2>2, <3>1, Named
  <2> QED
    BY <2>1, <2>2
<1>5. kind \in Posts /\ kind \in RequestKinds
  BY KindsAssumption DEF Posts, Chats, Streams, RequestKinds
<1>6. anchor \in (Threads \cup {None})'
  BY <1>2, <1>3
<1>7. input \in Seq(Int)
  <2>1. input \in {<< 0 >>, <<-1, 0>>}
    BY InputsAssumption
  <2>2. \A a, b \in Int : <<a>> \in Seq(Int) /\ <<a, b>> \in Seq(Int)
    OBVIOUS
  <2>3. 0 \in Int /\ -1 \in Int
    OBVIOUS
  <2>4. << 0 >> \in Seq(Int) /\ <<-1, 0>> \in Seq(Int)
    BY <2>2, <2>3
  <2> QED
    BY <2>1, <2>4
<1>8. /\ "count" \in Places /\ "invoke" \in Places /\ None \in Statuses
      /\ Request(kind, m, ThreadOf(kind, anchor)) \in Requests'
  <2>1. <<>> \in Seq(Int) /\ <<>> \in Seq(Message) /\ 0 \in Nat
    OBVIOUS
  <2>2. "done" \in Places /\ 200 \in Statuses
    BY DEF Places, Statuses
  <2>3. Request(kind, m, ThreadOf(kind, anchor)) \in Requests'
    BY <1>4, <1>5, <2>1, <2>2 DEF Request, Requests
  <2> QED
    BY <2>3 DEF Places, Statuses
<1> DEFINE q == Request(kind, m, ThreadOf(kind, anchor))
           pc == IF kind = "response" THEN "count" ELSE "invoke"
<1>9. q \in Requests' /\ pc \in Places
  BY <1>8
<1> HIDE DEF q, pc
<1>10. [q EXCEPT !.pc = pc, !.status = None, !.anchor = anchor, !.input = input] \in Requests'
  BY <1>6, <1>7, <1>8, <1>9 DEF Requests
<1> QED
  BY <1>4, <1>5, <1>10 DEF NewRequest, q, pc

\* The server goes down: every request in progress is gone.
CrashEffect ==
  /\ req' \in Seq(Requests) /\ Len(req') = Len(req) /\ DOMAIN req' = DOMAIN req
  /\ crashedAt' = Len(req) /\ Len(req) \in Nat /\ crashedAt = 0
  /\ \A r \in DOMAIN req :
       req'[r] = IF InProgress(req[r]) THEN [req[r] EXCEPT !.pc = "gone"] ELSE req[r]
  /\ DOMAIN store' = Savers
  /\ \A s \in Savers : store'[s] = IF s \in Graphs THEN <<>> ELSE store[s]
  /\ mounted /\ UNCHANGED <<registered, mounted, saver, lastUuid>>

LEMMA CrashIsEffect == ASSUME TypeOK, Crash PROVE CrashEffect
<1>1. req \in Seq(Requests) /\ DOMAIN req = 1 .. Len(req) /\ Len(req) \in Nat
  BY DEF TypeOK
<1>2. "gone" \in Places /\ \A q \in Requests : [q EXCEPT !.pc = "gone"] \in Requests
  <2>1. "gone" \in Places
    BY DEF Places
  <2>2. ASSUME NEW q \in Requests PROVE [q EXCEPT !.pc = "gone"] \in Requests
    BY <2>1 DEF Requests
  <2> QED
    BY <2>1, <2>2
<1>3. req' = [r \in DOMAIN req |-> IF InProgress(req[r]) THEN [req[r] EXCEPT !.pc = "gone"]
                                                         ELSE req[r]]
  BY DEF Crash
<1>4. \A r \in DOMAIN req : req[r] \in Requests /\ req'[r] \in Requests
  BY <1>1, <1>2, <1>3
<1>5. req' \in Seq(Requests) /\ Len(req') = Len(req) /\ DOMAIN req' = DOMAIN req
  BY <1>1, <1>3, <1>4
<1>6. DOMAIN store' = Savers /\ \A s \in Savers : store'[s] = IF s \in Graphs THEN <<>> ELSE store[s]
  BY DEF Crash
<1>7. /\ crashedAt' = Len(req) /\ crashedAt = 0
      /\ mounted /\ UNCHANGED <<registered, mounted, saver, lastUuid>>
  BY DEF Crash
<1> QED
  BY <1>1, <1>3, <1>5, <1>6, <1>7 DEF CrashEffect

\* What a run produces and what it starts from are messages.
LEMMA RunTypes ==
  ASSUME TypeOK, NEW r \in DOMAIN req
  PROVE  /\ req[r] \in Requests /\ r \in Nat /\ Produced(r) \in Nat
         /\ [by |-> r, n |-> Produced(r) + 1] \in Message
         /\ InputOf(r) \in Seq(Message)
         /\ Selected(req[r].history, By(req[r].history, r)) \in Seq(Message)
         /\ Messages(r, Produced(r)) \in Seq(Message)
         /\ Saved(req[r].model, req[r].thread) \in Seq(Message)
<1>1. req[r] \in Requests /\ r \in Nat
  BY DEF TypeOK
<1>2. req[r].history \in Seq(Message) /\ req[r].input \in Seq(Int) /\ req[r].model \in Models
  BY <1>1 DEF Requests
<1>3. Produced(r) \in Nat
  <2> DEFINE I == {i \in By(req[r].history, r) : req[r].history[i].n > 0}
  <2>1. I \in SUBSET DOMAIN req[r].history
    BY DEF By
  <2> HIDE DEF I
  <2>2. Cardinality(I) \in Nat
    BY <1>2, <2>1, SelectedType
  <2> QED
    BY <2>2 DEF Produced, I
<1>4. [by |-> r, n |-> Produced(r) + 1] \in Message
  BY <1>1, <1>3 DEF Message
<1>5. InputOf(r) \in Seq(Message)
  <2>1. \A i \in DOMAIN req[r].input : [by |-> r, n |-> req[r].input[i]] \in Message
    BY <1>1, <1>2 DEF Message
  <2>2. DOMAIN req[r].input = 1 .. Len(req[r].input) /\ Len(req[r].input) \in Nat
    BY <1>2
  <2> QED
    BY <2>1, <2>2 DEF InputOf
<1>6. Selected(req[r].history, By(req[r].history, r)) \in Seq(Message)
  <2>1. By(req[r].history, r) \in SUBSET DOMAIN req[r].history
    BY DEF By
  <2> QED
    BY <1>2, <2>1, SelectedType
<1>7. Messages(r, Produced(r)) \in Seq(Message)
  <2>1. \A i \in 1 .. Produced(r) : [by |-> r, n |-> i] \in Message
    BY <1>1, <1>3 DEF Message
  <2> QED
    BY <1>3, <2>1 DEF Messages
<1>8. Saved(req[r].model, req[r].thread) \in Seq(Message)
  BY <1>2, SavedType
<1> QED
  BY <1>1, <1>3, <1>4, <1>5, <1>6, <1>7, <1>8

\* What a response or a conversation is made of.
LEMMA OutputType ==
  ASSUME NEW msgs \in Seq(Message)
  PROVE  /\ Output(msgs) \in Seq(Message)
         /\ \A n \in DOMAIN Output(msgs) : \E i \in DOMAIN msgs : Output(msgs)[n] = msgs[i]
<1> DEFINE I == {i \in DOMAIN msgs : msgs[i].n # 0}
<1>1. I \in SUBSET DOMAIN msgs
  OBVIOUS
<1> HIDE DEF I
<1>2. /\ Selected(msgs, I) \in Seq(Message)
      /\ \A n \in DOMAIN Selected(msgs, I) : \E i \in I : Selected(msgs, I)[n] = msgs[i]
  BY <1>1, SelectedType
<1> QED
  BY <1>1, <1>2 DEF Output, I

LEMMA NewMessagesType ==
  ASSUME NEW msgs \in Seq(Message), NEW count \in Nat
  PROVE  /\ NewMessages(msgs, count) \in Seq(Message)
         /\ \A n \in DOMAIN NewMessages(msgs, count) :
              \E i \in DOMAIN msgs : NewMessages(msgs, count)[n] = msgs[i]
<1>1. CASE count < Len(msgs)
  <2> DEFINE s == SubSeq(msgs, count + 1, Len(msgs))
  <2>1. s \in Seq(Message) /\ Len(s) = Len(msgs) - count
    BY <1>1
  <2>2. ASSUME NEW n \in 1 .. Len(s)
        PROVE  s[n] = msgs[count + n] /\ count + n \in DOMAIN msgs
    <3>1. Len(msgs) \in Nat /\ DOMAIN msgs = 1 .. Len(msgs) /\ n \in 1 .. (Len(msgs) - count)
      BY <2>1
    <3>2. count + n \in DOMAIN msgs /\ (count + 1) + n - 1 = count + n
      BY <3>1
    <3>3. s[n] = msgs[(count + 1) + n - 1]
      BY <1>1, <3>1
    <3> QED
      BY <3>2, <3>3
  <2> QED
    BY <1>1, <2>1, <2>2 DEF NewMessages
<1>2. CASE ~(count < Len(msgs))
  BY <1>2 DEF NewMessages
<1> QED
  BY <1>1, <1>2

\* A run that produced a message has a last one.
LEMMA ProducedSome ==
  ASSUME TypeOK, NEW r \in DOMAIN req, Produced(r) > 0
  PROVE  Len(req[r].history) \in DOMAIN req[r].history
<1> DEFINE I == {i \in By(req[r].history, r) : req[r].history[i].n > 0}
<1>1. req[r].history \in Seq(Message)
  BY RunTypes DEF Requests
<1>2. I # {}
  <2>1. Cardinality(I) > 0
    BY DEF Produced
  <2> HIDE DEF I
  <2>2. Cardinality({}) = 0
    BY FS_EmptySet
  <2> QED
    BY <2>1, <2>2
<1>3. DOMAIN req[r].history # {}
  BY <1>2 DEF By
<1> QED
  BY <1>1, <1>3

LEMMA AnswerType ==
  ASSUME TypeOK, NEW r \in DOMAIN req, Produced(r) > 0
  PROVE  /\ Answer(r) \in Seq(Message)
         /\ \A n \in DOMAIN Answer(r) :
              \/ Answer(r)[n].by = r
              \/ \E i \in DOMAIN req[r].history : Answer(r)[n] = req[r].history[i]
<1>1. /\ req[r].history \in Seq(Message) /\ req[r].count \in Nat
      /\ Messages(r, Produced(r)) \in Seq(Message)
  BY RunTypes DEF TypeOK, Requests
<1>2. CASE req[r].kind \in Streams
  <2>1. Answer(r) = Messages(r, Produced(r))
    BY <1>2 DEF Answer
  <2> QED
    BY <1>1, <2>1 DEF Messages
<1>3. CASE req[r].kind \notin Streams /\ req[r].kind = "response"
  <2> DEFINE new == NewMessages(req[r].history, req[r].count)
  <2>1. /\ new \in Seq(Message)
        /\ \A n \in DOMAIN new : \E i \in DOMAIN req[r].history : new[n] = req[r].history[i]
    BY <1>1, NewMessagesType
  <2>2. Answer(r) = Output(new)
    BY <1>3 DEF Answer
  <2> HIDE DEF new
  <2>3. /\ Output(new) \in Seq(Message)
        /\ \A n \in DOMAIN Output(new) : \E i \in DOMAIN new : Output(new)[n] = new[i]
    BY <2>1, OutputType
  <2> QED
    BY <2>1, <2>2, <2>3
<1>4. CASE req[r].kind \notin Streams /\ req[r].kind # "response"
  <2>1. Answer(r) = <<req[r].history[Len(req[r].history)]>>
    BY <1>4 DEF Answer
  <2>2. Len(req[r].history) \in DOMAIN req[r].history
    BY ProducedSome
  <2>3. req[r].history[Len(req[r].history)] \in Message
    BY <1>1, <2>2
  <2> QED
    BY <2>1, <2>2, <2>3
<1> QED
  BY <1>2, <1>3, <1>4

\* What a request goes on as is a request.
LEMMA GoesOnType ==
  ASSUME TypeOK, NEW r \in DOMAIN req
  PROVE  /\ \A n \in Nat : [req[r] EXCEPT !.pc = "invoke", !.count = n] \in Requests
         /\ \A h \in Seq(Message) : [req[r] EXCEPT !.pc = "run", !.history = h] \in Requests
         /\ \A h \in Seq(Message) :
              [req[r] EXCEPT !.history = h, !.trimmed = TRUE] \in Requests
         /\ \A a \in Seq(Message) :
              [req[r] EXCEPT !.pc = "done", !.status = 200, !.reply = a] \in Requests
         /\ [req[r] EXCEPT !.pc = "done", !.status = 500] \in Requests
         /\ [req[r] EXCEPT !.pc = "gone"] \in Requests
<1>1. req[r] \in Requests
  BY RunTypes
<1>2. /\ "invoke" \in Places /\ "run" \in Places /\ "done" \in Places /\ "gone" \in Places
      /\ 200 \in Statuses /\ 500 \in Statuses /\ TRUE \in BOOLEAN
  BY DEF Places, Statuses
<1>3. ASSUME NEW n \in Nat PROVE [req[r] EXCEPT !.pc = "invoke", !.count = n] \in Requests
  BY <1>1, <1>2 DEF Requests
<1>4. ASSUME NEW h \in Seq(Message)
      PROVE  [req[r] EXCEPT !.pc = "run", !.history = h] \in Requests
  BY <1>1, <1>2, ZenonT(60) DEF Requests
<1>5. ASSUME NEW h \in Seq(Message)
      PROVE  [req[r] EXCEPT !.history = h, !.trimmed = TRUE] \in Requests
  BY <1>1, <1>2, ZenonT(60) DEF Requests
<1>6. ASSUME NEW a \in Seq(Message)
      PROVE  [req[r] EXCEPT !.pc = "done", !.status = 200, !.reply = a] \in Requests
  BY <1>1, <1>2, ZenonT(60) DEF Requests
<1>7. [req[r] EXCEPT !.pc = "done", !.status = 500] \in Requests
  <2>1. ASSUME NEW s \in Statuses
        PROVE  [req[r] EXCEPT !.pc = "done", !.status = s] \in Requests
    BY <1>1, <1>2 DEF Requests
  <2> QED
    BY <1>2, <2>1
<1>8. [req[r] EXCEPT !.pc = "gone"] \in Requests
  BY <1>1, <1>2 DEF Requests
<1> QED
  BY <1>3, <1>4, <1>5, <1>6, <1>7, <1>8

\* What a request is does not change when it goes on.
SameRequest(p, q) ==
  /\ q.kind = p.kind /\ q.model = p.model /\ q.thread = p.thread
  /\ q.anchor = p.anchor /\ q.input = p.input

LEMMA GoesOnFields ==
  ASSUME TypeOK, NEW r \in DOMAIN req, NEW x
  PROVE  /\ SameRequest(req[r], [req[r] EXCEPT !.pc = "invoke", !.count = x])
         /\ SameRequest(req[r], [req[r] EXCEPT !.pc = "run", !.history = x])
         /\ SameRequest(req[r], [req[r] EXCEPT !.history = x, !.trimmed = TRUE])
         /\ SameRequest(req[r], [req[r] EXCEPT !.pc = "done", !.status = 200, !.reply = x])
         /\ SameRequest(req[r], [req[r] EXCEPT !.pc = "done", !.status = 500])
         /\ SameRequest(req[r], [req[r] EXCEPT !.pc = "gone"])
<1>1. req[r] \in Requests
  BY RunTypes
<1> QED
  BY <1>1 DEF Requests, SameRequest

\* Request r counts the messages of its thread.
CountEffect(r) ==
  /\ req[r].pc = "count" /\ req'[r].pc = "invoke"
  /\ req'[r].count = Len(Saved(req[r].model, req[r].thread))
  /\ req'[r].history = req[r].history /\ req'[r].trimmed = req[r].trimmed
  /\ req'[r].reply = req[r].reply /\ req'[r].status = req[r].status
  /\ store' = store

\* Its run loads the thread, adds a message or removes the messages of other turns,
\* and saves its messages.
RunEffect(r) ==
  /\ req'[r].pc = "run" /\ req'[r].count = req[r].count
  /\ req'[r].reply = req[r].reply /\ req'[r].status = req[r].status
  /\ \/ /\ req[r].pc = "invoke" /\ req'[r].trimmed = req[r].trimmed
        /\ req'[r].history = Saved(req[r].model, req[r].thread) \o InputOf(r)
     \/ /\ req[r].pc = "run" /\ req'[r].trimmed = req[r].trimmed
        /\ req'[r].history = Append(req[r].history, [by |-> r, n |-> Produced(r) + 1])
     \/ /\ req[r].pc = "run" /\ req'[r].trimmed = TRUE
        /\ req'[r].history = Selected(req[r].history, By(req[r].history, r))
  /\ Save(req[r].model, req[r].thread, req'[r].history)

\* It is answered, or it fails or is gone.
EndEffect(r) ==
  /\ req'[r].count = req[r].count /\ req'[r].history = req[r].history
  /\ req'[r].trimmed = req[r].trimmed /\ store' = store
  /\ \/ /\ req[r].pc = "run" /\ Produced(r) > 0
        /\ req'[r].pc = "done" /\ req'[r].status = 200 /\ req'[r].reply = Answer(r)
     \/ /\ (req'[r].pc = "done" /\ req'[r].status = 500) \/ req'[r].pc = "gone"
        /\ req'[r].reply = req[r].reply

ProgressEffect(r) ==
  /\ req' \in Seq(Requests) /\ Len(req') = Len(req) /\ DOMAIN req' = DOMAIN req
  /\ \A p \in DOMAIN req : p # r => req'[p] = req[p]
  /\ UNCHANGED <<registered, mounted, saver, lastUuid, crashedAt>>
  /\ InProgress(req[r]) /\ SameRequest(req[r], req'[r]) /\ req'[r].alone = req[r].alone
  /\ CountEffect(r) \/ RunEffect(r) \/ EndEffect(r)

LEMMA GoesProgress ==
  ASSUME TypeOK, NEW r \in DOMAIN req, NEW q \in Requests, Goes(r, q),
         InProgress(req[r]), SameRequest(req[r], q), q.alone = req[r].alone
  PROVE  /\ req'[r] = q
         /\ (CountEffect(r) \/ RunEffect(r) \/ EndEffect(r)) => ProgressEffect(r)
<1>1. /\ req' \in Seq(Requests) /\ Len(req') = Len(req) /\ DOMAIN req' = DOMAIN req
      /\ req'[r] = q /\ \A p \in DOMAIN req : p # r => req'[p] = req[p]
  BY GoesEffect
<1>2. UNCHANGED <<registered, mounted, saver, lastUuid, crashedAt>>
  BY DEF Goes
<1> QED
  BY <1>1, <1>2 DEF ProgressEffect

\* A run saves its messages.
LEMMA CheckpointsEffect ==
  ASSUME TypeOK, NEW r \in DOMAIN req, NEW h \in Seq(Message), Checkpoints(r, h),
         \/ req[r].pc = "invoke" /\ h = Saved(req[r].model, req[r].thread) \o InputOf(r)
         \/ req[r].pc = "run" /\ h = Append(req[r].history, [by |-> r, n |-> Produced(r) + 1])
  PROVE  ProgressEffect(r)
<1> DEFINE q == [req[r] EXCEPT !.pc = "run", !.history = h]
<1>1. q \in Requests /\ SameRequest(req[r], q)
  BY GoesOnType, GoesOnFields, ZenonT(60)
<1>2. /\ q.pc = "run" /\ q.history = h /\ q.count = req[r].count /\ q.reply = req[r].reply
      /\ q.status = req[r].status /\ q.alone = req[r].alone /\ q.trimmed = req[r].trimmed
  BY RunTypes DEF Requests
<1>3. Goes(r, q) /\ Save(req[r].model, req[r].thread, h) /\ InProgress(req[r])
  BY DEF Checkpoints, InProgress
<1> HIDE DEF q
<1>4. req'[r] = q
  BY <1>1, <1>2, <1>3, GoesProgress
<1>5. RunEffect(r)
  BY <1>2, <1>3, <1>4 DEF RunEffect
<1> QED
  BY <1>1, <1>2, <1>3, <1>5, GoesProgress

\* Every step of a request in progress is one of the three.
LEMMA AdvanceEffect ==
  ASSUME TypeOK, NEW r \in DOMAIN req, Advance(r) \/ Leave(r)
  PROVE  ProgressEffect(r)
<1>0. req[r] \in Requests
  BY RunTypes
<1>1. CASE Count(r)
  <2> DEFINE n == Len(Saved(req[r].model, req[r].thread))
             q == [req[r] EXCEPT !.pc = "invoke", !.count = n]
  <2>1. n \in Nat
    BY RunTypes
  <2>2. req[r].pc = "count" /\ Goes(r, q) /\ store' = store /\ InProgress(req[r])
    BY <1>1 DEF Count, InProgress
  <2> HIDE DEF n
  <2>3. q \in Requests /\ SameRequest(req[r], q)
    BY <2>1, GoesOnType, GoesOnFields, ZenonT(60)
  <2>4. /\ q.pc = "invoke" /\ q.count = n /\ q.history = req[r].history /\ q.reply = req[r].reply
        /\ q.status = req[r].status /\ q.alone = req[r].alone /\ q.trimmed = req[r].trimmed
    BY <1>0 DEF Requests
  <2> HIDE DEF q
  <2>5. req'[r] = q
    BY <2>2, <2>3, <2>4, GoesProgress
  <2>6. CountEffect(r)
    BY <2>2, <2>4, <2>5 DEF CountEffect, n
  <2> QED
    BY <2>2, <2>3, <2>4, <2>6, GoesProgress
<1>2. CASE Invoke(r)
  <2> DEFINE h == Saved(req[r].model, req[r].thread) \o InputOf(r)
  <2>1. h \in Seq(Message)
    <3>1. Saved(req[r].model, req[r].thread) \in Seq(Message) /\ InputOf(r) \in Seq(Message)
      BY RunTypes
    <3> QED
      BY <3>1
  <2>2. Checkpoints(r, h) /\ req[r].pc = "invoke"
    BY <1>2 DEF Invoke
  <2> QED
    BY <2>1, <2>2, CheckpointsEffect
<1>3. CASE Step(r)
  <2> DEFINE h == Append(req[r].history, [by |-> r, n |-> Produced(r) + 1])
  <2>1. h \in Seq(Message)
    BY <1>0, RunTypes DEF Requests
  <2>2. Checkpoints(r, h) /\ req[r].pc = "run"
    BY <1>3 DEF Step
  <2> QED
    BY <2>1, <2>2, CheckpointsEffect
<1>4. CASE Trim(r)
  <2> DEFINE h == Selected(req[r].history, By(req[r].history, r))
             q == [req[r] EXCEPT !.history = h, !.trimmed = TRUE]
  <2>1. h \in Seq(Message)
    BY RunTypes
  <2>2. /\ req[r].pc = "run" /\ Goes(r, q) /\ InProgress(req[r])
        /\ Save(req[r].model, req[r].thread, h)
    BY <1>4 DEF Trim, InProgress
  <2> HIDE DEF h
  <2>3. q \in Requests /\ SameRequest(req[r], q)
    BY <2>1, GoesOnType, GoesOnFields, ZenonT(60)
  <2>4. /\ q.pc = "run" /\ q.history = h /\ q.count = req[r].count /\ q.reply = req[r].reply
        /\ q.status = req[r].status /\ q.alone = req[r].alone /\ q.trimmed = TRUE
    BY <1>0, <2>2 DEF Requests
  <2> HIDE DEF q
  <2>5. req'[r] = q
    BY <2>2, <2>3, <2>4, GoesProgress
  <2>6. RunEffect(r)
    BY <2>2, <2>4, <2>5 DEF RunEffect, h
  <2> QED
    BY <2>2, <2>3, <2>4, <2>6, GoesProgress
<1>5. CASE Finish(r)
  <2> DEFINE a == Answer(r)
             q == [req[r] EXCEPT !.pc = "done", !.status = 200, !.reply = a]
  <2>1. req[r].pc = "run" /\ Produced(r) > 0 /\ Goes(r, q) /\ store' = store /\ InProgress(req[r])
    BY <1>5 DEF Finish, InProgress
  <2>2. a \in Seq(Message)
    BY <2>1, AnswerType
  <2> HIDE DEF a
  <2>3. q \in Requests /\ SameRequest(req[r], q)
    <3>1. q \in Requests
      BY <2>2, GoesOnType, ZenonT(60)
    <3>2. SameRequest(req[r], q)
      BY GoesOnFields, ZenonT(60)
    <3> QED
      BY <3>1, <3>2
  <2>4. /\ q.pc = "done" /\ q.status = 200 /\ q.reply = a /\ q.history = req[r].history
        /\ q.count = req[r].count /\ q.alone = req[r].alone /\ q.trimmed = req[r].trimmed
    BY <1>0 DEF Requests
  <2> HIDE DEF q
  <2>5. req'[r] = q
    BY <2>1, <2>3, <2>4, GoesProgress
  <2>6. EndEffect(r)
    BY <2>1, <2>4, <2>5 DEF EndEffect, a
  <2> QED
    BY <2>1, <2>3, <2>4, <2>6, GoesProgress
<1>6. CASE Raise(r)
  <2> DEFINE q == [req[r] EXCEPT !.pc = "done", !.status = 500]
  <2>1. req[r].pc = "run" /\ Goes(r, q) /\ store' = store /\ InProgress(req[r])
    BY <1>6 DEF Raise, InProgress
  <2>2. q \in Requests /\ SameRequest(req[r], q)
    <3>1. q \in Requests
      BY GoesOnType, ZenonT(60)
    <3>2. SameRequest(req[r], q)
      BY GoesOnFields, ZenonT(60)
    <3> QED
      BY <3>1, <3>2
  <2>3. /\ q.pc = "done" /\ q.status = 500 /\ q.reply = req[r].reply
        /\ q.history = req[r].history
        /\ q.count = req[r].count /\ q.alone = req[r].alone /\ q.trimmed = req[r].trimmed
    BY <1>0 DEF Requests
  <2> HIDE DEF q
  <2>4. req'[r] = q
    BY <2>1, <2>2, <2>3, GoesProgress
  <2>5. EndEffect(r)
    BY <2>1, <2>3, <2>4 DEF EndEffect
  <2> QED
    BY <2>1, <2>2, <2>3, <2>5, GoesProgress
<1>7. CASE Leave(r)
  <2> DEFINE q == [req[r] EXCEPT !.pc = "gone"]
  <2>1. Goes(r, q) /\ store' = store /\ InProgress(req[r])
    BY <1>7 DEF Leave
  <2>2. q \in Requests /\ SameRequest(req[r], q)
    BY GoesOnType, GoesOnFields, ZenonT(60)
  <2>3. /\ q.pc = "gone" /\ q.reply = req[r].reply /\ q.history = req[r].history
        /\ q.count = req[r].count /\ q.alone = req[r].alone /\ q.trimmed = req[r].trimmed
    BY <1>0 DEF Requests
  <2> HIDE DEF q
  <2>4. req'[r] = q
    BY <2>1, <2>2, <2>3, GoesProgress
  <2>5. EndEffect(r)
    BY <2>1, <2>3, <2>4 DEF EndEffect
  <2> QED
    BY <2>1, <2>2, <2>3, <2>5, GoesProgress
<1> QED
  BY <1>1, <1>2, <1>3, <1>4, <1>5, <1>6, <1>7 DEF Advance

\* A request that was there is still the same, but that it may not be alone any more.
Undisturbed(r) ==
  /\ SameRequest(req[r], req'[r])
  /\ req'[r].pc = req[r].pc /\ req'[r].status = req[r].status /\ req'[r].count = req[r].count
  /\ req'[r].history = req[r].history /\ req'[r].reply = req[r].reply
  /\ req'[r].trimmed = req[r].trimmed
  /\ req'[r].alone => req[r].alone

\* The new request joins those in progress on its conversation.
Joins ==
  /\ \A r \in DOMAIN req : req'[r].alone =>
       ~(InProgress(req[r]) /\ SamePlace(req[r], req'[Len(req')]))
  /\ \A r \in DOMAIN req : ~SamePlace(req[r], req'[Len(req')]) => req'[r].alone = req[r].alone
  /\ req'[Len(req')].alone =>
       \A r \in DOMAIN req : ~(InProgress(req[r]) /\ SamePlace(req[r], req'[Len(req')]))

\* The new request, numbered n, starts, reads a conversation, or deletes it.
CreateEffect(q) ==
  /\ q.kind \in Posts /\ q.thread \in Threads' /\ q.input \in Inputs
  /\ q.pc = IF q.kind = "response" THEN "count" ELSE "invoke"
  /\ q.reply = <<>> /\ Joins /\ store' = store
  /\ Anonymous(q) =>
       lastUuid' = lastUuid + 1 /\ \A t \in Threads : q.thread # t
  /\ ~Anonymous(q) => lastUuid' = lastUuid
GetEffect(q) ==
  /\ q.kind = "get" /\ q.pc = "done" /\ q.thread \in Threads /\ q.anchor = q.thread
  /\ q.thread.as = "uuid"
  /\ q.reply = Output(Saved(q.model, q.thread)) /\ store' = store /\ lastUuid' = lastUuid
DeleteEffect(q) ==
  /\ q.kind = "delete" /\ q.pc = "done" /\ q.status = 200
  /\ q.thread \in Threads /\ q.anchor = q.thread
  /\ q.thread.as = "uuid"
  /\ q.reply = <<>> /\ Joins /\ store' = Forgotten(q.model, q.thread) /\ lastUuid' = lastUuid
UnknownEffect(q) ==
  /\ q.kind = "unknown" /\ q.pc = "done" /\ q.status = 404 /\ q.reply = <<>>
  /\ store' = store /\ lastUuid' = lastUuid

ArrivalEffect ==
  /\ req' \in Seq(Requests') /\ Len(req') = Len(req) + 1 /\ Len(req) \in Nat
  /\ DOMAIN req' = DOMAIN req \cup {Len(req')} /\ Len(req') \notin DOMAIN req
  /\ Threads \subseteq Threads' /\ lastUuid' \in Nat
  /\ mounted /\ UNCHANGED <<registered, mounted, saver, crashedAt>>
  /\ \A r \in DOMAIN req : Undisturbed(r)
  /\ LET q == req'[Len(req')]
     IN /\ q.history = <<>> /\ q.trimmed = FALSE /\ q.count = 0 /\ q.model \in Models
        /\ CreateEffect(q) \/ GetEffect(q) \/ DeleteEffect(q) \/ UnknownEffect(q)

\* The frame of the requests that arrive and join others.
LEMMA ArrivesFrame ==
  ASSUME TypeOK, lastUuid' \in {lastUuid, lastUuid + 1}, NEW q \in Requests', Arrives(q),
         saver' = saver
  PROVE  /\ req' \in Seq(Requests') /\ Len(req') = Len(req) + 1 /\ Len(req) \in Nat
         /\ DOMAIN req' = DOMAIN req \cup {Len(req')} /\ Len(req') \notin DOMAIN req
         /\ Threads \subseteq Threads' /\ lastUuid' \in Nat
         /\ \A r \in DOMAIN req : Undisturbed(r)
         /\ SameRequest(q, req'[Len(req')]) /\ req'[Len(req')].pc = q.pc
         /\ req'[Len(req')].status = q.status /\ req'[Len(req')].count = q.count
         /\ req'[Len(req')].history = q.history /\ req'[Len(req')].reply = q.reply
         /\ req'[Len(req')].trimmed = q.trimmed
         /\ Joins
<1>1. Threads \subseteq Threads' /\ lastUuid' \in Nat /\ Requests \subseteq Requests'
  BY TypesGrow
<1>2. /\ req' \in Seq(Requests') /\ Len(req') = Len(req) + 1 /\ Len(req) \in Nat
      /\ DOMAIN req' = DOMAIN req \cup {Len(req) + 1} /\ Len(req) + 1 \notin DOMAIN req
      /\ \A r \in DOMAIN req : req'[r] = [req[r] EXCEPT !.alone =
           req[r].alone /\ ~(InProgress(req[r]) /\ SamePlace(req[r], q))]
      /\ req'[Len(req) + 1] = [q EXCEPT !.alone =
           \A r \in DOMAIN req : ~(InProgress(req[r]) /\ SamePlace(req[r], q))]
  BY <1>1, ArrivesEffect
<1> DEFINE n == req'[Len(req')]
<1>3. /\ SameRequest(q, n) /\ n.pc = q.pc /\ n.status = q.status /\ n.count = q.count
      /\ n.history = q.history /\ n.reply = q.reply /\ n.trimmed = q.trimmed
      /\ n.alone = \A r \in DOMAIN req : ~(InProgress(req[r]) /\ SamePlace(req[r], q))
  <2> DEFINE b == \A r \in DOMAIN req : ~(InProgress(req[r]) /\ SamePlace(req[r], q))
  <2>1. n = [q EXCEPT !.alone = b]
    BY <1>2
  <2> HIDE DEF b, n
  <2>2. /\ SameRequest(q, n) /\ n.pc = q.pc /\ n.status = q.status /\ n.count = q.count
        /\ n.history = q.history /\ n.reply = q.reply /\ n.trimmed = q.trimmed /\ n.alone = b
    BY <2>1 DEF Requests, SameRequest
  <2> QED
    BY <2>2 DEF b
<1>4. ASSUME NEW r \in DOMAIN req
      PROVE  /\ Undisturbed(r)
             /\ req'[r].alone = (req[r].alone /\ ~(InProgress(req[r]) /\ SamePlace(req[r], q)))
  <2> DEFINE b == req[r].alone /\ ~(InProgress(req[r]) /\ SamePlace(req[r], q))
  <2>1. req'[r] = [req[r] EXCEPT !.alone = b] /\ req[r] \in Requests
    BY <1>2, RunTypes
  <2>2. b => req[r].alone
    OBVIOUS
  <2> HIDE DEF b
  <2>3. req'[r].alone = b /\ Undisturbed(r)
    BY <2>1, <2>2 DEF Requests, Undisturbed, SameRequest
  <2> QED
    BY <2>3 DEF b
<1>5. \A p : SamePlace(p, q) <=> SamePlace(p, n)
  BY <1>3 DEF SamePlace, SameRequest
<1>6. Joins
  <2>1. \A r \in DOMAIN req : req'[r].alone => ~(InProgress(req[r]) /\ SamePlace(req[r], n))
    BY <1>4, <1>5
  <2>2. ASSUME NEW r \in DOMAIN req, ~SamePlace(req[r], n) PROVE req'[r].alone = req[r].alone
    <3>1. ~SamePlace(req[r], q) /\ req[r].alone \in BOOLEAN
      BY <1>5, <2>2, RunTypes DEF Requests
    <3>2. req'[r].alone = (req[r].alone /\ ~(InProgress(req[r]) /\ SamePlace(req[r], q)))
      BY <1>4
    <3> QED
      BY <3>1, <3>2
  <2>3. n.alone => \A r \in DOMAIN req : ~(InProgress(req[r]) /\ SamePlace(req[r], n))
    BY <1>3, <1>5
  <2> QED
    BY <2>1, <2>2, <2>3 DEF Joins
<1> QED
  BY <1>1, <1>2, <1>3, <1>4, <1>6

\* The frame of the requests that do not.
LEMMA AppendFrame ==
  ASSUME TypeOK, lastUuid' = lastUuid, NEW q \in Requests, req' = Append(req, q)
  PROVE  /\ req' \in Seq(Requests') /\ Len(req') = Len(req) + 1 /\ Len(req) \in Nat
         /\ DOMAIN req' = DOMAIN req \cup {Len(req')} /\ Len(req') \notin DOMAIN req
         /\ Threads \subseteq Threads' /\ lastUuid' \in Nat
         /\ \A r \in DOMAIN req : Undisturbed(r)
         /\ req'[Len(req')] = q
<1>1. Threads \subseteq Threads' /\ lastUuid' \in Nat /\ Requests \subseteq Requests'
  BY TypesGrow
<1>2. /\ req' \in Seq(Requests') /\ Len(req') = Len(req) + 1 /\ Len(req) \in Nat
      /\ DOMAIN req' = DOMAIN req \cup {Len(req) + 1} /\ Len(req) + 1 \notin DOMAIN req
      /\ \A r \in DOMAIN req : req'[r] = req[r]
      /\ req'[Len(req) + 1] = q
  BY <1>1, AppendEffect
<1>3. \A r \in DOMAIN req : Undisturbed(r)
  BY <1>2 DEF Undisturbed, SameRequest
<1> QED
  BY <1>1, <1>2, <1>3

LEMMA UuidThreadType ==
  ASSUME NEW u \in 1 .. lastUuid
  PROVE  UuidThread(u) \in Threads
  BY DEF UuidThread, Threads

LEMMA CreateArrives ==
  ASSUME TypeOK, NEW kind \in Kinds, NEW m \in Models, NEW anchor \in Anchors \cup {None},
         NEW input \in Inputs, Create(kind, m, anchor, input)
  PROVE  ArrivalEffect
<1> DEFINE q == NewRequest(kind, m, anchor, input)
           n == req'[Len(req')]
<1>1. lastUuid' = IF Names(kind, anchor) THEN lastUuid ELSE FreshUuid
  BY DEF Create
<1>2. q \in Requests' /\ ThreadOf(kind, anchor) \in Threads' /\ kind \in Posts
  BY <1>1, NewRequestType
<1>3. /\ Arrives(q) /\ lastUuid' \in {lastUuid, lastUuid + 1}
      /\ mounted /\ UNCHANGED <<registered, mounted, saver, store, crashedAt>>
  BY <1>1 DEF Create, NewRequest, FreshUuid
<1>4. /\ q.kind = kind /\ q.model = m /\ q.thread = ThreadOf(kind, anchor)
      /\ q.anchor = anchor /\ q.input = input
      /\ q.pc = IF kind = "response" THEN "count" ELSE "invoke"
      /\ q.history = <<>> /\ q.reply = <<>> /\ q.count = 0 /\ q.trimmed = FALSE
  BY DEF NewRequest, Request
<1> HIDE DEF q
<1>5. /\ req' \in Seq(Requests') /\ Len(req') = Len(req) + 1 /\ Len(req) \in Nat
      /\ DOMAIN req' = DOMAIN req \cup {Len(req')} /\ Len(req') \notin DOMAIN req
      /\ Threads \subseteq Threads' /\ lastUuid' \in Nat
      /\ \A r \in DOMAIN req : Undisturbed(r)
  BY <1>2, <1>3, ArrivesFrame
<1>6. /\ SameRequest(q, n) /\ n.pc = q.pc /\ n.count = q.count
      /\ n.history = q.history /\ n.reply = q.reply /\ n.trimmed = q.trimmed /\ Joins
  BY <1>2, <1>3, ArrivesFrame
<1>7. ~Names(kind, anchor) => \A t \in Threads : ThreadOf(kind, anchor) # t
  <2>1. ASSUME ~Names(kind, anchor), NEW t \in Threads PROVE ThreadOf(kind, anchor) # t
    <3>1. t.uuid \in 1 .. lastUuid /\ lastUuid \in Nat
      BY DEF Threads, TypeOK
    <3>2. ThreadOf(kind, anchor).uuid = lastUuid + 1
      BY <2>1, Unnamed
    <3> QED
      BY <3>1, <3>2
  <2> QED
    BY <2>1
<1>8. /\ ~Names(kind, anchor) => lastUuid' = lastUuid + 1
      /\ Anonymous(n) <=> ~Names(kind, anchor)
  BY <1>1, <1>4, <1>6 DEF FreshUuid, Anonymous, Names, SameRequest
<1> HIDE DEF n
<1>9. CreateEffect(n)
  BY <1>1, <1>2, <1>3, <1>4, <1>6, <1>7, <1>8 DEF CreateEffect, SameRequest
<1> QED
  BY <1>3, <1>4, <1>5, <1>6, <1>9 DEF ArrivalEffect, SameRequest, n

LEMMA GetArrives ==
  ASSUME TypeOK, NEW m \in Models, NEW u \in 1 .. lastUuid, Get(m, UuidThread(u))
  PROVE  ArrivalEffect
<1> DEFINE t == UuidThread(u)
           reply == Output(Saved(m, t))
           q == [Request("get", m, t) EXCEPT !.reply = reply]
           n == req'[Len(req')]
<1>1. t \in Threads /\ t.as = "uuid" /\ reply \in Seq(Message)
  BY UuidThreadType, SavedType, OutputType DEF UuidThread
<1>2. /\ req' = Append(req, q) /\ mounted
      /\ UNCHANGED <<registered, mounted, saver, store, lastUuid, crashedAt>>
  BY DEF Get
<1> HIDE DEF t, reply
<1>3. q \in Requests
  BY <1>1, RequestType, ZenonT(60) DEF RequestKinds
<1>4. /\ q.kind = "get" /\ q.pc = "done" /\ q.model = m /\ q.thread = t /\ q.anchor = t
      /\ q.reply = reply /\ q.history = <<>> /\ q.count = 0 /\ q.trimmed = FALSE
  BY DEF Request
<1> HIDE DEF q
<1>5. /\ req' \in Seq(Requests') /\ Len(req') = Len(req) + 1 /\ Len(req) \in Nat
      /\ DOMAIN req' = DOMAIN req \cup {Len(req')} /\ Len(req') \notin DOMAIN req
      /\ Threads \subseteq Threads' /\ lastUuid' \in Nat
      /\ \A r \in DOMAIN req : Undisturbed(r)
      /\ n = q
  BY <1>2, <1>3, AppendFrame
<1> HIDE DEF n
<1>6. GetEffect(n)
  BY <1>1, <1>2, <1>4, <1>5 DEF GetEffect, reply
<1> QED
  BY <1>2, <1>4, <1>5, <1>6 DEF ArrivalEffect, n

LEMMA DeleteArrives ==
  ASSUME TypeOK, NEW m \in Models, NEW u \in 1 .. lastUuid, Delete(m, UuidThread(u))
  PROVE  ArrivalEffect
<1> DEFINE t == UuidThread(u)
           q == Request("delete", m, t)
           n == req'[Len(req')]
<1>1. t \in Threads /\ t.as = "uuid"
  BY UuidThreadType DEF UuidThread
<1>2. /\ Arrives(q) /\ mounted /\ store' = Forgotten(m, t)
      /\ UNCHANGED <<registered, mounted, saver, lastUuid, crashedAt>>
  BY DEF Delete
<1> HIDE DEF t
<1>3. q \in Requests'
  <2>1. q \in Requests
    BY <1>1, RequestType DEF RequestKinds
  <2> QED
    BY <1>2, <2>1, TypesGrow
<1>4. /\ q.kind = "delete" /\ q.pc = "done" /\ q.status = 200 /\ q.model = m
      /\ q.thread = t /\ q.anchor = t
      /\ q.reply = <<>> /\ q.history = <<>> /\ q.count = 0 /\ q.trimmed = FALSE
  BY DEF Request
<1> HIDE DEF q
<1>5. /\ req' \in Seq(Requests') /\ Len(req') = Len(req) + 1 /\ Len(req) \in Nat
      /\ DOMAIN req' = DOMAIN req \cup {Len(req')} /\ Len(req') \notin DOMAIN req
      /\ Threads \subseteq Threads' /\ lastUuid' \in Nat
      /\ \A r \in DOMAIN req : Undisturbed(r)
  BY <1>2, <1>3, ArrivesFrame
<1>6. /\ SameRequest(q, n) /\ n.pc = q.pc /\ n.status = q.status /\ n.count = q.count
      /\ n.history = q.history /\ n.reply = q.reply /\ n.trimmed = q.trimmed /\ Joins
  BY <1>2, <1>3, ArrivesFrame
<1> HIDE DEF n
<1>7. DeleteEffect(n)
  BY <1>1, <1>2, <1>4, <1>6 DEF DeleteEffect, SameRequest
<1> QED
  BY <1>2, <1>4, <1>5, <1>6, <1>7 DEF ArrivalEffect, SameRequest, n

LEMMA UnknownArrives ==
  ASSUME TypeOK, NEW m \in Models, Unknown(m)
  PROVE  ArrivalEffect
<1> DEFINE q == [Request("unknown", m, None) EXCEPT !.status = 404]
           n == req'[Len(req')]
<1>1. /\ req' = Append(req, q) /\ mounted
      /\ UNCHANGED <<registered, mounted, saver, store, lastUuid, crashedAt>>
  BY DEF Unknown
<1>2. q \in Requests
  BY RequestType DEF RequestKinds
<1>3. /\ q.kind = "unknown" /\ q.pc = "done" /\ q.status = 404 /\ q.model = m
      /\ q.reply = <<>> /\ q.history = <<>> /\ q.count = 0 /\ q.trimmed = FALSE
  BY DEF Request
<1> HIDE DEF q
<1>4. /\ req' \in Seq(Requests') /\ Len(req') = Len(req) + 1 /\ Len(req) \in Nat
      /\ DOMAIN req' = DOMAIN req \cup {Len(req')} /\ Len(req') \notin DOMAIN req
      /\ Threads \subseteq Threads' /\ lastUuid' \in Nat
      /\ \A r \in DOMAIN req : Undisturbed(r)
      /\ n = q
  BY <1>1, <1>2, AppendFrame
<1> HIDE DEF n
<1>5. UnknownEffect(n)
  BY <1>1, <1>3, <1>4 DEF UnknownEffect
<1> QED
  BY <1>1, <1>3, <1>4, <1>5 DEF ArrivalEffect, n

\* A model is registered, or the router is made and graphs get their checkpointers.
SetupEffect ==
  /\ UNCHANGED <<store, lastUuid, req, crashedAt>>
  /\ registered' \subseteq Models /\ saver' \in [Graphs -> Savers \cup {None}]
  /\ UNCHANGED <<mounted, saver>> \/ (~mounted /\ mounted' = TRUE)

\* Every step is of one of four kinds.
LEMMA StepKinds ==
  ASSUME TypeOK, [Next]_vars
  PROVE  \/ SetupEffect \/ ArrivalEffect \/ CrashEffect
         \/ \E r \in DOMAIN req : ProgressEffect(r)
<1>0. registered \subseteq Models /\ saver \in [Graphs -> Savers \cup {None}]
  BY DEF TypeOK
<1>1. ASSUME NEW m \in Models, Register(m) PROVE SetupEffect
  BY <1>0, <1>1 DEF Register, SetupEffect
<1>2. CASE Mount
  <2>1. saver' \in [Graphs -> Savers \cup {None}]
    BY <1>0, <1>2 DEF Mount, Savers
  <2> QED
    BY <1>0, <1>2, <2>1 DEF Mount, SetupEffect
<1>3. CASE UNCHANGED vars
  BY <1>0, <1>3 DEF vars, SetupEffect
<1>4. ASSUME NEW m \in Models, Unknown(m) PROVE ArrivalEffect
  BY <1>4, UnknownArrives
<1>5. ASSUME NEW kind \in Kinds, NEW m \in Models, NEW anchor \in Anchors \cup {None},
             NEW input \in Inputs, Create(kind, m, anchor, input)
      PROVE  ArrivalEffect
  BY <1>5, CreateArrives
<1>6. ASSUME NEW m \in Models, NEW u \in 1 .. lastUuid, Get(m, UuidThread(u))
      PROVE  ArrivalEffect
  BY <1>6, GetArrives
<1>7. ASSUME NEW m \in Models, NEW u \in 1 .. lastUuid, Delete(m, UuidThread(u))
      PROVE  ArrivalEffect
  BY <1>7, DeleteArrives
<1>8. ASSUME NEW r \in DOMAIN req, Advance(r) \/ Leave(r) PROVE ProgressEffect(r)
  BY <1>8, AdvanceEffect
<1>9. CASE Crash
  BY <1>9, CrashIsEffect
<1> QED
  BY <1>1, <1>2, <1>3, <1>4, <1>5, <1>6, <1>7, <1>8, <1>9 DEF Next

LEMMA ProgressTypes ==
  ASSUME TypeInv, NEW r \in DOMAIN req, ProgressEffect(r)
  PROVE  TypeInv'
<1>0. TypeOK /\ Serving
  BY DEF TypeInv
<1>1. /\ req' \in Seq(Requests) /\ Len(req') = Len(req) /\ DOMAIN req' = DOMAIN req
      /\ \A p \in DOMAIN req : p # r => req'[p] = req[p]
      /\ UNCHANGED <<registered, mounted, saver, lastUuid, crashedAt>>
      /\ req'[r].kind = req[r].kind /\ req'[r].thread = req[r].thread /\ InProgress(req[r])
  BY DEF ProgressEffect, SameRequest
<1>2. Threads' = Threads /\ Requests' = Requests
  BY <1>1 DEF Threads, Requests
<1>3. req[r] \in Requests /\ req[r].model \in Models /\ req[r].thread \in Threads
  <2>1. req[r] \in Requests
    BY <1>0, RunTypes
  <2> QED
    BY <1>0, <1>1, <2>1 DEF Serving, Requests
<1>4. /\ DOMAIN store' = Savers
      /\ \A s \in Savers : \A t \in DOMAIN store'[s] :
           t \in Threads /\ store'[s][t] \in Seq(Message)
  <2>1. CASE store' = store
    BY <1>0, <2>1 DEF TypeOK
  <2>2. CASE RunEffect(r)
    <3> DEFINE m == req[r].model
               u == req[r].thread
               msgs == req'[r].history
    <3>0. msgs \in Seq(Message)
      <4>1. req'[r] \in Requests
        BY <1>1
      <4> QED
        BY <4>1 DEF Requests
    <3>1. Save(m, u, msgs)
      BY <2>2 DEF RunEffect
    <3> HIDE DEF msgs
    <3>2. /\ DOMAIN store' = Savers
          /\ \A s \in Savers :
                /\ DOMAIN store'[s] = DOMAIN store[s] \cup {x \in {u} : s = SaverOf(m)}
                /\ \A x \in DOMAIN store'[s] :
                     store'[s][x] = IF s = SaverOf(m) /\ x = u THEN msgs ELSE store[s][x]
      BY <1>0, <1>3, <3>1, SaveEffect
    <3> QED
      BY <1>0, <1>3, <3>0, <3>2 DEF TypeOK
  <2> QED
    BY <2>1, <2>2 DEF ProgressEffect, CountEffect, EndEffect
<1>5. TypeOK'
  BY <1>0, <1>1, <1>2, <1>4 DEF TypeOK
<1>6. mounted
  BY <1>0 DEF Serving
<1>7. Serving'
  BY <1>0, <1>1, <1>2, <1>6 DEF Serving
<1> QED
  BY <1>5, <1>7 DEF TypeInv

LEMMA ArrivalTypes ==
  ASSUME TypeInv, ArrivalEffect
  PROVE  TypeInv'
<1> DEFINE n == req'[Len(req')]
<1>0. TypeOK /\ Serving
  BY DEF TypeInv
<1>1. /\ req' \in Seq(Requests') /\ Len(req') = Len(req) + 1 /\ Len(req) \in Nat
      /\ DOMAIN req' = DOMAIN req \cup {Len(req')}
      /\ Threads \subseteq Threads' /\ lastUuid' \in Nat
      /\ mounted /\ UNCHANGED <<registered, mounted, saver, crashedAt>>
      /\ \A r \in DOMAIN req : req'[r].kind = req[r].kind /\ req'[r].thread = req[r].thread
                               /\ req'[r].pc = req[r].pc
  BY DEF ArrivalEffect, Undisturbed, SameRequest
<1>2. store' = store \/ (n.model \in Models /\ store' = Forgotten(n.model, n.thread))
  BY DEF ArrivalEffect, CreateEffect, GetEffect, DeleteEffect, UnknownEffect
<1>3. (n.kind \in Posts => n.thread \in Threads') /\ (InProgress(n) => n.kind \in Posts)
  BY DEF ArrivalEffect, CreateEffect, GetEffect, DeleteEffect, UnknownEffect,
         Posts, Chats, Streams, InProgress
<1> HIDE DEF n
<1>4. /\ DOMAIN store' = Savers
      /\ \A s \in Savers : \A t \in DOMAIN store'[s] :
           t \in Threads' /\ store'[s][t] \in Seq(Message)
  <2>1. CASE store' = store
    BY <1>0, <1>1, <2>1 DEF TypeOK
  <2>2. CASE n.model \in Models /\ store' = Forgotten(n.model, n.thread)
    <3>1. /\ DOMAIN store' = Savers
          /\ \A s \in Savers :
                /\ DOMAIN store'[s] = DOMAIN store[s] \ {x \in {n.thread} : s = SaverOf(n.model)}
                /\ \A x \in DOMAIN store'[s] : store'[s][x] = store[s][x]
      BY <1>0, <2>2, ForgottenEffect
    <3> QED
      BY <1>0, <1>1, <3>1 DEF TypeOK
  <2> QED
    BY <1>2, <2>1, <2>2
<1>5. TypeOK'
  <2>1. crashedAt' \in 0 .. Len(req')
    BY <1>0, <1>1 DEF TypeOK
  <2> QED
    BY <1>0, <1>1, <1>4, <2>1 DEF TypeOK
<1>6. \A r \in DOMAIN req' : /\ req'[r].kind \in Posts => req'[r].thread \in Threads'
                             /\ InProgress(req'[r]) => req'[r].kind \in Posts
  BY <1>0, <1>1, <1>3 DEF Serving, InProgress, n
<1>7. Serving'
  BY <1>1, <1>6 DEF Serving
<1> QED
  BY <1>5, <1>7 DEF TypeInv

LEMMA CrashTypes ==
  ASSUME TypeInv, CrashEffect
  PROVE  TypeInv'
<1>0. TypeOK /\ Serving
  BY DEF TypeInv
<1>1. Threads' = Threads /\ Requests' = Requests
  BY DEF CrashEffect, Threads, Requests
<1>2. /\ DOMAIN store' = Savers
      /\ \A s \in Savers : \A t \in DOMAIN store'[s] :
           t \in Threads /\ store'[s][t] \in Seq(Message)
  <2>1. DOMAIN <<>> = {}
    OBVIOUS
  <2> QED
    BY <1>0, <2>1 DEF CrashEffect, TypeOK
<1>3. TypeOK'
  BY <1>0, <1>1, <1>2 DEF CrashEffect, TypeOK
<1>4. ASSUME NEW r \in DOMAIN req
      PROVE  /\ req'[r].kind = req[r].kind /\ req'[r].thread = req[r].thread
             /\ InProgress(req'[r]) => InProgress(req[r])
  <2>1. req[r] \in Requests
    BY <1>0, RunTypes
  <2> QED
    BY <2>1 DEF CrashEffect, Requests
<1>5. Serving'
  BY <1>0, <1>1, <1>4 DEF CrashEffect, Serving
<1> QED
  BY <1>3, <1>5 DEF TypeInv

LEMMA TypeStep == TypeInv /\ [Next]_vars => TypeInv'
<1> SUFFICES ASSUME TypeInv, [Next]_vars PROVE TypeInv'
  OBVIOUS
<1>1. CASE SetupEffect
  <2>1. Threads' = Threads /\ Requests' = Requests
    BY <1>1 DEF SetupEffect, Threads, Requests
  <2>2. mounted' \in BOOLEAN
    BY <1>1 DEF TypeInv, TypeOK, SetupEffect
  <2>3. TypeOK'
    BY <1>1, <2>1, <2>2 DEF TypeInv, TypeOK, SetupEffect
  <2>4. Serving'
    <3>1. mounted => mounted'
      BY <1>1 DEF SetupEffect
    <3> QED
      BY <1>1, <2>1, <3>1 DEF TypeInv, Serving, SetupEffect
  <2> QED
    BY <2>3, <2>4 DEF TypeInv
<1>2. CASE ArrivalEffect
  BY <1>2, ArrivalTypes
<1>3. CASE CrashEffect
  BY <1>3, CrashTypes
<1>4. ASSUME NEW r \in DOMAIN req, ProgressEffect(r) PROVE TypeInv'
  BY <1>4, ProgressTypes
<1> QED
  BY <1>1, <1>2, <1>3, <1>4, StepKinds DEF TypeInv

\* The variables of the service keep their types, for any models, checkpointers and
\* numbers of requests.
THEOREM ServiceTypeCorrect == Spec => []TypeOK
<1>1. TypeInv => TypeOK
  BY DEF TypeInv
<1> QED
  BY <1>1, InitTypes, TypeStep, PTL DEF Spec

-----------------------------------------------------------------------------
(* Conversations do not mix.                                               *)

\* Messages come from requests for thread t of checkpointer s, which have started.
Waits(q) == q.pc \in {"count", "invoke"}
FromPlace(msgs, s, t) ==
  \A i \in DOMAIN msgs :
    /\ msgs[i].by \in DOMAIN req
    /\ req[msgs[i].by].kind \in Posts /\ ~Waits(req[msgs[i].by])
    /\ req[msgs[i].by].thread = t /\ SaverOf(req[msgs[i].by].model) = s

\* What is saved, what runs work on and what replies contain comes from the place
\* it is kept under or was asked of.
Apart ==
  /\ \A s \in Savers : \A t \in DOMAIN store[s] : FromPlace(store[s][t], s, t)
  /\ \A r \in DOMAIN req :
       /\ FromPlace(req[r].history, SaverOf(req[r].model), req[r].thread)
       /\ FromPlace(req[r].reply, SaverOf(req[r].model), req[r].thread)

\* A request that names no conversation has a thread that none before it had.
Fresh ==
  /\ \A p, r \in DOMAIN req :
       (p < r /\ Anonymous(req[r]) /\ req[r].kind \in Posts /\ req[p].kind \in Posts)
         => req[p].thread # req[r].thread
  /\ \A r \in DOMAIN req :
       (Anonymous(req[r]) /\ req[r].kind \notin Posts)
         => req[r].history = <<>> /\ req[r].reply = <<>>

ApartInv == TypeInv /\ Apart /\ Fresh

LEMMA ApartImplies == ApartInv => Isolated
<1> SUFFICES ASSUME ApartInv, NEW r \in DOMAIN req,
                    NEW msg \in Range(req[r].history) \cup Range(req[r].reply)
             PROVE  SamePlace(req[msg.by], req[r]) /\ (Anonymous(req[r]) => msg.by >= r)
  BY DEF Isolated
<1>0. TypeOK /\ Apart /\ Fresh
  BY DEF ApartInv, TypeInv
<1>1. /\ msg.by \in DOMAIN req /\ req[msg.by].kind \in Posts
      /\ req[msg.by].thread = req[r].thread
      /\ SaverOf(req[msg.by].model) = SaverOf(req[r].model)
      /\ DOMAIN req[r].history # {} \/ DOMAIN req[r].reply # {}
  BY <1>0 DEF Apart, FromPlace, Range
<1>2. ASSUME Anonymous(req[r]) PROVE msg.by >= r
  <2>1. req[r].kind \in Posts
    <3>1. DOMAIN <<>> = {}
      OBVIOUS
    <3> QED
      BY <1>0, <1>1, <1>2, <3>1 DEF Fresh
  <2>2. ~(msg.by < r)
    BY <1>0, <1>1, <1>2, <2>1 DEF Fresh
  <2>3. msg.by \in Nat /\ r \in Nat
    BY <1>0, <1>1, RunTypes
  <2> QED
    BY <2>2, <2>3
<1> QED
  BY <1>1, <1>2 DEF SamePlace

\* Requests stay where they are, and do not go back to waiting.
Stable ==
  /\ saver' = saver /\ DOMAIN req \subseteq DOMAIN req'
  /\ \A b \in DOMAIN req : /\ SameRequest(req[b], req'[b])
                           /\ ~Waits(req[b]) => ~Waits(req'[b])

LEMMA EffectsStable ==
  ASSUME TypeOK, \/ ArrivalEffect \/ CrashEffect
                 \/ \E r \in DOMAIN req : ProgressEffect(r)
  PROVE  Stable
<1>1. CASE ArrivalEffect
  BY <1>1 DEF ArrivalEffect, Undisturbed, Stable, Waits
<1>2. CASE CrashEffect
  <2>1. \A b \in DOMAIN req : req[b] \in Requests
    BY RunTypes
  <2>2. ASSUME NEW b \in DOMAIN req
        PROVE  SameRequest(req[b], req'[b]) /\ (~Waits(req[b]) => ~Waits(req'[b]))
    <3>1. CASE InProgress(req[b])
      <4>1. req'[b] = [req[b] EXCEPT !.pc = "gone"]
        BY <1>2, <3>1 DEF CrashEffect
      <4> QED
        BY <2>1, <4>1 DEF SameRequest, Waits, Requests
    <3>2. CASE ~InProgress(req[b])
      BY <1>2, <3>2 DEF CrashEffect, SameRequest
    <3> QED
      BY <3>1, <3>2
  <2> QED
    BY <1>2, <2>2 DEF CrashEffect, Stable
<1>3. ASSUME NEW r \in DOMAIN req, ProgressEffect(r) PROVE Stable
  <2>1. ~Waits(req[r]) => ~Waits(req'[r])
    BY <1>3 DEF ProgressEffect, CountEffect, RunEffect, EndEffect, Waits
  <2>2. ASSUME NEW b \in DOMAIN req
        PROVE  SameRequest(req[b], req'[b]) /\ (~Waits(req[b]) => ~Waits(req'[b]))
    BY <1>3, <2>1 DEF ProgressEffect, SameRequest
  <2> QED
    BY <1>3, <2>2 DEF ProgressEffect, Stable
<1> QED
  BY <1>1, <1>2, <1>3

\* What came from a place goes on coming from there.
WillBeFrom(msgs, s, t) ==
  \A i \in DOMAIN msgs :
    /\ msgs[i].by \in DOMAIN req'
    /\ req'[msgs[i].by].kind \in Posts /\ ~Waits(req'[msgs[i].by])
    /\ req'[msgs[i].by].thread = t /\ SaverOf(req'[msgs[i].by].model) = s

LEMMA StaysFrom ==
  ASSUME Stable, NEW msgs, NEW s, NEW t, FromPlace(msgs, s, t)
  PROVE  WillBeFrom(msgs, s, t)
  BY DEF Stable, FromPlace, WillBeFrom, SameRequest

\* What a thread holds comes from there.
LEMMA SavedFrom ==
  ASSUME TypeOK, Apart, NEW m \in Models, NEW t
  PROVE  FromPlace(Saved(m, t), SaverOf(m), t)
<1>1. CASE SaverOf(m) # None /\ t \in DOMAIN store[SaverOf(m)]
  BY <1>1, SaverType DEF Saved, Apart
<1>2. CASE ~(SaverOf(m) # None /\ t \in DOMAIN store[SaverOf(m)])
  BY <1>2 DEF Saved, FromPlace
<1> QED
  BY <1>1, <1>2

\* If what is kept and answered will be from its place, it is when the step is over.
LEMMA ApartNext ==
  ASSUME saver' = saver,
         \A s \in Savers : \A t \in DOMAIN store'[s] : WillBeFrom(store'[s][t], s, t),
         \A r \in DOMAIN req' :
           /\ WillBeFrom(req'[r].history, SaverOf(req'[r].model), req'[r].thread)
           /\ WillBeFrom(req'[r].reply, SaverOf(req'[r].model), req'[r].thread)
  PROVE  Apart'
<1>1. \A m : (SaverOf(m))' = SaverOf(m)
  BY DEF SaverOf
<1>2. ASSUME NEW s \in Savers, NEW t \in DOMAIN store'[s] PROVE FromPlace(store[s][t], s, t)'
  <2>1. WillBeFrom(store'[s][t], s, t)
    OBVIOUS
  <2> QED
    BY <1>1, <2>1 DEF FromPlace, WillBeFrom
<1>3. ASSUME NEW r \in DOMAIN req'
      PROVE  /\ FromPlace(req[r].history, SaverOf(req[r].model), req[r].thread)'
             /\ FromPlace(req[r].reply, SaverOf(req[r].model), req[r].thread)'
  BY <1>1 DEF FromPlace, WillBeFrom, SaverOf
<1>4. Savers' = Savers
  BY DEF Savers
<1> QED
  BY <1>2, <1>3, <1>4 DEF Apart

\* The messages a run works on are those it had, those saved on its thread, or its own.
LEMMA HistorySources ==
  ASSUME TypeOK, NEW r \in DOMAIN req, ProgressEffect(r)
  PROVE  LET h == req'[r].history
             saved == Saved(req[r].model, req[r].thread)
         IN  \A i \in DOMAIN h :
               \/ h[i].by = r /\ ~Waits(req'[r])
               \/ \E j \in DOMAIN req[r].history : h[i] = req[r].history[j]
               \/ \E j \in DOMAIN saved : h[i] = saved[j]
<1> DEFINE m == req[r].model
           u == req[r].thread
           h == req'[r].history
<1>1. CASE h = req[r].history
  BY <1>1
<1>2. CASE RunEffect(r)
  <2>1. ASSUME h = Saved(m, u) \o InputOf(r)
        PROVE  \A i \in DOMAIN h :
                 h[i].by = r \/ \E j \in DOMAIN Saved(m, u) : h[i] = Saved(m, u)[j]
    <3> DEFINE a == Saved(m, u)
               b == InputOf(r)
    <3>1. a \in Seq(Message) /\ b \in Seq(Message)
      BY RunTypes
    <3>2. \A j \in DOMAIN b : b[j].by = r
      BY DEF InputOf
    <3> HIDE DEF a, b
    <3>3. ASSUME NEW i \in DOMAIN (a \o b)
          PROVE  (\E j \in DOMAIN b : (a \o b)[i] = b[j])
                   \/ \E j \in DOMAIN a : (a \o b)[i] = a[j]
      BY <3>1
    <3> QED
      BY <2>1, <3>2, <3>3 DEF a, b
  <2>2. ASSUME h = Append(req[r].history, [by |-> r, n |-> Produced(r) + 1])
        PROVE  \A i \in DOMAIN h :
                 h[i].by = r \/ \E j \in DOMAIN req[r].history : h[i] = req[r].history[j]
    <3> DEFINE e == [by |-> r, n |-> Produced(r) + 1]
               g == req[r].history
    <3>1. g \in Seq(Message) /\ e.by = r
      BY RunTypes DEF Requests
    <3> HIDE DEF e, g
    <3>2. ASSUME NEW i \in DOMAIN Append(g, e)
          PROVE  Append(g, e)[i] = e \/ \E j \in DOMAIN g : Append(g, e)[i] = g[j]
      BY <3>1
    <3> QED
      BY <2>2, <3>1, <3>2 DEF e, g
  <2>3. ASSUME h = Selected(req[r].history, By(req[r].history, r))
        PROVE  \A i \in DOMAIN h : \E j \in DOMAIN req[r].history : h[i] = req[r].history[j]
    <3> DEFINE g == req[r].history
               I == By(g, r)
    <3>1. g \in Seq(Message) /\ I \in SUBSET DOMAIN g
      BY RunTypes DEF Requests, By
    <3> HIDE DEF g, I
    <3>2. \A n \in DOMAIN Selected(g, I) : \E i \in I : Selected(g, I)[n] = g[i]
      BY <3>1, SelectedType
    <3> QED
      BY <2>3, <3>1, <3>2 DEF g, I
  <2>4. ~Waits(req'[r])
    BY <1>2 DEF RunEffect, Waits
  <2> QED
    BY <1>2, <2>1, <2>2, <2>3, <2>4 DEF RunEffect
<1> QED
  BY <1>1, <1>2 DEF ProgressEffect, CountEffect, EndEffect

\* A reply is made of the messages its run works on.
LEMMA ReplySources ==
  ASSUME TypeOK, NEW r \in DOMAIN req, ProgressEffect(r)
  PROVE  LET a == req'[r].reply
         IN  \A i \in DOMAIN a :
               \/ a[i].by = r /\ ~Waits(req'[r])
               \/ \E j \in DOMAIN req[r].history : a[i] = req[r].history[j]
               \/ \E j \in DOMAIN req[r].reply : a[i] = req[r].reply[j]
<1>1. CASE req'[r].reply = req[r].reply
  BY <1>1
<1>2. CASE Produced(r) > 0 /\ req'[r].pc = "done" /\ req'[r].reply = Answer(r)
  <2>1. \A n \in DOMAIN Answer(r) :
          \/ Answer(r)[n].by = r
          \/ \E i \in DOMAIN req[r].history : Answer(r)[n] = req[r].history[i]
    BY <1>2, AnswerType
  <2>2. ~Waits(req'[r])
    BY <1>2 DEF Waits
  <2> QED
    BY <1>2, <2>1, <2>2
<1> QED
  BY <1>1, <1>2 DEF ProgressEffect, CountEffect, RunEffect, EndEffect

LEMMA ApartProgress ==
  ASSUME ApartInv, NEW r \in DOMAIN req, ProgressEffect(r)
  PROVE  Apart'
<1> DEFINE m == req[r].model
           u == req[r].thread
           h == req'[r].history
<1>0. TypeOK /\ Apart /\ Serving
  BY DEF ApartInv, TypeInv
<1>1. Stable
  BY <1>0, EffectsStable
<1>2. /\ req'[r].model = m /\ req'[r].thread = u /\ m \in Models
      /\ saver' = saver /\ DOMAIN req' = DOMAIN req
      /\ \A p \in DOMAIN req : p # r => req'[p] = req[p]
  BY <1>0, RunTypes DEF ProgressEffect, SameRequest, Requests
<1>3. /\ \A p \in DOMAIN req : WillBeFrom(req[p].history, SaverOf(req[p].model), req[p].thread)
      /\ \A p \in DOMAIN req : WillBeFrom(req[p].reply, SaverOf(req[p].model), req[p].thread)
      /\ \A s \in Savers : \A t \in DOMAIN store[s] : WillBeFrom(store[s][t], s, t)
  BY <1>0, <1>1, StaysFrom DEF Apart
<1>4. ~Waits(req'[r]) =>
        /\ r \in DOMAIN req' /\ req'[r].kind \in Posts
        /\ req'[r].thread = u /\ SaverOf(req'[r].model) = SaverOf(m)
  BY <1>0, <1>2 DEF ProgressEffect, Serving, SameRequest
<1>5. WillBeFrom(h, SaverOf(m), u)
  <2>1. \A i \in DOMAIN h :
          \/ h[i].by = r /\ ~Waits(req'[r])
          \/ \E j \in DOMAIN req[r].history : h[i] = req[r].history[j]
          \/ \E j \in DOMAIN Saved(m, u) : h[i] = Saved(m, u)[j]
    BY <1>0, HistorySources
  <2>2. WillBeFrom(Saved(m, u), SaverOf(m), u)
    <3>1. FromPlace(Saved(m, u), SaverOf(m), u)
      BY <1>0, <1>2, SavedFrom
    <3> QED
      BY <1>1, <3>1, StaysFrom
  <2>3. WillBeFrom(req[r].history, SaverOf(m), u)
    BY <1>3
  <2> HIDE DEF h, m, u
  <2> QED
    BY <1>4, <2>1, <2>2, <2>3 DEF WillBeFrom
<1>6. WillBeFrom(req'[r].reply, SaverOf(m), u)
  <2>1. \A i \in DOMAIN req'[r].reply :
          \/ req'[r].reply[i].by = r /\ ~Waits(req'[r])
          \/ \E j \in DOMAIN req[r].history : req'[r].reply[i] = req[r].history[j]
          \/ \E j \in DOMAIN req[r].reply : req'[r].reply[i] = req[r].reply[j]
    BY <1>0, ReplySources
  <2>2. WillBeFrom(req[r].history, SaverOf(m), u) /\ WillBeFrom(req[r].reply, SaverOf(m), u)
    BY <1>3
  <2> HIDE DEF m, u
  <2> QED
    BY <1>4, <2>1, <2>2 DEF WillBeFrom
<1>7. \A s \in Savers : \A t \in DOMAIN store'[s] : WillBeFrom(store'[s][t], s, t)
  <2>1. CASE store' = store
    BY <1>3, <2>1
  <2>2. CASE RunEffect(r)
    <3>1. Save(m, u, h)
      BY <2>2 DEF RunEffect
    <3> HIDE DEF h, m, u
    <3>2. \A s \in Savers :
              /\ DOMAIN store'[s] = DOMAIN store[s] \cup {x \in {u} : s = SaverOf(m)}
              /\ \A x \in DOMAIN store'[s] :
                   store'[s][x] = IF s = SaverOf(m) /\ x = u THEN h ELSE store[s][x]
      BY <1>0, <1>2, <3>1, SaveEffect
    <3> QED
      BY <1>3, <1>5, <3>2
  <2> QED
    BY <2>1, <2>2 DEF ProgressEffect, CountEffect, EndEffect
<1>8. \A p \in DOMAIN req' :
        /\ WillBeFrom(req'[p].history, SaverOf(req'[p].model), req'[p].thread)
        /\ WillBeFrom(req'[p].reply, SaverOf(req'[p].model), req'[p].thread)
  BY <1>2, <1>3, <1>5, <1>6
<1> QED
  BY <1>2, <1>7, <1>8, ApartNext

LEMMA ApartArrival ==
  ASSUME ApartInv, ArrivalEffect
  PROVE  Apart'
<1> DEFINE n == Len(req')
           q == req'[n]
<1>0. TypeOK /\ Apart
  BY DEF ApartInv, TypeInv
<1>1. Stable
  BY <1>0, EffectsStable
<1>2. /\ q.model \in Models /\ q.history = <<>> /\ saver' = saver
      /\ DOMAIN req' = DOMAIN req \cup {n}
      /\ \A p \in DOMAIN req : /\ req'[p].model = req[p].model /\ req'[p].thread = req[p].thread
                               /\ req'[p].history = req[p].history /\ req'[p].reply = req[p].reply
  BY DEF ArrivalEffect, Undisturbed, SameRequest
<1>3. /\ \A p \in DOMAIN req : WillBeFrom(req[p].history, SaverOf(req[p].model), req[p].thread)
      /\ \A p \in DOMAIN req : WillBeFrom(req[p].reply, SaverOf(req[p].model), req[p].thread)
      /\ \A s \in Savers : \A t \in DOMAIN store[s] : WillBeFrom(store[s][t], s, t)
  BY <1>0, <1>1, StaysFrom DEF Apart
<1>4. /\ q.reply = <<>> \/ q.reply = Output(Saved(q.model, q.thread))
      /\ store' = store \/ store' = Forgotten(q.model, q.thread)
  BY DEF ArrivalEffect, CreateEffect, GetEffect, DeleteEffect, UnknownEffect
<1> HIDE DEF q
<1>5. WillBeFrom(q.reply, SaverOf(q.model), q.thread) /\ WillBeFrom(q.history, SaverOf(q.model), q.thread)
  <2>1. WillBeFrom(<<>>, SaverOf(q.model), q.thread)
    BY DEF WillBeFrom
  <2>2. CASE q.reply = Output(Saved(q.model, q.thread))
    <3> DEFINE a == Saved(q.model, q.thread)
    <3>1. a \in Seq(Message) /\ FromPlace(a, SaverOf(q.model), q.thread)
      BY <1>0, <1>2, SavedType, SavedFrom
    <3>2. WillBeFrom(a, SaverOf(q.model), q.thread)
      BY <1>1, <3>1, StaysFrom
    <3> HIDE DEF a
    <3>3. \A i \in DOMAIN Output(a) : \E j \in DOMAIN a : Output(a)[i] = a[j]
      BY <3>1, OutputType
    <3>4. WillBeFrom(Output(a), SaverOf(q.model), q.thread)
      BY <3>2, <3>3 DEF WillBeFrom
    <3> QED
      BY <1>2, <2>1, <2>2, <3>4 DEF a
  <2> QED
    BY <1>2, <1>4, <2>1, <2>2
<1>6. \A s \in Savers : \A t \in DOMAIN store'[s] : WillBeFrom(store'[s][t], s, t)
  <2>1. CASE store' = store
    BY <1>3, <2>1
  <2>2. CASE store' = Forgotten(q.model, q.thread)
    <3>1. \A s \in Savers :
              /\ DOMAIN store'[s] = DOMAIN store[s] \ {x \in {q.thread} : s = SaverOf(q.model)}
              /\ \A x \in DOMAIN store'[s] : store'[s][x] = store[s][x]
      BY <1>0, <1>2, <2>2, ForgottenEffect
    <3> QED
      BY <1>3, <3>1
  <2> QED
    BY <1>4, <2>1, <2>2
<1>7. \A r \in DOMAIN req' :
        /\ WillBeFrom(req'[r].history, SaverOf(req'[r].model), req'[r].thread)
        /\ WillBeFrom(req'[r].reply, SaverOf(req'[r].model), req'[r].thread)
  BY <1>2, <1>3, <1>5 DEF q
<1> QED
  BY <1>2, <1>6, <1>7, ApartNext

LEMMA ApartCrash ==
  ASSUME ApartInv, CrashEffect
  PROVE  Apart'
<1>0. TypeOK /\ Apart
  BY DEF ApartInv, TypeInv
<1>1. Stable
  BY <1>0, EffectsStable
<1>2. /\ \A p \in DOMAIN req : WillBeFrom(req[p].history, SaverOf(req[p].model), req[p].thread)
      /\ \A p \in DOMAIN req : WillBeFrom(req[p].reply, SaverOf(req[p].model), req[p].thread)
      /\ \A s \in Savers : \A t \in DOMAIN store[s] : WillBeFrom(store[s][t], s, t)
  BY <1>0, <1>1, StaysFrom DEF Apart
<1>3. ASSUME NEW p \in DOMAIN req
      PROVE  /\ req'[p].model = req[p].model /\ req'[p].thread = req[p].thread
             /\ req'[p].history = req[p].history /\ req'[p].reply = req[p].reply
  <2>1. req[p] \in Requests
    BY <1>0, RunTypes
  <2> QED
    BY <2>1 DEF CrashEffect, Requests
<1>4. \A s \in Savers : \A t \in DOMAIN store'[s] : WillBeFrom(store'[s][t], s, t)
  <2>1. DOMAIN <<>> = {}
    OBVIOUS
  <2> QED
    BY <1>2, <2>1 DEF CrashEffect
<1>5. saver' = saver /\ DOMAIN req' = DOMAIN req
  BY DEF CrashEffect
<1> QED
  BY <1>2, <1>3, <1>4, <1>5, ApartNext

\* A thread handed out is new, and every other request of the client names one.
LEMMA FreshArrival ==
  ASSUME ApartInv, ArrivalEffect
  PROVE  Fresh'
<1> DEFINE n == Len(req')
           q == req'[n]
<1>0. TypeOK /\ Serving /\ Fresh
  BY DEF ApartInv, TypeInv
<1>1. /\ q.history = <<>> /\ DOMAIN req' = DOMAIN req \cup {n}
      /\ \A p \in DOMAIN req : /\ SameRequest(req[p], req'[p])
                               /\ req'[p].history = req[p].history /\ req'[p].reply = req[p].reply
  BY DEF ArrivalEffect, Undisturbed
<1>2. \A p \in DOMAIN req : p < n
  <2>1. req \in Seq(Requests) /\ n = Len(req) + 1
    BY <1>0 DEF ArrivalEffect, TypeOK
  <2> QED
    BY <2>1
<1>3. None \notin Threads
  <2>1. Threads \subseteq [uuid : Nat, as : {"uuid", "conv", "hex", "text"}]
    BY <1>0 DEF Threads, TypeOK
  <2> QED
    BY <2>1, NoneIsNoThread
<1>4. Anonymous(q) /\ q.kind \in Posts => \A t \in Threads : q.thread # t
  BY <1>3 DEF ArrivalEffect, CreateEffect, GetEffect, DeleteEffect, UnknownEffect,
         Posts, Chats, Streams
<1>5. Anonymous(q) /\ q.kind \notin Posts => q.reply = <<>>
  BY <1>3 DEF Anonymous, ArrivalEffect, CreateEffect, GetEffect, DeleteEffect, UnknownEffect
<1> HIDE DEF q, n
<1>6. ASSUME NEW p \in DOMAIN req', NEW r \in DOMAIN req',
             p < r, Anonymous(req'[r]), req'[r].kind \in Posts, req'[p].kind \in Posts
      PROVE  req'[p].thread # req'[r].thread
  <2>1. CASE r \in DOMAIN req
    <3>1. p \in DOMAIN req
      <4>1. r < n /\ r \in Nat /\ n \in Nat
        BY <1>0, <1>2, <2>1 DEF ArrivalEffect, TypeOK, n
      <4> QED
        BY <1>1, <1>6, <4>1
    <3> QED
      BY <1>0, <1>1, <1>6, <2>1, <3>1 DEF Fresh, SameRequest, Anonymous
  <2>2. CASE r = n
    <3>1. p \in DOMAIN req
      <4>1. n \in Nat
        BY DEF ArrivalEffect, n
      <4> QED
        BY <1>1, <1>6, <2>2, <4>1
    <3>2. req'[p].thread \in Threads
      BY <1>0, <1>1, <1>6, <3>1 DEF Serving, SameRequest
    <3>3. \A t \in Threads : req'[r].thread # t
      BY <1>4, <1>6, <2>2 DEF q
    <3> QED
      BY <3>2, <3>3
  <2> QED
    BY <1>1, <2>1, <2>2
<1>7. ASSUME NEW r \in DOMAIN req', Anonymous(req'[r]), req'[r].kind \notin Posts
      PROVE  req'[r].history = <<>> /\ req'[r].reply = <<>>
  <2>1. CASE r \in DOMAIN req
    BY <1>0, <1>1, <1>7, <2>1 DEF Fresh, SameRequest, Anonymous
  <2>2. CASE r = n
    BY <1>1, <1>5, <1>7, <2>2 DEF q
  <2> QED
    BY <1>1, <2>1, <2>2
<1> QED
  BY <1>6, <1>7 DEF Fresh

LEMMA ApartStep == ApartInv /\ [Next]_vars => ApartInv'
<1> SUFFICES ASSUME ApartInv, [Next]_vars PROVE ApartInv'
  OBVIOUS
<1>0. TypeOK /\ TypeInv /\ Apart /\ Fresh /\ Serving
  BY DEF ApartInv, TypeInv
<1>1. TypeInv'
  BY <1>0, TypeStep
<1>2. CASE SetupEffect
  <2>1. CASE mounted
    <3>1. saver' = saver /\ store' = store /\ req' = req
      BY <1>2, <2>1 DEF SetupEffect
    <3>2. Stable
      BY <3>1 DEF Stable, SameRequest
    <3>3. Apart'
      <4>1. /\ \A s \in Savers : \A t \in DOMAIN store'[s] : WillBeFrom(store'[s][t], s, t)
            /\ \A r \in DOMAIN req' :
                 /\ WillBeFrom(req'[r].history, SaverOf(req'[r].model), req'[r].thread)
                 /\ WillBeFrom(req'[r].reply, SaverOf(req'[r].model), req'[r].thread)
        BY <1>0, <3>1, <3>2, StaysFrom DEF Apart
      <4> QED
        BY <3>1, <4>1, ApartNext
    <3>4. Fresh'
      BY <1>0, <3>1 DEF Fresh
    <3> QED
      BY <1>1, <3>3, <3>4 DEF ApartInv
  <2>2. CASE ~mounted
    <3>1. store' = store /\ req' = req /\ DOMAIN req = {} /\ \A s \in Savers : DOMAIN store[s] = {}
      BY <1>0, <1>2, <2>2 DEF SetupEffect, Serving
    <3> QED
      BY <1>1, <3>1 DEF ApartInv, Apart, Fresh, FromPlace, Savers
  <2> QED
    BY <2>1, <2>2
<1>3. CASE ArrivalEffect
  BY <1>1, <1>3, ApartArrival, FreshArrival DEF ApartInv
<1>4. CASE CrashEffect
  <2>1. ASSUME NEW p \in DOMAIN req
        PROVE  /\ SameRequest(req[p], req'[p])
               /\ req'[p].history = req[p].history /\ req'[p].reply = req[p].reply
    <3>1. req[p] \in Requests
      BY <1>0, RunTypes
    <3> QED
      BY <1>4, <3>1 DEF CrashEffect, Requests, SameRequest
  <2>2. DOMAIN req' = DOMAIN req
    BY <1>4 DEF CrashEffect
  <2>3. Fresh'
    BY <1>0, <2>1, <2>2 DEF Fresh, SameRequest, Anonymous
  <2> QED
    BY <1>1, <1>4, <2>3, ApartCrash DEF ApartInv
<1>5. ASSUME NEW r \in DOMAIN req, ProgressEffect(r) PROVE ApartInv'
  <2>1. DOMAIN req' = DOMAIN req /\ \A p \in DOMAIN req : SameRequest(req[p], req'[p])
    BY <1>5 DEF ProgressEffect, SameRequest
  <2>2. \A p \in DOMAIN req : req[p].kind \notin Posts =>
          req'[p].history = req[p].history /\ req'[p].reply = req[p].reply
    BY <1>0, <1>5 DEF ProgressEffect, Serving
  <2>3. Fresh'
    BY <1>0, <2>1, <2>2 DEF Fresh, SameRequest, Anonymous
  <2> QED
    BY <1>1, <1>5, <2>3, ApartProgress DEF ApartInv
<1> QED
  BY <1>0, <1>2, <1>3, <1>4, <1>5, StepKinds

LEMMA InitApart == Init => ApartInv
<1> SUFFICES ASSUME Init PROVE ApartInv
  OBVIOUS
<1>1. DOMAIN req = {} /\ \A s \in Savers : DOMAIN store[s] = {}
  BY DEF Init
<1> QED
  BY <1>1, InitTypes DEF ApartInv, Apart, Fresh

\* Conversations never mix: whatever overlaps, fails, is deleted or lost in a crash, a
\* run is given and a reply contains nothing from another thread or checkpointer, and
\* nothing older when the request named no conversation.
THEOREM ConversationsApart == Spec => []Isolated
  BY InitApart, ApartStep, ApartImplies, PTL DEF Spec

-----------------------------------------------------------------------------
(* What a thread holds after a step.                                       *)

SavedNext(m, t) ==
  IF SaverOf(m) # None /\ t \in DOMAIN store'[SaverOf(m)] THEN store'[SaverOf(m)][t] ELSE <<>>

\* A run saves what it works on in its own place.
LEMMA SavedProgress ==
  ASSUME TypeOK, NEW r \in DOMAIN req, ProgressEffect(r), NEW m \in Models, NEW t
  PROVE  SavedNext(m, t) =
           IF /\ RunEffect(r) /\ SaverOf(m) # None
              /\ SaverOf(m) = SaverOf(req[r].model) /\ t = req[r].thread
           THEN req'[r].history ELSE Saved(m, t)
<1>1. CASE RunEffect(r)
  <2> DEFINE a == req[r].model
             u == req[r].thread
             h == req'[r].history
  <2>1. Save(a, u, h) /\ a \in Models
    BY <1>1, RunTypes DEF RunEffect, Requests
  <2>2. SaverOf(m) # None => SaverOf(m) \in Savers
    BY SaverType
  <2> HIDE DEF a, u, h
  <2>3. \A s \in Savers :
              /\ DOMAIN store'[s] = DOMAIN store[s] \cup {x \in {u} : s = SaverOf(a)}
              /\ \A x \in DOMAIN store'[s] :
                   store'[s][x] = IF s = SaverOf(a) /\ x = u THEN h ELSE store[s][x]
    BY <2>1, SaveEffect
  <2>4. SavedNext(m, t) = IF SaverOf(m) # None /\ SaverOf(m) = SaverOf(a) /\ t = u
                          THEN h ELSE Saved(m, t)
    BY <2>2, <2>3 DEF SavedNext, Saved
  <2> QED
    BY <1>1, <2>4 DEF a, u, h
<1>2. CASE ~RunEffect(r)
  <2>1. store' = store
    BY <1>2 DEF ProgressEffect, CountEffect, EndEffect
  <2> QED
    BY <1>2, <2>1 DEF SavedNext, Saved
<1> QED
  BY <1>1, <1>2

\* A request that arrives saves nothing, but a deletion empties its place.
LEMMA SavedArrival ==
  ASSUME TypeOK, ArrivalEffect, NEW m \in Models, NEW t
  PROVE  LET q == req'[Len(req')]
         IN  SavedNext(m, t) =
               IF q.kind = "delete" /\ SaverOf(m) = SaverOf(q.model) /\ t = q.thread
               THEN <<>> ELSE Saved(m, t)
<1> DEFINE q == req'[Len(req')]
<1>1. q.model \in Models
  BY DEF ArrivalEffect
<1>2. CASE q.kind # "delete"
  <2>1. store' = store
    BY <1>2 DEF ArrivalEffect, CreateEffect, GetEffect, DeleteEffect, UnknownEffect
  <2> QED
    BY <1>2, <2>1 DEF SavedNext, Saved
<1>3. CASE q.kind = "delete"
  <2>1. store' = Forgotten(q.model, q.thread)
    BY <1>3 DEF ArrivalEffect, CreateEffect, GetEffect, DeleteEffect, UnknownEffect,
           Posts, Chats, Streams
  <2>2. SaverOf(m) # None => SaverOf(m) \in Savers
    BY SaverType
  <2> HIDE DEF q
  <2>3. \A s \in Savers :
              /\ DOMAIN store'[s] = DOMAIN store[s] \ {x \in {q.thread} : s = SaverOf(q.model)}
              /\ \A x \in DOMAIN store'[s] : store'[s][x] = store[s][x]
    BY <1>1, <2>1, ForgottenEffect
  <2>4. SavedNext(m, t) = IF SaverOf(m) = SaverOf(q.model) /\ t = q.thread
                          THEN <<>> ELSE Saved(m, t)
    BY <2>2, <2>3 DEF SavedNext, Saved
  <2> QED
    BY <1>3, <2>4 DEF q
<1> QED
  BY <1>2, <1>3

\* A crash loses what was kept in memory.
LEMMA SavedCrash ==
  ASSUME TypeOK, CrashEffect, NEW m \in Models, NEW t
  PROVE  SavedNext(m, t) = IF SaverOf(m) \in Graphs THEN <<>> ELSE Saved(m, t)
<1>1. SaverOf(m) # None => SaverOf(m) \in Savers
  BY SaverType
<1>2. DOMAIN <<>> = {}
  OBVIOUS
<1>3. \A s \in Savers : store'[s] = IF s \in Graphs THEN <<>> ELSE store[s]
  BY DEF CrashEffect
<1> QED
  BY <1>1, <1>2, <1>3 DEF SavedNext, Saved

-----------------------------------------------------------------------------
(* What was deleted stays away.                                            *)

Deleted(d) ==
  Succeeded(d) /\ req[d].kind = "delete" /\ req[d].alone /\ SaverOf(req[d].model) # None
Later(msgs, d) == \A i \in DOMAIN msgs : msgs[i].by > d

\* Nobody who was there before the deletion is still running, so all that is saved,
\* worked on or answered there afterwards is from later requests.
AwayFrom(d) ==
  /\ \A r \in DOMAIN req : SamePlace(req[r], req[d]) /\ InProgress(req[r]) => r > d
  /\ Later(Saved(req[d].model, req[d].thread), d)
  /\ \A r \in DOMAIN req : r > d /\ SamePlace(req[r], req[d]) =>
       Later(req[r].history, d) /\ Later(req[r].reply, d)
Away == \A d \in DOMAIN req : Deleted(d) => AwayFrom(d)

AwayInv == TypeInv /\ Away

LEMMA AwayImplies == AwayInv => DeletedStays
<1> SUFFICES ASSUME AwayInv, NEW d \in DOMAIN req, Deleted(d)
             PROVE  /\ Later(Saved(req[d].model, req[d].thread), d)
                    /\ \A r \in (d + 1) .. Len(req) :
                         SamePlace(req[r], req[d]) => Later(req[r].reply, d)
  BY DEF DeletedStays, Deleted, Later
<1>1. AwayFrom(d)
  BY DEF AwayInv, Away
<1>2. d \in Nat /\ DOMAIN req = 1 .. Len(req) /\ Len(req) \in Nat
  BY DEF AwayInv, TypeInv, TypeOK
<1>3. ASSUME NEW r \in (d + 1) .. Len(req) PROVE r \in DOMAIN req /\ r > d
  BY <1>2
<1> QED
  BY <1>1, <1>3 DEF AwayFrom

\* The conversation of request d after a step.
LEMMA AwayNext ==
  ASSUME NEW d \in DOMAIN req, Stable,
         \A r \in DOMAIN req' : SamePlace(req'[r], req[d]) /\ InProgress(req'[r]) => r > d,
         Later(SavedNext(req[d].model, req[d].thread), d),
         \A r \in DOMAIN req' : r > d /\ SamePlace(req'[r], req[d]) =>
           Later(req'[r].history, d) /\ Later(req'[r].reply, d)
  PROVE  AwayFrom(d)'
<1>1. req'[d].model = req[d].model /\ req'[d].thread = req[d].thread
  BY DEF Stable, SameRequest
<1>2. \A m : (SaverOf(m))' = SaverOf(m)
  BY DEF Stable, SaverOf
<1>3. Later(Saved(req[d].model, req[d].thread), d)'
  BY <1>1, <1>2 DEF SavedNext, Saved, Later
<1>4. \A r \in DOMAIN req' : SamePlace(req[r], req[d])' <=> SamePlace(req'[r], req[d])
  BY <1>1, <1>2 DEF SamePlace
<1> QED
  BY <1>3, <1>4 DEF AwayFrom, Later

LEMMA AwayProgress ==
  ASSUME AwayInv, NEW r \in DOMAIN req, ProgressEffect(r)
  PROVE  Away'
<1>0. TypeOK /\ Serving /\ Away
  BY DEF AwayInv, TypeInv
<1>1. Stable
  BY <1>0, EffectsStable
<1>2. /\ DOMAIN req' = DOMAIN req /\ saver' = saver
      /\ \A p \in DOMAIN req : p # r => req'[p] = req[p]
      /\ SameRequest(req[r], req'[r]) /\ InProgress(req[r]) /\ req[r].kind \in Posts
  BY <1>0 DEF ProgressEffect, Serving
<1> SUFFICES ASSUME NEW d \in DOMAIN req, Deleted(d)' PROVE AwayFrom(d)'
  BY <1>2 DEF Away
<1>3. d # r
  BY <1>2 DEF Deleted, SameRequest, Posts, Chats, Streams
<1>4. Deleted(d) /\ AwayFrom(d) /\ req'[d] = req[d] /\ d \in Nat
  <2>1. Deleted(d)
    BY <1>2, <1>3 DEF Deleted, Succeeded, SaverOf
  <2> QED
    BY <1>0, <1>2, <1>3, <2>1, RunTypes DEF Away
<1>5. req[d].model \in Models /\ req[r].model \in Models
  BY <1>0, RunTypes DEF Requests
<1>6. SamePlace(req[r], req[d]) => r > d
  BY <1>2, <1>4 DEF AwayFrom
<1>7. \A p \in DOMAIN req : SamePlace(req'[p], req[d]) <=> SamePlace(req[p], req[d])
  BY <1>2 DEF SamePlace, SameRequest
<1>8. SamePlace(req[r], req[d]) => Later(req'[r].history, d)
  <2>1. ASSUME SamePlace(req[r], req[d]) PROVE Later(req'[r].history, d)
    <3>1. \A i \in DOMAIN req'[r].history :
            \/ req'[r].history[i].by = r
            \/ \E j \in DOMAIN req[r].history : req'[r].history[i] = req[r].history[j]
            \/ \E j \in DOMAIN Saved(req[r].model, req[r].thread) :
                 req'[r].history[i] = Saved(req[r].model, req[r].thread)[j]
      BY <1>0, HistorySources
    <3>2. Saved(req[r].model, req[r].thread) = Saved(req[d].model, req[d].thread)
      BY <2>1 DEF SamePlace, Saved
    <3>3. Later(req[r].history, d) /\ Later(Saved(req[d].model, req[d].thread), d) /\ r > d
      BY <1>4, <1>6, <2>1 DEF AwayFrom
    <3> QED
      BY <3>1, <3>2, <3>3 DEF Later
  <2> QED
    BY <2>1
<1>9. SamePlace(req[r], req[d]) => Later(req'[r].reply, d)
  <2>1. ASSUME SamePlace(req[r], req[d]) PROVE Later(req'[r].reply, d)
    <3>1. \A i \in DOMAIN req'[r].reply :
            \/ req'[r].reply[i].by = r
            \/ \E j \in DOMAIN req[r].history : req'[r].reply[i] = req[r].history[j]
            \/ \E j \in DOMAIN req[r].reply : req'[r].reply[i] = req[r].reply[j]
      BY <1>0, ReplySources
    <3>2. Later(req[r].history, d) /\ Later(req[r].reply, d) /\ r > d
      BY <1>4, <1>6, <2>1 DEF AwayFrom
    <3> QED
      BY <3>1, <3>2 DEF Later
  <2> QED
    BY <2>1
<1>10. Later(SavedNext(req[d].model, req[d].thread), d)
  <2>1. SavedNext(req[d].model, req[d].thread) =
           IF /\ RunEffect(r) /\ SaverOf(req[d].model) # None
              /\ SaverOf(req[d].model) = SaverOf(req[r].model) /\ req[d].thread = req[r].thread
           THEN req'[r].history ELSE Saved(req[d].model, req[d].thread)
    BY <1>0, <1>5, SavedProgress
  <2>2. Later(Saved(req[d].model, req[d].thread), d)
    BY <1>4 DEF AwayFrom
  <2> QED
    BY <1>8, <2>1, <2>2 DEF SamePlace
<1>11. \A p \in DOMAIN req' : SamePlace(req'[p], req[d]) /\ InProgress(req'[p]) => p > d
  BY <1>2, <1>4, <1>6, <1>7 DEF AwayFrom
<1>12. \A p \in DOMAIN req' : p > d /\ SamePlace(req'[p], req[d]) =>
         Later(req'[p].history, d) /\ Later(req'[p].reply, d)
  BY <1>2, <1>4, <1>7, <1>8, <1>9 DEF AwayFrom
<1> QED
  BY <1>1, <1>10, <1>11, <1>12, AwayNext

LEMMA AwayArrival ==
  ASSUME AwayInv, ArrivalEffect
  PROVE  Away'
<1>n. PICK n : n = Len(req')
  OBVIOUS
<1> DEFINE q == req'[n]
<1>0. TypeOK /\ Serving /\ Away
  BY DEF AwayInv, TypeInv
<1>1. Stable
  BY <1>0, EffectsStable
<1>2. /\ DOMAIN req' = DOMAIN req \cup {n} /\ saver' = saver /\ q.model \in Models
      /\ \A p \in DOMAIN req : Undisturbed(p)
      /\ q.history = <<>> /\ n \notin DOMAIN req
  BY <1>n DEF ArrivalEffect
<1>3. \A p \in DOMAIN req : p < n /\ p \in Nat
  <2>1. req \in Seq(Requests) /\ n = Len(req) + 1
    BY <1>n, <1>0 DEF ArrivalEffect, TypeOK
  <2> QED
    BY <2>1
<1>4. q.reply = <<>> \/ (q.kind = "get" /\ q.reply = Output(Saved(q.model, q.thread)))
  BY <1>n DEF ArrivalEffect, CreateEffect, GetEffect, DeleteEffect, UnknownEffect
<1>5. q.kind = "delete" => Joins /\ ~InProgress(q)
  BY <1>n DEF ArrivalEffect, CreateEffect, GetEffect, DeleteEffect, UnknownEffect,
         Posts, Chats, Streams, InProgress
<1> HIDE DEF q
<1>6. ASSUME NEW d \in DOMAIN req, Deleted(d)' PROVE AwayFrom(d)'
  <2>1. SameRequest(req[d], req'[d]) /\ Deleted(d) /\ AwayFrom(d) /\ req[d].model \in Models
    <3>1. Deleted(d) /\ SameRequest(req[d], req'[d])
      BY <1>2, <1>6 DEF Undisturbed, SameRequest, Deleted, Succeeded, SaverOf
    <3>2. AwayFrom(d)
      BY <1>0, <3>1 DEF Away
    <3> QED
      BY <1>0, <3>1, <3>2, RunTypes DEF Requests
  <2>2. SavedNext(req[d].model, req[d].thread) \in {<<>>, Saved(req[d].model, req[d].thread)}
    BY <1>0, <2>1, SavedArrival
  <2>3. Later(SavedNext(req[d].model, req[d].thread), d)
    BY <2>1, <2>2 DEF AwayFrom, Later
  <2>4. SamePlace(q, req[d]) => Later(q.reply, d)
    <3>1. CASE q.reply = <<>>
      BY <3>1 DEF Later
    <3>2. ASSUME q.reply = Output(Saved(q.model, q.thread)), SamePlace(q, req[d])
          PROVE  Later(q.reply, d)
      <4> DEFINE a == Saved(req[d].model, req[d].thread)
      <4>1. Saved(q.model, q.thread) = a
        BY <3>2 DEF SamePlace, Saved
      <4>2. a \in Seq(Message) /\ Later(a, d)
        BY <1>0, <2>1, SavedType DEF AwayFrom
      <4> HIDE DEF a
      <4>3. \A i \in DOMAIN Output(a) : \E j \in DOMAIN a : Output(a)[i] = a[j]
        BY <4>2, OutputType
      <4> QED
        BY <3>2, <4>1, <4>2, <4>3 DEF Later
    <3> QED
      BY <1>4, <3>1, <3>2
  <2>5. Later(q.history, d)
    BY <1>2 DEF Later, q
  <2>6. \A p \in DOMAIN req : /\ SamePlace(req'[p], req[d]) <=> SamePlace(req[p], req[d])
                              /\ InProgress(req'[p]) <=> InProgress(req[p])
                              /\ req'[p].history = req[p].history /\ req'[p].reply = req[p].reply
    BY <1>2 DEF Undisturbed, SameRequest, SamePlace, InProgress
  <2>7. \A r \in DOMAIN req' : SamePlace(req'[r], req[d]) /\ InProgress(req'[r]) => r > d
    BY <1>2, <1>3, <2>1, <2>6 DEF AwayFrom
  <2>8. \A r \in DOMAIN req' : r > d /\ SamePlace(req'[r], req[d]) =>
           Later(req'[r].history, d) /\ Later(req'[r].reply, d)
    BY <1>2, <2>1, <2>4, <2>5, <2>6 DEF AwayFrom, q
  <2> QED
    BY <1>1, <2>3, <2>7, <2>8, AwayNext
<1>7. ASSUME Deleted(n)' PROVE AwayFrom(n)'
  <2>1. q.kind = "delete" /\ q.alone
    BY <1>7 DEF Deleted, q
  <2>2. \A p \in DOMAIN req : ~(InProgress(req[p]) /\ SamePlace(req[p], q))
    BY <1>n, <1>5, <2>1 DEF Joins, q
  <2>3. \A m : (SaverOf(m))' = SaverOf(m)
    BY <1>2 DEF SaverOf
  <2>4. \A p \in DOMAIN req : ~(InProgress(req'[p]) /\ SamePlace(req'[p], q))
    BY <1>2, <2>2 DEF Undisturbed, SameRequest, InProgress, SamePlace
  <2>5. ~InProgress(q)
    BY <1>5, <2>1
  <2>6. \A p \in DOMAIN req' : ~(p > n)
    BY <1>n, <1>2, <1>3, <1>0 DEF ArrivalEffect
  <2>7. SavedNext(q.model, q.thread) = <<>>
    BY <1>n, <1>0, <1>2, <2>1, SavedArrival DEF q
  <2>8. Later(Saved(req[n].model, req[n].thread), n)'
    BY <2>3, <2>7 DEF SavedNext, Saved, Later, q
  <2>9. \A p \in DOMAIN req' : ~(SamePlace(req[p], req[n])' /\ InProgress(req'[p]))
    BY <1>2, <2>3, <2>4, <2>5 DEF SamePlace, q
  <2> QED
    BY <2>6, <2>8, <2>9 DEF AwayFrom
<1> QED
  BY <1>2, <1>6, <1>7 DEF Away

LEMMA AwayCrash ==
  ASSUME AwayInv, CrashEffect
  PROVE  Away'
<1>0. TypeOK /\ Away
  BY DEF AwayInv, TypeInv
<1>1. Stable /\ saver' = saver /\ DOMAIN req' = DOMAIN req
  BY <1>0, EffectsStable DEF CrashEffect
<1>2. ASSUME NEW p \in DOMAIN req
      PROVE  /\ ~InProgress(req'[p]) /\ SameRequest(req[p], req'[p])
             /\ req'[p].history = req[p].history /\ req'[p].reply = req[p].reply
             /\ req'[p].pc = "done" => req'[p] = req[p]
  <2>1. req[p] \in Requests
    BY <1>0, RunTypes
  <2> QED
    BY <2>1 DEF CrashEffect, Requests, SameRequest, InProgress
<1> SUFFICES ASSUME NEW d \in DOMAIN req, Deleted(d)' PROVE AwayFrom(d)'
  BY <1>1 DEF Away
<1>3. Deleted(d) /\ AwayFrom(d) /\ req[d].model \in Models
  <2>1. Deleted(d)
    BY <1>1, <1>2 DEF Deleted, Succeeded, SaverOf
  <2> QED
    BY <1>0, <2>1, RunTypes DEF Away, Requests
<1>4. SavedNext(req[d].model, req[d].thread) \in {<<>>, Saved(req[d].model, req[d].thread)}
  BY <1>0, <1>3, SavedCrash
<1>5. Later(SavedNext(req[d].model, req[d].thread), d)
  BY <1>3, <1>4 DEF AwayFrom, Later
<1>6. \A r \in DOMAIN req' : r > d /\ SamePlace(req'[r], req[d]) =>
         Later(req'[r].history, d) /\ Later(req'[r].reply, d)
  BY <1>1, <1>2, <1>3 DEF AwayFrom, SamePlace, SameRequest
<1> QED
  BY <1>1, <1>2, <1>5, <1>6, AwayNext

LEMMA AwayStep == AwayInv /\ [Next]_vars => AwayInv'
<1> SUFFICES ASSUME AwayInv, [Next]_vars PROVE AwayInv'
  OBVIOUS
<1>0. TypeOK /\ TypeInv /\ Away /\ Serving
  BY DEF AwayInv, TypeInv
<1>1. TypeInv'
  BY <1>0, TypeStep
<1>2. CASE SetupEffect
  <2>1. CASE mounted
    <3>1. saver' = saver /\ store' = store /\ req' = req
      BY <1>2, <2>1 DEF SetupEffect
    <3>2. \A m : (SaverOf(m))' = SaverOf(m)
      BY <3>1 DEF SaverOf
    <3>3. \A d : /\ Deleted(d)' <=> Deleted(d)
                 /\ AwayFrom(d)' <=> AwayFrom(d)
      BY <3>1, <3>2 DEF Deleted, Succeeded, AwayFrom, SamePlace, InProgress, Later, Saved
    <3> QED
      BY <1>0, <1>1, <3>1, <3>3 DEF AwayInv, Away
  <2>2. CASE ~mounted
    <3>1. req' = req /\ DOMAIN req = {}
      BY <1>0, <1>2, <2>2 DEF SetupEffect, Serving
    <3> QED
      BY <1>1, <3>1 DEF AwayInv, Away
  <2> QED
    BY <2>1, <2>2
<1>3. CASE ArrivalEffect
  BY <1>1, <1>3, AwayArrival DEF AwayInv
<1>4. CASE CrashEffect
  BY <1>1, <1>4, AwayCrash DEF AwayInv
<1>5. ASSUME NEW r \in DOMAIN req, ProgressEffect(r) PROVE AwayInv'
  BY <1>1, <1>5, AwayProgress DEF AwayInv
<1> QED
  BY <1>0, <1>2, <1>3, <1>4, <1>5, StepKinds

\* What was deleted while nothing was running on it does not come back, in the store
\* or in any later reply.
THEOREM DeletedStaysAway == Spec => []DeletedStays
<1>1. Init => AwayInv
  <2> SUFFICES ASSUME Init PROVE AwayInv
    OBVIOUS
  <2>1. DOMAIN req = {}
    BY DEF Init
  <2> QED
    BY <2>1, InitTypes DEF AwayInv, Away
<1> QED
  BY <1>1, AwayStep, AwayImplies, PTL DEF Spec

-----------------------------------------------------------------------------
(* Turns.                                                                  *)

\* The turn of request r, its input and p messages produced, stands in msgs after k
\* others, and no other message is of it.
Stands(msgs, r, input, k, p) ==
  /\ k + Len(input) + p <= Len(msgs)
  /\ \A i \in DOMAIN msgs : msgs[i].by = r <=> i \in (k + 1) .. (k + Len(input) + p)
  /\ \A j \in DOMAIN input : msgs[k + j] = [by |-> r, n |-> input[j]]
  /\ \A j \in 1 .. p : msgs[k + Len(input) + j] = [by |-> r, n |-> j]

LEMMA InputShape ==
  ASSUME NEW input \in Inputs
  PROVE  /\ input \in Seq(Int) /\ DOMAIN input = 1 .. Len(input) /\ Len(input) \in {1, 2}
         /\ \A j \in DOMAIN input : input[j] \in Int /\ input[j] <= 0
<1>1. input = << 0 >> \/ input = <<-1, 0>>
  BY InputsAssumption
<1>2. CASE input = << 0 >>
  BY <1>2
<1>3. CASE input = <<-1, 0>>
  BY <1>3
<1> QED
  BY <1>1, <1>2, <1>3

\* The turn of r stands after k messages: where its input, of length l, and its own
\* messages are.
StandsAt(msgs, r, input, k, l, p) ==
  /\ DOMAIN msgs = 1 .. Len(msgs) /\ Len(msgs) \in Nat /\ k + l + p <= Len(msgs)
  /\ \A i \in DOMAIN msgs : msgs[i].by = r <=> i \in (k + 1) .. (k + l + p)
  /\ \A j \in 1 .. l : msgs[k + j] = [by |-> r, n |-> input[j]]
  /\ \A j \in 1 .. p : msgs[k + l + j] = [by |-> r, n |-> j]

LEMMA StandsIsAt ==
  ASSUME NEW msgs \in Seq(Message), NEW r, NEW input \in Inputs, NEW k, NEW p
  PROVE  Stands(msgs, r, input, k, p) <=> StandsAt(msgs, r, input, k, Len(input), p)
<1>1. DOMAIN msgs = 1 .. Len(msgs) /\ Len(msgs) \in Nat
  OBVIOUS
<1>2. DOMAIN input = 1 .. Len(input)
  BY InputShape
<1> QED
  BY <1>1, <1>2 DEF Stands, StandsAt

\* The messages a run has produced are counted right.
LEMMA StandsProduced ==
  ASSUME NEW msgs \in Seq(Message), NEW r, NEW input \in Inputs, NEW k \in Nat, NEW p \in Nat,
         Stands(msgs, r, input, k, p)
  PROVE  Cardinality({i \in By(msgs, r) : msgs[i].n > 0}) = p
<1> DEFINE l == Len(input)
           I == {i \in By(msgs, r) : msgs[i].n > 0}
<1>1. l \in Nat /\ DOMAIN input = 1 .. l /\ \A j \in DOMAIN input : input[j] \in Int /\ input[j] <= 0
  BY InputShape
<1>2. /\ DOMAIN msgs = 1 .. Len(msgs) /\ Len(msgs) \in Nat /\ k + l + p <= Len(msgs)
      /\ \A i \in DOMAIN msgs : msgs[i].by = r <=> i \in (k + 1) .. (k + l + p)
      /\ \A j \in 1 .. l : msgs[k + j].n = input[j]
      /\ \A j \in 1 .. p : msgs[k + l + j].n = j
  <2>1. /\ DOMAIN msgs = 1 .. Len(msgs) /\ Len(msgs) \in Nat /\ k + l + p <= Len(msgs)
        /\ \A i \in DOMAIN msgs : msgs[i].by = r <=> i \in (k + 1) .. (k + l + p)
        /\ \A j \in 1 .. l : msgs[k + j] = [by |-> r, n |-> input[j]]
        /\ \A j \in 1 .. p : msgs[k + l + j] = [by |-> r, n |-> j]
    <3>1. StandsAt(msgs, r, input, k, l, p)
      BY StandsIsAt
    <3> QED
      BY <3>1 DEF StandsAt
  <2> HIDE DEF l
  <2>2. ASSUME NEW j \in 1 .. l PROVE msgs[k + j].n = input[j]
    <3>1. msgs[k + j] = [by |-> r, n |-> input[j]]
      BY <2>1
    <3> QED
      BY <3>1
  <2>3. ASSUME NEW j \in 1 .. p PROVE msgs[k + l + j].n = j
    <3>1. msgs[k + l + j] = [by |-> r, n |-> j]
      BY <2>1
    <3> QED
      BY <3>1
  <2> QED
    BY <2>1, <2>2, <2>3
<1> HIDE DEF l
<1>3. ASSUME NEW i \in DOMAIN msgs
      PROVE  i \in I <=> i \in (k + l + 1) .. (k + l + p)
  <2>1. CASE i \notin (k + 1) .. (k + l + p)
    BY <1>1, <1>2, <2>1 DEF By
  <2>2. CASE i \in (k + 1) .. (k + l)
    <3>1. PICK j \in 1 .. l : i = k + j
      <4>1. i - k \in 1 .. l /\ i = k + (i - k)
        BY <1>1, <2>2
      <4> QED
        BY <4>1
    <3>2. msgs[i].n = input[j] /\ input[j] \in Int /\ input[j] <= 0
      BY <1>1, <1>2, <3>1
    <3>3. i \notin I
      BY <3>2
    <3> QED
      BY <1>1, <2>2, <3>3
  <2>3. CASE i \in (k + l + 1) .. (k + l + p)
    <3>1. PICK j \in 1 .. p : i = k + l + j
      <4>1. i - (k + l) \in 1 .. p /\ i = k + l + (i - (k + l))
        BY <1>1, <2>3
      <4> QED
        BY <4>1
    <3>2. msgs[i].n = j /\ j > 0
      BY <1>2, <3>1
    <3>3. msgs[i].by = r
      BY <1>1, <1>2, <2>3
    <3> QED
      BY <2>3, <3>2, <3>3 DEF By
  <2> QED
    BY <1>1, <2>1, <2>2, <2>3
<1>4. I = (k + l + 1) .. (k + l + p)
  <2>1. I \subseteq DOMAIN msgs
    BY DEF By
  <2>2. (k + l + 1) .. (k + l + p) \subseteq DOMAIN msgs
    BY <1>1, <1>2
  <2> HIDE DEF I
  <2> QED
    BY <1>3, <2>1, <2>2
<1>5. k + l + 1 \in Int /\ k + l + p \in Int
  BY <1>1
<1>6. Cardinality((k + l + 1) .. (k + l + p)) = p
  BY <1>1, <1>5, FS_Interval
<1> QED
  BY <1>4, <1>6

\* The turn that stands in the messages, by itself.
Turn(r, input, p) ==
  [i \in 1 .. Len(input) + p |->
     IF i <= Len(input) THEN [by |-> r, n |-> input[i]] ELSE [by |-> r, n |-> i - Len(input)]]

LEMMA StandsSelected ==
  ASSUME NEW msgs \in Seq(Message), NEW r, NEW input \in Inputs, NEW k \in Nat, NEW p \in Nat,
         Stands(msgs, r, input, k, p)
  PROVE  /\ Selected(msgs, By(msgs, r)) = Turn(r, input, p)
         /\ Len(Turn(r, input, p)) = Len(input) + p
         /\ Stands(Turn(r, input, p), r, input, 0, p)
<1> DEFINE l == Len(input)
           I == By(msgs, r)
<1>1. l \in Nat /\ DOMAIN input = 1 .. l
  BY InputShape
<1>2. /\ DOMAIN msgs = 1 .. Len(msgs) /\ Len(msgs) \in Nat /\ k + l + p <= Len(msgs)
      /\ \A i \in DOMAIN msgs : msgs[i].by = r <=> i \in (k + 1) .. (k + l + p)
      /\ \A j \in 1 .. l : msgs[k + j] = [by |-> r, n |-> input[j]]
      /\ \A j \in 1 .. p : msgs[k + l + j] = [by |-> r, n |-> j]
  <2>1. StandsAt(msgs, r, input, k, l, p)
    BY StandsIsAt
  <2> QED
    BY <2>1 DEF StandsAt
<1> HIDE DEF l
<1>3. I = (k + 1) .. (k + (l + p)) /\ l + p \in Nat
  <2>1. (k + 1) .. (k + (l + p)) \subseteq DOMAIN msgs
    BY <1>1, <1>2
  <2> QED
    BY <1>1, <1>2, <2>1 DEF By
<1> HIDE DEF I
<1>4. Selected(msgs, I) = [j \in 1 .. (l + p) |-> msgs[k + j]]
  BY <1>3, SelectedInterval, SMTT(30)
<1>5. ASSUME NEW j \in 1 .. (l + p)
      PROVE  msgs[k + j] = IF j <= l THEN [by |-> r, n |-> input[j]] ELSE [by |-> r, n |-> j - l]
  <2>1. CASE j <= l
    <3>1. j \in 1 .. l
      BY <1>1, <2>1
    <3> QED
      BY <1>2, <2>1, <3>1
  <2>2. CASE ~(j <= l)
    <3>1. j - l \in 1 .. p /\ k + l + (j - l) = k + j
      BY <1>1, <2>2
    <3>2. msgs[k + l + (j - l)] = [by |-> r, n |-> j - l]
      BY <1>2, <3>1
    <3> QED
      BY <2>2, <3>1, <3>2
  <2> QED
    BY <2>1, <2>2
<1>6. Selected(msgs, I) = Turn(r, input, p)
  BY <1>4, <1>5 DEF Turn, l
<1>7. DOMAIN Turn(r, input, p) = 1 .. (l + p) /\ Len(Turn(r, input, p)) = l + p
  <2>1. DOMAIN Turn(r, input, p) = 1 .. (l + p)
    BY DEF Turn, l
  <2> QED
    BY <1>3, <2>1
<1>8. \A j \in 1 .. (l + p) : Turn(r, input, p)[j] =
        IF j <= l THEN [by |-> r, n |-> input[j]] ELSE [by |-> r, n |-> j - l]
  BY DEF Turn, l
<1>9. /\ \A i \in 1 .. (l + p) : Turn(r, input, p)[i].by = r
      /\ \A j \in 1 .. l : Turn(r, input, p)[j] = [by |-> r, n |-> input[j]]
      /\ \A j \in 1 .. p : Turn(r, input, p)[l + j] = [by |-> r, n |-> j]
  <2>1. ASSUME NEW i \in 1 .. (l + p) PROVE Turn(r, input, p)[i].by = r
    <3>1. CASE i <= l
      <4>1. Turn(r, input, p)[i] = [by |-> r, n |-> input[i]]
        BY <1>8, <3>1
      <4> QED
        BY <4>1
    <3>2. CASE ~(i <= l)
      <4>1. Turn(r, input, p)[i] = [by |-> r, n |-> i - l]
        BY <1>8, <3>2
      <4> QED
        BY <4>1
    <3> QED
      BY <3>1, <3>2
  <2>2. ASSUME NEW j \in 1 .. l PROVE Turn(r, input, p)[j] = [by |-> r, n |-> input[j]]
    <3>1. j \in 1 .. (l + p) /\ j <= l
      BY <1>1
    <3> QED
      BY <1>8, <3>1
  <2>3. ASSUME NEW j \in 1 .. p PROVE Turn(r, input, p)[l + j] = [by |-> r, n |-> j]
    <3>1. l + j \in 1 .. (l + p) /\ ~(l + j <= l) /\ (l + j) - l = j
      BY <1>1
    <3> QED
      BY <1>8, <3>1
  <2> QED
    BY <2>1, <2>2, <2>3
<1>10. Stands(Turn(r, input, p), r, input, 0, p)
  <2> DEFINE t == Turn(r, input, p)
  <2>1. /\ 0 + l + p = l + p /\ 0 + 1 = 1 /\ l + p <= l + p
        /\ \A j \in 1 .. l : 0 + j = j
        /\ \A j \in 1 .. p : 0 + l + j = l + j
    BY <1>1
  <2> HIDE DEF t
  <2> QED
    BY <1>1, <1>7, <1>9, <2>1 DEF Stands, l, t
<1> QED
  BY <1>6, <1>7, <1>10 DEF I, l

\* A turn goes on standing when messages of others follow.
LEMMA StandsExtended ==
  ASSUME NEW msgs \in Seq(Message), NEW r, NEW input \in Inputs, NEW k \in Nat, NEW p \in Nat,
         Stands(msgs, r, input, k, p), NEW more \in Seq(Message), Len(more) >= Len(msgs),
         \A i \in DOMAIN msgs : more[i] = msgs[i],
         \A i \in DOMAIN more : i > Len(msgs) => more[i].by # r
  PROVE  Stands(more, r, input, k, p)
<1> DEFINE l == Len(input)
<1>1. l \in Nat
  BY InputShape
<1>2. StandsAt(msgs, r, input, k, l, p)
  BY StandsIsAt
<1> HIDE DEF l
<1>3. /\ DOMAIN msgs = 1 .. Len(msgs) /\ Len(msgs) \in Nat /\ k + l + p <= Len(msgs)
      /\ \A i \in DOMAIN msgs : msgs[i].by = r <=> i \in (k + 1) .. (k + l + p)
      /\ \A j \in 1 .. l : msgs[k + j] = [by |-> r, n |-> input[j]]
      /\ \A j \in 1 .. p : msgs[k + l + j] = [by |-> r, n |-> j]
  BY <1>2 DEF StandsAt
<1>4. DOMAIN more = 1 .. Len(more) /\ Len(more) \in Nat /\ k + l + p <= Len(more)
  BY <1>1, <1>3
<1>5. ASSUME NEW i \in DOMAIN more PROVE more[i].by = r <=> i \in (k + 1) .. (k + l + p)
  <2>1. CASE i \in DOMAIN msgs
    BY <1>3, <2>1
  <2>2. CASE i \notin DOMAIN msgs
    <3>1. i > Len(msgs) /\ i \notin (k + 1) .. (k + l + p)
      BY <1>1, <1>3, <1>4, <2>2
    <3> QED
      BY <3>1
  <2> QED
    BY <2>1, <2>2
<1>6. ASSUME NEW j \in 1 .. l PROVE more[k + j] = [by |-> r, n |-> input[j]]
  <2>1. k + j \in DOMAIN msgs
    BY <1>1, <1>3
  <2> QED
    BY <1>3, <2>1
<1>7. ASSUME NEW j \in 1 .. p PROVE more[k + l + j] = [by |-> r, n |-> j]
  <2>1. k + l + j \in DOMAIN msgs
    BY <1>1, <1>3
  <2> QED
    BY <1>3, <2>1
<1>8. StandsAt(more, r, input, k, l, p)
  BY <1>4, <1>5, <1>6, <1>7 DEF StandsAt
<1> QED
  BY <1>8, StandsIsAt DEF l

LEMMA StandsConcat ==
  ASSUME NEW msgs \in Seq(Message), NEW r, NEW input \in Inputs, NEW k \in Nat, NEW p \in Nat,
         Stands(msgs, r, input, k, p), NEW more \in Seq(Message),
         \A i \in DOMAIN more : more[i].by # r
  PROVE  Stands(msgs \o more, r, input, k, p)
<1> DEFINE all == msgs \o more
<1>1. all \in Seq(Message) /\ Len(all) = Len(msgs) + Len(more) /\ Len(all) >= Len(msgs)
  OBVIOUS
<1>2. \A i \in DOMAIN msgs : all[i] = msgs[i]
  OBVIOUS
<1>3. ASSUME NEW i \in DOMAIN all, i > Len(msgs) PROVE all[i].by # r
  <2>1. i - Len(msgs) \in DOMAIN more /\ all[i] = more[i - Len(msgs)]
    BY <1>3
  <2> QED
    BY <2>1
<1> HIDE DEF all
<1>4. Stands(all, r, input, k, p)
  BY <1>1, <1>2, <1>3, StandsExtended
<1> QED
  BY <1>4 DEF all

LEMMA StandsAppend ==
  ASSUME NEW msgs \in Seq(Message), NEW r, NEW input \in Inputs, NEW k \in Nat, NEW p \in Nat,
         Stands(msgs, r, input, k, p), NEW m \in Message, m.by # r
  PROVE  Stands(Append(msgs, m), r, input, k, p)
<1> DEFINE all == Append(msgs, m)
<1>1. all \in Seq(Message) /\ Len(all) >= Len(msgs)
  OBVIOUS
<1>2. \A i \in DOMAIN msgs : all[i] = msgs[i]
  OBVIOUS
<1>3. ASSUME NEW i \in DOMAIN all, i > Len(msgs) PROVE all[i].by # r
  <2>1. all[i] = m
    BY <1>3
  <2> QED
    BY <2>1
<1> HIDE DEF all
<1>4. Stands(all, r, input, k, p)
  BY <1>1, <1>2, <1>3, StandsExtended
<1> QED
  BY <1>4 DEF all

LEMMA ConcatShape ==
  ASSUME NEW s \in Seq(Message), NEW t \in Seq(Message)
  PROVE  /\ s \o t \in Seq(Message) /\ Len(s \o t) = Len(s) + Len(t)
         /\ DOMAIN (s \o t) = 1 .. (Len(s) + Len(t)) /\ Len(s) \in Nat /\ Len(t) \in Nat
         /\ \A i \in 1 .. Len(s) : (s \o t)[i] = s[i]
         /\ \A j \in 1 .. Len(t) : (s \o t)[Len(s) + j] = t[j]
  OBVIOUS

\* A run begins with its input after what it loaded.
IsInput(msgs, r, input) ==
  /\ msgs \in Seq(Message) /\ DOMAIN msgs = DOMAIN input
  /\ \A i \in DOMAIN input : msgs[i] = [by |-> r, n |-> input[i]]

LEMMA StandsStart ==
  ASSUME NEW msgs \in Seq(Message), NEW r, NEW input \in Inputs,
         \A i \in DOMAIN msgs : msgs[i].by # r,
         NEW own, IsInput(own, r, input)
  PROVE  /\ Stands(msgs \o own, r, input, Len(msgs), 0)
         /\ Len(msgs \o own) = Len(msgs) + Len(input) + 0
<1> DEFINE l == Len(input)
           k == Len(msgs)
           all == msgs \o own
<1>1. l \in Nat /\ DOMAIN input = 1 .. l /\ k \in Nat
  BY InputShape
<1>2. /\ own \in Seq(Message) /\ DOMAIN own = 1 .. l /\ Len(own) = l
      /\ \A j \in 1 .. l : own[j] = [by |-> r, n |-> input[j]]
  <2>1. own \in Seq(Message) /\ DOMAIN own = 1 .. l
    BY <1>1 DEF IsInput
  <2>2. Len(own) = l
    BY <1>1, <2>1
  <2> QED
    BY <1>1, <2>1, <2>2 DEF IsInput
<1> HIDE DEF l
<1>3. /\ DOMAIN all = 1 .. Len(all) /\ Len(all) = k + l
      /\ \A i \in 1 .. k : all[i] = msgs[i]
      /\ \A j \in 1 .. l : all[k + j] = own[j]
  <2>1. /\ Len(all) = k + Len(own) /\ DOMAIN all = 1 .. (k + Len(own))
        /\ \A i \in 1 .. k : all[i] = msgs[i]
        /\ \A j \in 1 .. Len(own) : all[k + j] = own[j]
    <3>1. own \in Seq(Message)
      BY <1>2
    <3> QED
      BY <3>1, ConcatShape
  <2> HIDE DEF all, k
  <2> QED
    BY <1>2, <2>1
<1>4. DOMAIN msgs = 1 .. k
  OBVIOUS
<1> HIDE DEF all, k
<1>5. ASSUME NEW i \in DOMAIN all PROVE all[i].by = r <=> i \in (k + 1) .. (k + l + 0)
  <2>1. CASE i <= k
    <3>1. i \in DOMAIN msgs /\ i \notin (k + 1) .. (k + l + 0)
      BY <1>1, <1>3, <1>4, <2>1
    <3> QED
      BY <1>3, <1>4, <3>1
  <2>2. CASE ~(i <= k)
    <3>1. i - k \in 1 .. l /\ i \in (k + 1) .. (k + l + 0) /\ k + (i - k) = i
      BY <1>1, <1>3, <2>2
    <3>2. all[i] = [by |-> r, n |-> input[i - k]]
      BY <1>2, <1>3, <3>1
    <3>3. all[i].by = r
      BY <3>2
    <3> QED
      BY <3>1, <3>3
  <2> QED
    BY <2>1, <2>2
<1>6. /\ Len(all) = k + l + 0 /\ k + l + 0 <= Len(all) /\ Len(all) \in Nat
      /\ 1 .. 0 = {}
  BY <1>1, <1>3
<1>7. StandsAt(all, r, input, k, l, 0)
  BY <1>2, <1>3, <1>5, <1>6 DEF StandsAt
<1>8. all \in Seq(Message)
  BY <1>2, ConcatShape DEF all
<1> QED
  BY <1>6, <1>7, <1>8, StandsIsAt DEF l, k, all

\* It adds its next message.
LEMMA StandsGrows ==
  ASSUME NEW msgs \in Seq(Message), NEW r \in Nat, NEW input \in Inputs, NEW k \in Nat, NEW p \in Nat,
         Stands(msgs, r, input, k, p), Len(msgs) = k + Len(input) + p
  PROVE  /\ Stands(Append(msgs, [by |-> r, n |-> p + 1]), r, input, k, p + 1)
         /\ Len(Append(msgs, [by |-> r, n |-> p + 1])) = k + Len(input) + (p + 1)
<1> DEFINE l == Len(input)
           m == [by |-> r, n |-> p + 1]
           all == Append(msgs, m)
<1>1. l \in Nat
  BY InputShape
<1>2. StandsAt(msgs, r, input, k, l, p)
  BY StandsIsAt
<1>3. m \in Message /\ m.by = r /\ p + 1 \in Nat
  BY DEF Message
<1> HIDE DEF l
<1>4. /\ DOMAIN msgs = 1 .. Len(msgs) /\ Len(msgs) \in Nat
      /\ \A i \in DOMAIN msgs : msgs[i].by = r <=> i \in (k + 1) .. (k + l + p)
      /\ \A j \in 1 .. l : msgs[k + j] = [by |-> r, n |-> input[j]]
      /\ \A j \in 1 .. p : msgs[k + l + j] = [by |-> r, n |-> j]
  BY <1>2 DEF StandsAt
<1>5. Len(msgs) = k + l + p
  BY DEF l
<1> HIDE DEF m
<1>6. /\ all \in Seq(Message) /\ Len(all) = k + l + p + 1 /\ DOMAIN all = 1 .. (k + l + p + 1)
      /\ \A i \in 1 .. (k + l + p) : all[i] = msgs[i]
      /\ all[k + l + p + 1] = m
  BY <1>1, <1>3, <1>5
<1> HIDE DEF all
<1>7. ASSUME NEW i \in DOMAIN all PROVE all[i].by = r <=> i \in (k + 1) .. (k + l + (p + 1))
  <2>1. CASE i \in 1 .. (k + l + p)
    <3>1. all[i].by = r <=> i \in (k + 1) .. (k + l + p)
      BY <1>4, <1>5, <1>6, <2>1
    <3> QED
      BY <1>1, <2>1, <3>1
  <2>2. CASE i = k + l + p + 1
    <3>1. i \in (k + 1) .. (k + l + (p + 1))
      BY <1>1, <2>2
    <3> QED
      BY <1>3, <1>6, <2>2, <3>1
  <2> QED
    BY <1>1, <1>6, <2>1, <2>2
<1>8. ASSUME NEW j \in 1 .. l PROVE all[k + j] = [by |-> r, n |-> input[j]]
  <2>1. k + j \in 1 .. (k + l + p)
    BY <1>1
  <2> QED
    BY <1>4, <1>6, <2>1
<1>9. ASSUME NEW j \in 1 .. (p + 1) PROVE all[k + l + j] = [by |-> r, n |-> j]
  <2>1. CASE j \in 1 .. p
    <3>1. k + l + j \in 1 .. (k + l + p)
      BY <1>1, <2>1
    <3> QED
      BY <1>4, <1>6, <2>1, <3>1
  <2>2. CASE j = p + 1
    <3>1. k + l + j = k + l + p + 1
      BY <1>1, <2>2
    <3> QED
      BY <1>6, <2>2, <3>1 DEF m
  <2> QED
    BY <2>1, <2>2
<1>10. /\ DOMAIN all = 1 .. Len(all) /\ Len(all) \in Nat /\ Len(all) = k + l + (p + 1)
       /\ k + l + (p + 1) <= Len(all)
  BY <1>1, <1>6
<1>11. StandsAt(all, r, input, k, l, p + 1)
  BY <1>7, <1>8, <1>9, <1>10 DEF StandsAt
<1>12. Stands(all, r, input, k, p + 1)
  BY <1>6, <1>11, StandsIsAt DEF l
<1> QED
  BY <1>10, <1>12 DEF l, m, all

\* The new messages of a response to the user's message alone are those produced.
LEMMA StandsOutput ==
  ASSUME NEW msgs \in Seq(Message), NEW r, NEW k \in Nat, NEW p \in Nat, p > 0,
         << 0 >> \in Inputs, Stands(msgs, r, << 0 >>, k, p), Len(msgs) = k + Len(<< 0 >>) + p
  PROVE  Output(NewMessages(msgs, k)) = Messages(r, p)
<1> DEFINE s == SubSeq(msgs, k + 1, Len(msgs))
<1>1. Len(<< 0 >>) = 1 /\ << 0 >>[1] = 0
  OBVIOUS
<1>2. StandsAt(msgs, r, << 0 >>, k, 1, p)
  BY <1>1, StandsIsAt
<1>3. /\ Len(msgs) = k + 1 + p /\ k < Len(msgs)
      /\ msgs[k + 1] = [by |-> r, n |-> 0]
      /\ \A j \in 1 .. p : msgs[k + 1 + j] = [by |-> r, n |-> j]
  BY <1>1, <1>2 DEF StandsAt
<1>4. NewMessages(msgs, k) = s
  BY <1>3 DEF NewMessages
<1>5. /\ s \in Seq(Message) /\ Len(s) = 1 + p /\ DOMAIN s = 1 .. (1 + p)
      /\ \A i \in 1 .. (1 + p) : s[i] = msgs[k + i]
  <2>1. k + 1 \in 1 .. Len(msgs) /\ Len(msgs) - (k + 1) + 1 = 1 + p
    BY <1>3
  <2>2. s \in Seq(Message) /\ Len(s) = 1 + p
    BY <2>1, <1>3
  <2>3. \A i \in 1 .. (1 + p) : s[i] = msgs[k + 1 + i - 1] /\ k + 1 + i - 1 = k + i
    BY <2>1, <1>3
  <2> HIDE DEF s
  <2> QED
    BY <2>2, <2>3
<1> HIDE DEF s
<1>6. s[1].n = 0
  <2>1. s[1] = [by |-> r, n |-> 0]
    BY <1>3, <1>5
  <2> QED
    BY <2>1
<1>7. ASSUME NEW j \in 1 .. p PROVE s[1 + j] = [by |-> r, n |-> j]
  <2>1. 1 + j \in 1 .. (1 + p) /\ k + (1 + j) = k + 1 + j
    OBVIOUS
  <2> QED
    BY <1>3, <1>5, <2>1
<1>8. {i \in DOMAIN s : s[i].n # 0} = (1 + 1) .. (1 + p)
  <2>1. ASSUME NEW i \in 1 .. (1 + p) PROVE s[i].n # 0 <=> i \in (1 + 1) .. (1 + p)
    <3>1. CASE i = 1
      BY <1>6, <3>1
    <3>2. CASE i # 1
      <4>1. i - 1 \in 1 .. p /\ 1 + (i - 1) = i /\ i \in (1 + 1) .. (1 + p) /\ i - 1 # 0
        BY <3>2
      <4>2. s[i] = [by |-> r, n |-> i - 1]
        BY <1>7, <4>1
      <4>3. s[i].n = i - 1
        BY <4>2
      <4> QED
        BY <4>1, <4>3
    <3> QED
      BY <3>1, <3>2
  <2>2. (1 + 1) .. (1 + p) \subseteq 1 .. (1 + p)
    OBVIOUS
  <2> QED
    BY <1>5, <2>1, <2>2
<1>9. Output(s) = [j \in 1 .. p |-> s[1 + j]]
  <2>1. Output(s) = Selected(s, (1 + 1) .. (1 + p))
    BY <1>8 DEF Output
  <2>2. \A a \in Nat : Selected(s, (a + 1) .. (a + p)) = [j \in 1 .. p |-> s[a + j]]
    BY SelectedInterval
  <2>3. Selected(s, (1 + 1) .. (1 + p)) = [j \in 1 .. p |-> s[1 + j]]
    BY <2>2
  <2> QED
    BY <2>1, <2>3
<1> QED
  BY <1>4, <1>7, <1>9 DEF Messages

-----------------------------------------------------------------------------
(* A response is its own turn.                                             *)

\* A request that has its conversation to itself shares it with no other in progress.
Solitary ==
  \A r, o \in DOMAIN req :
    (r # o /\ req[r].alone /\ InProgress(req[r]) /\ InProgress(req[o]))
      => ~SamePlace(req[o], req[r])

Given == \A r \in DOMAIN req : req[r].kind \in Posts => req[r].input \in Inputs

\* What it counted is still there when its run starts.
Counted ==
  \A r \in DOMAIN req :
    (req[r].kind = "response" /\ req[r].alone /\ req[r].pc = "invoke")
      => req[r].count = Len(Saved(req[r].model, req[r].thread))

\* A run works on what it loaded and on its own turn, which comes last; what it loaded
\* is what was counted.
RunStands(r) ==
  (req[r].pc = "run" \/ (Succeeded(r) /\ req[r].kind \in Posts)) =>
    \E k, p \in Nat :
      /\ Len(req[r].history) = k + Len(req[r].input) + p
      /\ Stands(req[r].history, r, req[r].input, k, p)
      /\ (req[r].kind = "response" /\ req[r].alone /\ ~req[r].trimmed) => k = req[r].count

\* The reply of a response.
RepliesOwnTurn(r) ==
  (/\ Succeeded(r) /\ req[r].kind = "response" /\ req[r].alone /\ ~req[r].trimmed
   /\ req[r].input = << 0 >>)
    => req[r].reply = Messages(r, Produced(r))

TurnsStand == \A r \in DOMAIN req : RunStands(r) /\ RepliesOwnTurn(r)

TurnInv == ApartInv /\ Given /\ Solitary /\ Counted /\ TurnsStand

LEMMA TurnImplies == TurnInv => ReplyOwnTurn
  BY DEF TurnInv, TurnsStand, RepliesOwnTurn, ReplyOwnTurn

\* What a thread holds after a step, where a request is.
LEMMA SavedPrimed ==
  ASSUME Stable, NEW r \in DOMAIN req
  PROVE  Saved(req[r].model, req[r].thread)' = SavedNext(req[r].model, req[r].thread)
<1>1. req'[r].model = req[r].model /\ req'[r].thread = req[r].thread
  BY DEF Stable, SameRequest
<1>2. \A m : (SaverOf(m))' = SaverOf(m)
  BY DEF Stable, SaverOf
<1> QED
  BY <1>1, <1>2 DEF SavedNext, Saved

\* What has been said of a request that a step leaves alone.
LEMMA UndisturbedTurn ==
  ASSUME NEW r \in DOMAIN req, Undisturbed(r), RunStands(r), RepliesOwnTurn(r)
  PROVE  RunStands(r)' /\ RepliesOwnTurn(r)'
<1>1. RunStands(r)'
  BY DEF Undisturbed, SameRequest, RunStands, Succeeded
<1>2. Produced(r)' = Produced(r)
  BY DEF Undisturbed, Produced, By
<1>3. RepliesOwnTurn(r)'
  BY <1>2 DEF Undisturbed, SameRequest, RepliesOwnTurn, Succeeded
<1> QED
  BY <1>1, <1>3

\* Requests stay on their conversations.
LEMMA PlaceStays ==
  ASSUME Stable, NEW p \in DOMAIN req, NEW r \in DOMAIN req
  PROVE  SamePlace(req[p], req[r])' <=> SamePlace(req[p], req[r])
  BY DEF Stable, SameRequest, SamePlace, SaverOf

\* The new request, as the step sees it.
LEMMA PlaceOfNew ==
  ASSUME saver' = saver, NEW n, NEW p \in DOMAIN req, SameRequest(req[p], req'[p])
  PROVE  /\ SamePlace(req[p], req[n])' <=> SamePlace(req[p], req'[n])
         /\ SamePlace(req[n], req[p])' <=> SamePlace(req[p], req'[n])
  BY DEF SameRequest, SamePlace, SaverOf

LEMMA SolitaryProgress ==
  ASSUME TypeOK, Solitary, NEW o \in DOMAIN req, ProgressEffect(o)
  PROVE  Solitary'
<1>1. Stable /\ DOMAIN req' = DOMAIN req
  BY EffectsStable DEF ProgressEffect
<1>2. \A p \in DOMAIN req : req'[p].alone = req[p].alone
                            /\ (InProgress(req'[p]) => InProgress(req[p]))
  BY DEF ProgressEffect
<1>3. ASSUME NEW r \in DOMAIN req, NEW p \in DOMAIN req,
             r # p, req'[r].alone, InProgress(req'[r]), InProgress(req'[p])
      PROVE  ~SamePlace(req[p], req[r])'
  <2>1. ~SamePlace(req[p], req[r])
    BY <1>2, <1>3 DEF Solitary
  <2> QED
    BY <1>1, <2>1, PlaceStays
<1> QED
  BY <1>1, <1>3 DEF Solitary, InProgress

LEMMA SolitaryArrival ==
  ASSUME TypeOK, Solitary, ArrivalEffect
  PROVE  Solitary'
<1>n. PICK n : n = Len(req')
  OBVIOUS
<1>1. /\ Stable /\ saver' = saver /\ DOMAIN req' = DOMAIN req \cup {n} /\ n \notin DOMAIN req
      /\ \A p \in DOMAIN req : Undisturbed(p)
  BY <1>n, EffectsStable DEF ArrivalEffect
<1>2. \A p \in DOMAIN req : /\ req'[p].alone => req[p].alone
                            /\ InProgress(req'[p]) <=> InProgress(req[p])
                            /\ SameRequest(req[p], req'[p])
  BY <1>1 DEF Undisturbed, InProgress
<1>3. ASSUME NEW r \in DOMAIN req, NEW p \in DOMAIN req,
             r # p, req'[r].alone, InProgress(req'[r]), InProgress(req'[p])
      PROVE  ~SamePlace(req[p], req[r])'
  <2>1. ~SamePlace(req[p], req[r])
    BY <1>2, <1>3 DEF Solitary
  <2> QED
    BY <1>1, <2>1, PlaceStays
<1>4. ASSUME InProgress(req'[n]) PROVE Joins
  BY <1>n, <1>4 DEF ArrivalEffect, CreateEffect, GetEffect, DeleteEffect, UnknownEffect, InProgress
<1>5. ASSUME NEW p \in DOMAIN req, req'[n].alone \/ req'[p].alone, InProgress(req'[n]),
             InProgress(req'[p])
      PROVE  ~SamePlace(req[p], req[n])' /\ ~SamePlace(req[n], req[p])'
  <2>1. ~SamePlace(req[p], req'[n])
    BY <1>n, <1>2, <1>4, <1>5 DEF Joins
  <2> QED
    BY <1>1, <1>2, <2>1, PlaceOfNew
<1> QED
  BY <1>1, <1>3, <1>5 DEF Solitary, InProgress

LEMMA SolitaryCrash ==
  ASSUME TypeOK, CrashEffect
  PROVE  Solitary'
<1>1. ASSUME NEW p \in DOMAIN req PROVE ~InProgress(req'[p])
  <2>1. req[p] \in Requests
    BY RunTypes
  <2> QED
    BY <2>1 DEF CrashEffect, Requests, InProgress
<1> QED
  BY <1>1 DEF CrashEffect, Solitary, InProgress

LEMMA GivenStep ==
  ASSUME TypeInv, Given,
         \/ ArrivalEffect \/ CrashEffect \/ \E r \in DOMAIN req : ProgressEffect(r)
  PROVE  Given'
<1>0. TypeOK /\ Stable
  BY EffectsStable DEF TypeInv
<1>1. \A r \in DOMAIN req : req'[r].kind \in Posts => req'[r].input \in Inputs
  BY <1>0 DEF Given, Stable, SameRequest
<1>2. CASE ArrivalEffect
  <2>n. PICK n : n = Len(req')
    OBVIOUS
  <2>1. DOMAIN req' = DOMAIN req \cup {n}
    BY <1>2, <2>n DEF ArrivalEffect
  <2>2. req'[n].kind \in Posts => req'[n].input \in Inputs
    BY <1>2, <2>n DEF ArrivalEffect, CreateEffect, GetEffect, DeleteEffect, UnknownEffect,
       Posts, Chats, Streams
  <2> QED
    BY <1>1, <2>1, <2>2 DEF Given
<1>3. CASE CrashEffect
  BY <1>1, <1>3 DEF CrashEffect, Given
<1>4. ASSUME NEW r \in DOMAIN req, ProgressEffect(r) PROVE Given'
  BY <1>1, <1>4 DEF ProgressEffect, Given
<1> QED
  BY <1>2, <1>3, <1>4

LEMMA CountedProgress ==
  ASSUME TypeInv, Solitary, Counted, NEW o \in DOMAIN req, ProgressEffect(o)
  PROVE  Counted'
<1>0. TypeOK
  BY DEF TypeInv
<1>1. /\ Stable /\ DOMAIN req' = DOMAIN req /\ SameRequest(req[o], req'[o])
      /\ req'[o].alone = req[o].alone /\ InProgress(req[o])
      /\ \A p \in DOMAIN req : p # o => req'[p] = req[p]
  BY <1>0, EffectsStable DEF ProgressEffect
<1> SUFFICES ASSUME NEW r \in DOMAIN req,
                    req'[r].kind = "response", req'[r].alone, req'[r].pc = "invoke"
             PROVE  req'[r].count = Len(Saved(req[r].model, req[r].thread)')
  BY <1>1 DEF Counted
<1>2. req[r].model \in Models
  BY <1>0, RunTypes DEF Requests
<1>3. Saved(req[r].model, req[r].thread)' = SavedNext(req[r].model, req[r].thread)
  BY <1>1, SavedPrimed
<1>4. SavedNext(req[r].model, req[r].thread) =
        IF /\ RunEffect(o) /\ SaverOf(req[r].model) # None
           /\ SaverOf(req[r].model) = SaverOf(req[o].model) /\ req[r].thread = req[o].thread
        THEN req'[o].history ELSE Saved(req[r].model, req[r].thread)
  BY <1>0, <1>2, SavedProgress
<1>5. CASE r = o
  <2>1. CountEffect(r)
    BY <1>5 DEF ProgressEffect, RunEffect, EndEffect
  <2>2. ~RunEffect(o)
    BY <1>5 DEF RunEffect
  <2> QED
    BY <1>3, <1>4, <2>1, <2>2 DEF CountEffect
<1>6. CASE r # o
  <2>1. req'[r] = req[r] /\ InProgress(req[r])
    BY <1>1, <1>6 DEF InProgress
  <2>2. ~SamePlace(req[o], req[r])
    BY <1>1, <1>6, <2>1 DEF Solitary
  <2>3. req[r].count = Len(Saved(req[r].model, req[r].thread))
    BY <2>1 DEF Counted
  <2> QED
    BY <1>3, <1>4, <2>1, <2>2, <2>3 DEF SamePlace
<1> QED
  BY <1>5, <1>6

LEMMA CountedArrival ==
  ASSUME TypeInv, Counted, ArrivalEffect
  PROVE  Counted'
<1>n. PICK n : n = Len(req')
  OBVIOUS
<1>0. TypeOK
  BY DEF TypeInv
<1>1. /\ Stable /\ DOMAIN req' = DOMAIN req \cup {n}
      /\ \A p \in DOMAIN req : Undisturbed(p)
  BY <1>n, <1>0, EffectsStable DEF ArrivalEffect
<1>2. ASSUME NEW r \in DOMAIN req,
             req'[r].kind = "response", req'[r].alone, req'[r].pc = "invoke"
      PROVE  req'[r].count = Len(Saved(req[r].model, req[r].thread)')
  <2>1. /\ req[r].kind = "response" /\ req[r].alone /\ req[r].pc = "invoke"
        /\ req'[r].count = req[r].count
    BY <1>1, <1>2 DEF Undisturbed, SameRequest
  <2>2. req[r].count = Len(Saved(req[r].model, req[r].thread))
    BY <2>1 DEF Counted
  <2>3. req[r].model \in Models
    BY <1>0, RunTypes DEF Requests
  <2>4. SavedNext(req[r].model, req[r].thread) =
          IF req'[n].kind = "delete" /\ SaverOf(req[r].model) = SaverOf(req'[n].model)
             /\ req[r].thread = req'[n].thread
          THEN <<>> ELSE Saved(req[r].model, req[r].thread)
    BY <1>n, <1>0, <2>3, SavedArrival
  <2>5. ASSUME req'[n].kind = "delete" PROVE ~SamePlace(req[r], req'[n])
    <3>1. Joins
      BY <1>n, <2>5 DEF ArrivalEffect, CreateEffect, GetEffect, DeleteEffect, UnknownEffect,
         Posts, Chats, Streams
    <3> QED
      BY <1>n, <1>2, <2>1, <3>1 DEF Joins, InProgress
  <2>6. SavedNext(req[r].model, req[r].thread) = Saved(req[r].model, req[r].thread)
    BY <2>4, <2>5 DEF SamePlace
  <2> QED
    BY <1>1, <2>1, <2>2, <2>6, SavedPrimed
<1>3. ~(req'[n].kind = "response" /\ req'[n].pc = "invoke")
  BY <1>n DEF ArrivalEffect, CreateEffect, GetEffect, DeleteEffect, UnknownEffect
<1> QED
  BY <1>1, <1>2, <1>3 DEF Counted

LEMMA CountedCrash ==
  ASSUME TypeOK, CrashEffect
  PROVE  Counted'
<1>1. ASSUME NEW p \in DOMAIN req PROVE req'[p].pc # "invoke"
  <2>1. req[p] \in Requests
    BY RunTypes
  <2> QED
    BY <2>1 DEF CrashEffect, Requests, InProgress
<1> QED
  BY <1>1 DEF CrashEffect, Counted

\* A run still works on what it loaded and its own turn.
LEMMA RunStandsProgress ==
  ASSUME TurnInv, NEW o \in DOMAIN req, ProgressEffect(o)
  PROVE  RunStands(o)'
<1> DEFINE q == req[o]
           h == req'[o].history
           input == q.input
<1>0. TypeOK /\ Apart /\ Serving /\ Given /\ Counted /\ RunStands(o)
  BY DEF TurnInv, ApartInv, TypeInv, TurnsStand
<1>1. /\ InProgress(q) /\ SameRequest(q, req'[o]) /\ req'[o].alone = q.alone /\ q.kind \in Posts
      /\ CountEffect(o) \/ RunEffect(o) \/ EndEffect(o)
  BY <1>0 DEF ProgressEffect, Serving
<1>2. /\ q.model \in Models /\ q.history \in Seq(Message) /\ input \in Inputs /\ o \in Nat
      /\ Saved(q.model, q.thread) \in Seq(Message) /\ InputOf(o) \in Seq(Message)
      /\ q.alone \in BOOLEAN /\ q.trimmed \in BOOLEAN
  BY <1>0, <1>1, RunTypes DEF Requests, Given
<1>3. CASE CountEffect(o)
  BY <1>3 DEF CountEffect, RunStands, Succeeded
<1>4. ASSUME RunEffect(o),
             \E k, p \in Nat :
               /\ Len(h) = k + Len(input) + p /\ Stands(h, o, input, k, p)
               /\ (q.kind = "response" /\ q.alone /\ ~req'[o].trimmed) => k = q.count
      PROVE  RunStands(o)'
  <2>1. req'[o].count = q.count
    BY <1>4 DEF RunEffect
  <2> HIDE DEF h
  <2>2. \E k, p \in Nat :
          /\ Len(h) = k + Len(req'[o].input) + p /\ Stands(h, o, req'[o].input, k, p)
          /\ (req'[o].kind = "response" /\ req'[o].alone /\ ~req'[o].trimmed) => k = req'[o].count
    BY <1>1, <1>4, <2>1 DEF SameRequest
  <2> QED
    BY <2>2 DEF RunStands, h
<1>5. ASSUME RunEffect(o), q.pc = "invoke", req'[o].trimmed = q.trimmed,
             h = Saved(q.model, q.thread) \o InputOf(o)
      PROVE  RunStands(o)'
  <2> DEFINE saved == Saved(q.model, q.thread)
             own == InputOf(o)
  <2>1. FromPlace(saved, SaverOf(q.model), q.thread)
    BY <1>0, <1>2, SavedFrom
  <2>2. \A i \in DOMAIN saved : saved[i].by # o
    BY <1>5, <2>1 DEF FromPlace, Waits
  <2>3. IsInput(own, o, input)
    BY <1>2 DEF InputOf, IsInput
  <2>4. (q.kind = "response" /\ q.alone) => Len(saved) = q.count
    BY <1>0, <1>5 DEF Counted
  <2>5. saved \in Seq(Message) /\ own \in Seq(Message) /\ Len(saved) \in Nat
    BY <1>2
  <2> HIDE DEF saved, own, input
  <2>6. /\ Stands(saved \o own, o, input, Len(saved), 0)
        /\ Len(saved \o own) = Len(saved) + Len(input) + 0
    <3>1. input \in Inputs
      BY <1>2
    <3> QED
      BY <2>2, <2>3, <2>5, <3>1, StandsStart
  <2>7. 0 \in Nat /\ h = saved \o own
    BY <1>5 DEF saved, own
  <2> QED
    BY <1>4, <1>5, <2>4, <2>5, <2>6, <2>7 DEF input
<1>6. ASSUME q.pc = "run"
      PROVE  \E k, p \in Nat :
               /\ Len(q.history) = k + Len(input) + p /\ Stands(q.history, o, input, k, p)
               /\ (q.kind = "response" /\ q.alone /\ ~q.trimmed) => k = q.count
               /\ Produced(o) = p
  <2>1. PICK k \in Nat, p \in Nat :
           /\ Len(q.history) = k + Len(input) + p /\ Stands(q.history, o, input, k, p)
           /\ (q.kind = "response" /\ q.alone /\ ~q.trimmed) => k = q.count
    BY <1>0, <1>6 DEF RunStands
  <2>2. Produced(o) = p
    BY <1>2, <2>1, StandsProduced DEF Produced
  <2> QED
    BY <2>1, <2>2
<1>7. ASSUME RunEffect(o), q.pc = "run", req'[o].trimmed = q.trimmed,
             h = Append(q.history, [by |-> o, n |-> Produced(o) + 1])
      PROVE  RunStands(o)'
  <2>1. PICK k \in Nat, p \in Nat :
           /\ Len(q.history) = k + Len(input) + p /\ Stands(q.history, o, input, k, p)
           /\ (q.kind = "response" /\ q.alone /\ ~q.trimmed) => k = q.count
           /\ Produced(o) = p
    BY <1>6, <1>7
  <2> DEFINE g == q.history
  <2>2. g \in Seq(Message) /\ h = Append(g, [by |-> o, n |-> p + 1]) /\ p + 1 \in Nat
    BY <1>2, <1>7, <2>1
  <2>3. Len(g) = k + Len(input) + p /\ Stands(g, o, input, k, p)
    BY <2>1
  <2> HIDE DEF g, h, input
  <2>4. /\ Stands(Append(g, [by |-> o, n |-> p + 1]), o, input, k, p + 1)
        /\ Len(Append(g, [by |-> o, n |-> p + 1])) = k + Len(input) + (p + 1)
    BY <1>2, <2>2, <2>3, StandsGrows
  <2> QED
    BY <1>4, <1>7, <2>1, <2>2, <2>4
<1>8. ASSUME RunEffect(o), q.pc = "run", req'[o].trimmed = TRUE,
             h = Selected(q.history, By(q.history, o))
      PROVE  RunStands(o)'
  <2>1. PICK k \in Nat, p \in Nat :
           Len(q.history) = k + Len(input) + p /\ Stands(q.history, o, input, k, p)
    BY <1>6, <1>8
  <2>2. h = Turn(o, input, p) /\ Stands(h, o, input, 0, p) /\ Len(h) = Len(input) + p
    BY <1>2, <1>8, <2>1, StandsSelected
  <2>3. Len(h) = 0 + Len(input) + p /\ 0 \in Nat
    BY <1>2, <2>2, InputShape
  <2> HIDE DEF h, input
  <2> QED
    BY <1>4, <1>8, <2>2, <2>3
<1>9. CASE EndEffect(o)
  <2>1. CASE q.pc = "run" /\ req'[o].pc = "done"
    <3>1. /\ h = q.history /\ req'[o].count = q.count /\ req'[o].trimmed = q.trimmed
      BY <1>9 DEF EndEffect
    <3>2. \E k, p \in Nat :
            /\ Len(q.history) = k + Len(input) + p /\ Stands(q.history, o, input, k, p)
            /\ (q.kind = "response" /\ q.alone /\ ~q.trimmed) => k = q.count
      BY <1>6, <2>1
    <3> QED
      BY <1>1, <3>1, <3>2 DEF RunStands, SameRequest
  <2>2. CASE ~(q.pc = "run" /\ req'[o].pc = "done")
    BY <1>9, <2>2 DEF EndEffect, RunStands, Succeeded
  <2> QED
    BY <2>1, <2>2
<1>10. CASE RunEffect(o)
  BY <1>5, <1>7, <1>8, <1>10 DEF RunEffect
<1> QED
  BY <1>1, <1>3, <1>9, <1>10

\* A response that is finished is answered with its own turn.
LEMMA RepliesProgress ==
  ASSUME TurnInv, NEW o \in DOMAIN req, ProgressEffect(o)
  PROVE  RepliesOwnTurn(o)'
<1> DEFINE q == req[o]
<1>0. TypeOK /\ Serving /\ Given /\ RunStands(o)
  BY DEF TurnInv, ApartInv, TypeInv, TurnsStand
<1>1. /\ SameRequest(q, req'[o]) /\ req'[o].alone = q.alone
      /\ CountEffect(o) \/ RunEffect(o) \/ EndEffect(o)
  BY DEF ProgressEffect
<1> SUFFICES ASSUME req'[o].pc = "done", req'[o].status = 200, req'[o].kind = "response",
                    req'[o].alone, ~req'[o].trimmed, req'[o].input = << 0 >>
             PROVE  req'[o].reply = Messages(o, Produced(o)')
  BY DEF RepliesOwnTurn, Succeeded
<1>2. /\ q.pc = "run" /\ Produced(o) > 0 /\ req'[o].reply = Answer(o)
      /\ req'[o].history = q.history /\ req'[o].trimmed = q.trimmed
  BY <1>1 DEF CountEffect, RunEffect, EndEffect
<1>3. Produced(o)' = Produced(o)
  BY <1>2 DEF Produced, By
<1>4. q.kind = "response" /\ q.alone /\ ~q.trimmed /\ q.input = << 0 >>
  BY <1>1, <1>2 DEF SameRequest
<1>5. Answer(o) = Output(NewMessages(q.history, q.count))
  BY <1>4 DEF Answer, Streams
<1>6. q.history \in Seq(Message) /\ << 0 >> \in Inputs
  BY <1>0, <1>4, RunTypes, ZenonT(60) DEF Given, Posts, Requests
<1>7. PICK p \in Nat :
        /\ Len(q.history) = q.count + Len(<< 0 >>) + p /\ Stands(q.history, o, << 0 >>, q.count, p)
        /\ q.count \in Nat
  BY <1>0, <1>2, <1>4 DEF RunStands
<1>8. Produced(o) = p
  <2>1. PICK h \in Seq(Message) : h = q.history
    BY <1>6
  <2>2. PICK input \in Inputs : input = << 0 >>
    BY <1>6
  <2>3. Stands(h, o, input, q.count, p) /\ q.count \in Nat
    BY <1>7, <2>1, <2>2
  <2>4. Cardinality({i \in By(h, o) : h[i].n > 0}) = p
    BY <2>3, StandsProduced, ZenonT(60)
  <2> QED
    BY <2>1, <2>4 DEF Produced
<1>9. Output(NewMessages(q.history, q.count)) = Messages(o, p)
  BY <1>2, <1>6, <1>7, <1>8, StandsOutput
<1> QED
  BY <1>2, <1>3, <1>5, <1>8, <1>9

LEMMA TurnsProgress ==
  ASSUME TurnInv, NEW o \in DOMAIN req, ProgressEffect(o)
  PROVE  TurnsStand'
<1>1. DOMAIN req' = DOMAIN req /\ \A r \in DOMAIN req : r # o => req'[r] = req[r]
  BY DEF ProgressEffect
<1>2. ASSUME NEW r \in DOMAIN req, r # o PROVE RunStands(r)' /\ RepliesOwnTurn(r)'
  <2>1. Undisturbed(r)
    BY <1>1, <1>2 DEF Undisturbed, SameRequest
  <2>2. RunStands(r) /\ RepliesOwnTurn(r)
    BY DEF TurnInv, TurnsStand
  <2> QED
    BY <2>1, <2>2, UndisturbedTurn
<1>3. RunStands(o)' /\ RepliesOwnTurn(o)'
  BY RunStandsProgress, RepliesProgress
<1> QED
  BY <1>1, <1>2, <1>3 DEF TurnsStand

LEMMA TurnsArrival ==
  ASSUME TurnInv, ArrivalEffect
  PROVE  TurnsStand'
<1>n. PICK n : n = Len(req')
  OBVIOUS
<1>1. DOMAIN req' = DOMAIN req \cup {n} /\ \A p \in DOMAIN req : Undisturbed(p)
  BY <1>n DEF ArrivalEffect
<1>2. ASSUME NEW r \in DOMAIN req PROVE RunStands(r)' /\ RepliesOwnTurn(r)'
  BY <1>1, UndisturbedTurn DEF TurnInv, TurnsStand
<1>3. req'[n].pc # "run" /\ (req'[n].pc = "done" => req'[n].kind \notin Posts)
  BY <1>n DEF ArrivalEffect, CreateEffect, GetEffect, DeleteEffect, UnknownEffect,
     Posts, Chats, Streams
<1>4. RunStands(n)' /\ RepliesOwnTurn(n)'
  BY <1>3 DEF RunStands, RepliesOwnTurn, Succeeded, Posts
<1> QED
  BY <1>1, <1>2, <1>4 DEF TurnsStand

LEMMA TurnsCrash ==
  ASSUME TurnInv, CrashEffect
  PROVE  TurnsStand'
<1>0. TypeOK /\ TurnsStand
  BY DEF TurnInv, ApartInv, TypeInv
<1>1. ASSUME NEW r \in DOMAIN req PROVE RunStands(r)' /\ RepliesOwnTurn(r)'
  <2>1. CASE InProgress(req[r])
    <3>1. req'[r].pc = "gone"
      BY <1>0, <2>1, RunTypes DEF CrashEffect, Requests
    <3> QED
      BY <3>1 DEF RunStands, RepliesOwnTurn, Succeeded
  <2>2. CASE ~InProgress(req[r])
    <3>1. req'[r] = req[r]
      BY <2>2 DEF CrashEffect
    <3>2. Undisturbed(r)
      BY <3>1 DEF Undisturbed, SameRequest
    <3> QED
      BY <1>0, <3>2, UndisturbedTurn DEF TurnsStand
  <2> QED
    BY <2>1, <2>2
<1> QED
  BY <1>1 DEF CrashEffect, TurnsStand

LEMMA TurnStep == TurnInv /\ [Next]_vars => TurnInv'
<1> SUFFICES ASSUME TurnInv, [Next]_vars PROVE TurnInv'
  OBVIOUS
<1>0. ApartInv /\ TypeInv /\ TypeOK /\ Serving /\ Given /\ Solitary /\ Counted /\ TurnsStand
  BY DEF TurnInv, ApartInv, TypeInv
<1>1. ApartInv'
  BY <1>0, ApartStep
<1>2. CASE SetupEffect
  <2>1. CASE mounted
    <3>1. saver' = saver /\ store' = store /\ req' = req
      BY <1>2, <2>1 DEF SetupEffect
    <3>2. Given' /\ Solitary' /\ Counted'
      BY <1>0, <3>1 DEF Given, Solitary, SamePlace, InProgress, Counted, Saved, SaverOf
    <3>3. ASSUME NEW r \in DOMAIN req PROVE RunStands(r)' /\ RepliesOwnTurn(r)'
      <4>1. RunStands(r) /\ RepliesOwnTurn(r)
        BY <1>0 DEF TurnsStand
      <4>2. RunStands(r)'
        <5>1. req'[r] = req[r] /\ (Succeeded(r)' <=> Succeeded(r))
          BY <3>1 DEF Succeeded
        <5> SUFFICES ASSUME req[r].pc = "run" \/ (Succeeded(r) /\ req[r].kind \in Posts)
                     PROVE  \E k, p \in Nat :
                              /\ Len(req'[r].history) = k + Len(req'[r].input) + p
                              /\ Stands(req'[r].history, r, req'[r].input, k, p)
                              /\ (req'[r].kind = "response" /\ req'[r].alone /\ ~req'[r].trimmed)
                                   => k = req'[r].count
          BY <5>1 DEF RunStands
        <5>2. PICK k, p \in Nat :
                /\ Len(req[r].history) = k + Len(req[r].input) + p
                /\ Stands(req[r].history, r, req[r].input, k, p)
                /\ (req[r].kind = "response" /\ req[r].alone /\ ~req[r].trimmed) => k = req[r].count
          BY <4>1 DEF RunStands
        <5> WITNESS k \in Nat, p \in Nat
        <5> QED
          BY <5>1, <5>2
      <4>3. RepliesOwnTurn(r)' <=> RepliesOwnTurn(r)
        BY <3>1 DEF RepliesOwnTurn, Succeeded, Produced, By
      <4> QED
        BY <4>1, <4>2, <4>3
    <3> QED
      BY <1>1, <3>1, <3>2, <3>3 DEF TurnInv, TurnsStand
  <2>2. CASE ~mounted
    <3>1. DOMAIN req' = {}
      BY <1>0, <1>2, <2>2 DEF SetupEffect, Serving
    <3> QED
      BY <1>1, <3>1 DEF TurnInv, Given, Solitary, Counted, TurnsStand
  <2> QED
    BY <2>1, <2>2
<1>3. CASE ArrivalEffect
  BY <1>0, <1>1, <1>3, GivenStep, SolitaryArrival, CountedArrival, TurnsArrival DEF TurnInv
<1>4. CASE CrashEffect
  BY <1>0, <1>1, <1>4, GivenStep, SolitaryCrash, CountedCrash, TurnsCrash DEF TurnInv
<1>5. ASSUME NEW o \in DOMAIN req, ProgressEffect(o) PROVE TurnInv'
  BY <1>0, <1>1, <1>5, GivenStep, SolitaryProgress, CountedProgress, TurnsProgress DEF TurnInv
<1> QED
  BY <1>0, <1>2, <1>3, <1>4, <1>5, StepKinds

LEMMA InitTurns == Init => TurnInv
<1> SUFFICES ASSUME Init PROVE TurnInv
  OBVIOUS
<1>1. DOMAIN req = {}
  BY DEF Init
<1> QED
  BY <1>1, InitApart DEF TurnInv, Given, Solitary, Counted, TurnsStand

\* A response to the user's message alone, of a run that had its conversation to itself
\* and removed nothing, is what the run generated, all of it and in order: the count
\* taken before the run is the number of messages the run starts from.
THEOREM ResponsesAreOwnTurns == Spec => []ReplyOwnTurn
  BY InitTurns, TurnStep, TurnImplies, PTL DEF Spec

-----------------------------------------------------------------------------
(* A reported turn stays.                                                  *)

TurnIn(msgs, r, input, p) == \E k \in Nat : Stands(msgs, r, input, k, p)

\* The turn of r is to be kept.
Keeps(r) ==
  /\ req[r].kind \in Posts /\ req[r].alone
  /\ SaverOf(req[r].model) \in Databases \/ (SaverOf(req[r].model) # None /\ r > crashedAt)
  /\ \A d \in DOMAIN req :
       (d > r /\ SamePlace(req[d], req[r])) => req[d].kind # "delete" /\ ~req[d].trimmed

\* While it runs alone, its thread holds what it works on; once reported, it stands in
\* its thread and in what the later runs there work on.
StaysKept(r) ==
  /\ req[r].pc = "run" => Saved(req[r].model, req[r].thread) = req[r].history
  /\ Succeeded(r) =>
       /\ TurnIn(Saved(req[r].model, req[r].thread), r, req[r].input, Produced(r))
       /\ \A d \in DOMAIN req : (SamePlace(req[d], req[r]) /\ InProgress(req[d])) =>
            /\ d > r
            /\ req[d].pc = "run" => TurnIn(req[d].history, r, req[r].input, Produced(r))

Keeping == \A r \in DOMAIN req : Keeps(r) => StaysKept(r)

KeptInv == TurnInv /\ Keeping

\* A turn is its input and the messages produced.
LEMMA TurnIsReported ==
  ASSUME TypeOK, NEW r \in DOMAIN req, req[r].input \in Inputs, NEW p \in Nat
  PROVE  Turn(r, req[r].input, p) = InputOf(r) \o Messages(r, p)
<1> DEFINE input == req[r].input
           l == Len(input)
           t == Turn(r, input, p)
           a == InputOf(r)
           b == Messages(r, p)
<1>1. l \in Nat /\ DOMAIN input = 1 .. l /\ r \in Nat
  <2>1. input \in Inputs /\ r \in Nat
    BY RunTypes
  <2> HIDE DEF input
  <2> QED
    BY <2>1, InputShape
<1>2. a \in Seq(Message) /\ DOMAIN a = 1 .. l /\ \A j \in 1 .. l : a[j] = [by |-> r, n |-> input[j]]
  BY <1>1, RunTypes DEF InputOf
<1>3. b \in Seq(Message) /\ DOMAIN b = 1 .. p /\ \A j \in 1 .. p : b[j] = [by |-> r, n |-> j]
  <2>1. \A j \in 1 .. p : [by |-> r, n |-> j] \in Message
    BY <1>1 DEF Message
  <2> QED
    BY <2>1 DEF Messages
<1>4. Len(a) = l /\ Len(b) = p
  BY <1>1, <1>2, <1>3
<1>5. /\ DOMAIN t = 1 .. (l + p)
      /\ t = [i \in 1 .. (l + p) |->
                IF i <= l THEN [by |-> r, n |-> input[i]] ELSE [by |-> r, n |-> i - l]]
  BY DEF Turn
<1> HIDE DEF a, b, t, l, input
<1>6. /\ a \o b \in Seq(Message) /\ DOMAIN (a \o b) = 1 .. (l + p)
      /\ \A i \in 1 .. l : (a \o b)[i] = a[i]
      /\ \A j \in 1 .. p : (a \o b)[l + j] = b[j]
  BY <1>2, <1>3, <1>4, ConcatShape, ZenonT(60)
<1>7. ASSUME NEW i \in 1 .. (l + p) PROVE t[i] = (a \o b)[i]
  <2>1. CASE i <= l
    <3>1. i \in 1 .. l
      BY <1>1, <2>1
    <3> QED
      BY <1>2, <1>5, <1>6, <2>1, <3>1
  <2>2. CASE ~(i <= l)
    <3>1. i - l \in 1 .. p /\ l + (i - l) = i
      BY <1>1, <2>2
    <3>2. t[i] = [by |-> r, n |-> i - l]
      BY <1>5, <2>2
    <3>3. (a \o b)[l + (i - l)] = [by |-> r, n |-> i - l]
      BY <1>3, <1>6, <3>1
    <3> QED
      BY <3>1, <3>2, <3>3
  <2> QED
    BY <2>1, <2>2
<1>8. t = [i \in 1 .. (l + p) |-> t[i]]
  BY <1>5
<1>9. a \o b = [i \in 1 .. (l + p) |-> (a \o b)[i]]
  <2>1. PICK c \in Seq(Message) : c = a \o b
    BY <1>6
  <2>2. DOMAIN c = 1 .. (l + p)
    BY <1>6, <2>1
  <2>3. c = [i \in 1 .. (l + p) |-> c[i]]
    BY <2>2
  <2> QED
    BY <2>1, <2>3
<1>10. t = a \o b
  BY <1>7, <1>8, <1>9
<1> QED
  BY <1>10 DEF t, a, b, input

LEMMA KeptImplies == KeptInv => Kept
<1> SUFFICES ASSUME KeptInv, NEW r \in DOMAIN req,
               Succeeded(r), req[r].kind \in Posts, req[r].alone,
               SaverOf(req[r].model) \in Databases \/ (SaverOf(req[r].model) # None /\ r > crashedAt),
               \A d \in (r + 1) .. Len(req) :
                 SamePlace(req[d], req[r]) => req[d].kind # "delete" /\ ~req[d].trimmed
             PROVE  Selected(Saved(req[r].model, req[r].thread),
                             By(Saved(req[r].model, req[r].thread), r))
                      = InputOf(r) \o Messages(r, Produced(r))
  BY DEF Kept
<1> DEFINE saved == Saved(req[r].model, req[r].thread)
<1>0. TypeOK /\ Given /\ Keeping /\ TurnsStand
  BY DEF KeptInv, TurnInv, ApartInv, TypeInv
<1>1. Keeps(r)
  <2>1. \A d \in DOMAIN req : d > r => d \in (r + 1) .. Len(req)
    <3>1. DOMAIN req = 1 .. Len(req) /\ Len(req) \in Nat /\ r \in Nat
      BY <1>0 DEF TypeOK
    <3> QED
      BY <3>1
  <2> QED
    BY <2>1 DEF Keeps
<1>2. saved \in Seq(Message) /\ req[r].input \in Inputs /\ req[r].history \in Seq(Message)
  BY <1>0, RunTypes DEF Given, Requests
<1>3. Produced(r) \in Nat
  <2>1. PICK k \in Nat, p \in Nat : Stands(req[r].history, r, req[r].input, k, p)
    BY <1>0 DEF TurnsStand, RunStands
  <2> QED
    BY <1>2, <2>1, StandsProduced DEF Produced
<1>4. PICK k \in Nat : Stands(saved, r, req[r].input, k, Produced(r))
  BY <1>0, <1>1 DEF Keeping, StaysKept, TurnIn
<1>5. Selected(saved, By(saved, r)) = Turn(r, req[r].input, Produced(r))
  <2> DEFINE input == req[r].input
             p == Produced(r)
  <2>1. saved \in Seq(Message) /\ input \in Inputs /\ p \in Nat /\ Stands(saved, r, input, k, p)
    BY <1>2, <1>3, <1>4
  <2> HIDE DEF saved, input, p
  <2>2. Selected(saved, By(saved, r)) = Turn(r, input, p)
    BY <2>1, StandsSelected
  <2> QED
    BY <2>2 DEF input, p
<1> QED
  BY <1>0, <1>2, <1>3, <1>5, TurnIsReported

\* What a step must do to keep the turn of r.
LEMMA StaysKeptNext ==
  ASSUME Stable, NEW r \in DOMAIN req,
         req'[r].pc = "run" => SavedNext(req[r].model, req[r].thread) = req'[r].history,
         Succeeded(r)' =>
           /\ TurnIn(SavedNext(req[r].model, req[r].thread), r, req[r].input, Produced(r)')
           /\ \A d \in DOMAIN req' : (SamePlace(req[d], req[r])' /\ InProgress(req'[d])) =>
                /\ d > r
                /\ req'[d].pc = "run" => TurnIn(req'[d].history, r, req[r].input, Produced(r)')
  PROVE  StaysKept(r)'
<1>1. Saved(req[r].model, req[r].thread)' = SavedNext(req[r].model, req[r].thread)
  BY SavedPrimed
<1>2. req'[r].input = req[r].input
  BY DEF Stable, SameRequest
<1> QED
  BY <1>1, <1>2 DEF StaysKept, TurnIn, InProgress

\* What another run loads, adds and keeps leaves the turn of r where it is.
LEMMA TurnStaysInRun ==
  ASSUME TypeOK, NEW o \in DOMAIN req, NEW r \in DOMAIN req, r # o, RunEffect(o),
         req[r].input \in Inputs, NEW p \in Nat, req'[o].trimmed = FALSE,
         TurnIn(Saved(req[o].model, req[o].thread), r, req[r].input, p),
         req[o].pc = "run" => TurnIn(req[o].history, r, req[r].input, p)
  PROVE  TurnIn(req'[o].history, r, req[r].input, p)
<1> DEFINE input == req[r].input
           saved == Saved(req[o].model, req[o].thread)
           g == req[o].history
           own == InputOf(o)
           h == req'[o].history
           m == [by |-> o, n |-> Produced(o) + 1]
<1>1. /\ saved \in Seq(Message) /\ g \in Seq(Message) /\ own \in Seq(Message)
      /\ input \in Inputs /\ m \in Message /\ m.by # r
      /\ \A i \in DOMAIN own : own[i].by # r
  BY RunTypes DEF Requests, InputOf, Message
<1>2. (req[o].pc = "invoke" /\ h = saved \o own) \/ (req[o].pc = "run" /\ h = Append(g, m))
  BY DEF RunEffect
<1>3. TurnIn(saved, r, input, p) /\ (req[o].pc = "run" => TurnIn(g, r, input, p))
  OBVIOUS
<1> HIDE DEF input, saved, g, own, h, m
<1>4. CASE h = saved \o own
  <2>1. PICK k \in Nat : Stands(saved, r, input, k, p)
    BY <1>3 DEF TurnIn
  <2>2. Stands(saved \o own, r, input, k, p)
    BY <1>1, <2>1, StandsConcat
  <2>3. TurnIn(h, r, input, p)
    BY <1>4, <2>2 DEF TurnIn
  <2> QED
    BY <2>3 DEF h, input
<1>5. CASE req[o].pc = "run" /\ h = Append(g, m)
  <2>1. PICK k \in Nat : Stands(g, r, input, k, p)
    BY <1>3, <1>5 DEF TurnIn
  <2>2. Stands(Append(g, m), r, input, k, p)
    BY <1>1, <2>1, StandsAppend
  <2>3. TurnIn(h, r, input, p)
    BY <1>5, <2>2 DEF TurnIn
  <2> QED
    BY <2>3 DEF h, input
<1> QED
  BY <1>2, <1>4, <1>5

\* A turn that is still to be kept after a step was to be kept before.
LEMMA KeepsBefore ==
  ASSUME TypeOK, NEW r \in DOMAIN req, Keeps(r)',
         \/ ArrivalEffect \/ CrashEffect \/ \E o \in DOMAIN req : ProgressEffect(o)
  PROVE  Keeps(r)
<1>1. Stable
  BY EffectsStable
<1>2. /\ req[r].kind \in Posts /\ SaverOf(req[r].model)' = SaverOf(req[r].model)
      /\ \A d \in DOMAIN req : SamePlace(req[d], req[r])' <=> SamePlace(req[d], req[r])
  BY <1>1, PlaceStays DEF Keeps, Stable, SameRequest, SaverOf
<1>3. /\ req'[r].alone => req[r].alone
      /\ \A d \in DOMAIN req : /\ req[d].trimmed => req'[d].trimmed
                               /\ req'[d].kind = req[d].kind
  <2>1. CASE ArrivalEffect
    BY <2>1 DEF ArrivalEffect, Undisturbed, SameRequest
  <2>2. CASE CrashEffect
    <3>1. ASSUME NEW d \in DOMAIN req
          PROVE  req'[d].alone = req[d].alone /\ req'[d].trimmed = req[d].trimmed
                 /\ req'[d].kind = req[d].kind
      <4>1. req[d] \in Requests
        BY RunTypes
      <4> QED
        BY <2>2, <4>1 DEF CrashEffect, Requests
    <3> QED
      BY <3>1
  <2>3. ASSUME NEW o \in DOMAIN req, ProgressEffect(o)
        PROVE  /\ req'[r].alone => req[r].alone
               /\ \A d \in DOMAIN req : /\ req[d].trimmed => req'[d].trimmed
                                        /\ req'[d].kind = req[d].kind
    <3>1. req'[o].alone = req[o].alone /\ (req[o].trimmed => req'[o].trimmed)
          /\ req'[o].kind = req[o].kind
      BY <2>3 DEF ProgressEffect, CountEffect, RunEffect, EndEffect, SameRequest
    <3>2. \A d \in DOMAIN req : d # o => req'[d] = req[d]
      BY <2>3 DEF ProgressEffect
    <3> QED
      BY <3>1, <3>2
  <2> QED
    BY <2>1, <2>2, <2>3
<1>4. SaverOf(req[r].model) \in Databases \/ (SaverOf(req[r].model) # None /\ r > crashedAt)
  <2>1. SaverOf(req[r].model) \in Databases \/ (SaverOf(req[r].model) # None /\ r > crashedAt')
    BY <1>2 DEF Keeps
  <2>2. crashedAt' = crashedAt \/ (crashedAt = 0 /\ r > 0)
    <3>1. r \in Nat /\ r # 0
      BY DEF TypeOK
    <3> QED
      BY <3>1 DEF ArrivalEffect, CrashEffect, ProgressEffect
  <2>3. SaverOf(req[r].model) \in Databases \/ SaverOf(req[r].model) # None
    BY <2>1
  <2> QED
    BY <2>1, <2>2
<1>5. \A d \in DOMAIN req :
        (d > r /\ SamePlace(req[d], req[r])) => req[d].kind # "delete" /\ ~req[d].trimmed
  <2>1. \A d \in DOMAIN req :
          (d > r /\ SamePlace(req[d], req[r])') => req'[d].kind # "delete" /\ ~req'[d].trimmed
    BY <1>1 DEF Keeps, Stable
  <2> QED
    BY <1>2, <1>3, <2>1
<1>6. req[r].alone
  BY <1>3 DEF Keeps
<1> QED
  BY <1>2, <1>4, <1>5, <1>6 DEF Keeps

\* The turn of a request that goes on.
LEMMA KeptOwnProgress ==
  ASSUME KeptInv, NEW r \in DOMAIN req, ProgressEffect(r), Keeps(r)'
  PROVE  StaysKept(r)'
<1> DEFINE saved == Saved(req[r].model, req[r].thread)
<1>0. TypeOK /\ Given /\ Solitary /\ TurnsStand /\ Stable /\ Keeps(r) /\ StaysKept(r) /\ Serving
  <2>1. TypeOK /\ Given /\ Solitary /\ TurnsStand /\ Keeping /\ Serving
    BY DEF KeptInv, TurnInv, ApartInv, TypeInv
  <2>2. Stable /\ Keeps(r)
    BY <2>1, EffectsStable, KeepsBefore
  <2> QED
    BY <2>1, <2>2 DEF Keeping
<1>1. /\ req[r].model \in Models /\ InProgress(req[r]) /\ req[r].input \in Inputs
      /\ SaverOf(req[r].model) # None /\ req[r].alone /\ req[r].history \in Seq(Message)
      /\ DOMAIN req' = DOMAIN req /\ \A d \in DOMAIN req : d # r => req'[d] = req[d]
      /\ CountEffect(r) \/ RunEffect(r) \/ EndEffect(r)
  BY <1>0, RunTypes, NoneIsNoSaver DEF ProgressEffect, Requests, Serving, Given, Keeps
<1>2. SavedNext(req[r].model, req[r].thread) = IF RunEffect(r) THEN req'[r].history ELSE saved
  BY <1>0, <1>1, SavedProgress
<1>3. CASE CountEffect(r)
  BY <1>0, <1>3, StaysKeptNext DEF CountEffect, Succeeded
<1>4. CASE RunEffect(r)
  <2>1. req'[r].pc = "run"
    BY <1>4 DEF RunEffect
  <2>2. ~(Succeeded(r)')
    BY <2>1 DEF Succeeded
  <2> QED
    BY <1>0, <1>2, <1>4, <2>2, StaysKeptNext
<1>5. ASSUME EndEffect(r), Succeeded(r)' PROVE StaysKept(r)'
  <2>1. /\ req[r].pc = "run" /\ req'[r].pc = "done" /\ req'[r].history = req[r].history
        /\ ~RunEffect(r)
    BY <1>5 DEF EndEffect, Succeeded, RunEffect
  <2>2. Produced(r)' = Produced(r)
    BY <2>1 DEF Produced, By
  <2>3. PICK k \in Nat, p \in Nat : Stands(req[r].history, r, req[r].input, k, p)
    BY <1>0, <2>1 DEF TurnsStand, RunStands
  <2>4. Produced(r) = p
    BY <1>1, <2>3, StandsProduced DEF Produced
  <2>5. SavedNext(req[r].model, req[r].thread) = req[r].history
    BY <1>0, <1>2, <2>1 DEF StaysKept
  <2>6. TurnIn(SavedNext(req[r].model, req[r].thread), r, req[r].input, Produced(r)')
    BY <2>2, <2>3, <2>4, <2>5 DEF TurnIn
  <2>7. ASSUME NEW d \in DOMAIN req', SamePlace(req[d], req[r])', InProgress(req'[d])
        PROVE  FALSE
    <3>1. d # r /\ d \in DOMAIN req
      BY <1>1, <2>1, <2>7 DEF InProgress
    <3>2. InProgress(req[d]) /\ SamePlace(req[d], req[r])
      BY <1>0, <1>1, <2>7, <3>1, PlaceStays
    <3> QED
      BY <1>0, <1>1, <3>1, <3>2 DEF Solitary
  <2> QED
    BY <1>0, <2>1, <2>6, <2>7, StaysKeptNext
<1>6. ASSUME EndEffect(r), ~(Succeeded(r)') PROVE StaysKept(r)'
  <2>1. req'[r].pc # "run"
    BY <1>6 DEF EndEffect
  <2> QED
    BY <1>0, <1>6, <2>1, StaysKeptNext
<1> QED
  BY <1>1, <1>3, <1>4, <1>5, <1>6

\* The turn of a request while another goes on.
LEMMA KeptOtherProgress ==
  ASSUME KeptInv, NEW o \in DOMAIN req, ProgressEffect(o), NEW r \in DOMAIN req, r # o, Keeps(r)'
  PROVE  StaysKept(r)'
<1> DEFINE saved == Saved(req[r].model, req[r].thread)
           p == Produced(r)
<1>0. TypeOK /\ Given /\ Solitary /\ TurnsStand /\ Stable /\ Keeps(r) /\ StaysKept(r)
  <2>1. TypeOK /\ Given /\ Solitary /\ TurnsStand /\ Keeping
    BY DEF KeptInv, TurnInv, ApartInv, TypeInv
  <2>2. Stable /\ Keeps(r)
    BY <2>1, EffectsStable, KeepsBefore
  <2> QED
    BY <2>1, <2>2 DEF Keeping
<1>1. /\ req[r].model \in Models /\ InProgress(req[o]) /\ req[r].input \in Inputs
      /\ SaverOf(req[r].model) # None /\ req[r].alone /\ req'[r] = req[r]
      /\ req[r].history \in Seq(Message)
      /\ DOMAIN req' = DOMAIN req /\ \A d \in DOMAIN req : d # o => req'[d] = req[d]
      /\ CountEffect(o) \/ RunEffect(o) \/ EndEffect(o)
  BY <1>0, RunTypes, NoneIsNoSaver DEF ProgressEffect, Requests, Given, Keeps
<1>2. SavedNext(req[r].model, req[r].thread) =
        IF RunEffect(o) /\ SamePlace(req[o], req[r]) THEN req'[o].history ELSE saved
  BY <1>0, <1>1, SavedProgress DEF SamePlace
<1>3. Produced(r)' = p
  BY <1>1 DEF Produced, By
<1>4. ASSUME req'[r].pc = "run" PROVE SavedNext(req[r].model, req[r].thread) = req'[r].history
  <2>1. ~SamePlace(req[o], req[r])
    BY <1>0, <1>1, <1>4 DEF Solitary, InProgress
  <2> QED
    BY <1>0, <1>1, <1>2, <1>4, <2>1 DEF StaysKept
<1>5. ASSUME Succeeded(r)'
      PROVE  /\ TurnIn(SavedNext(req[r].model, req[r].thread), r, req[r].input, p)
             /\ \A d \in DOMAIN req' : (SamePlace(req[d], req[r])' /\ InProgress(req'[d])) =>
                  d > r /\ (req'[d].pc = "run" => TurnIn(req'[d].history, r, req[r].input, p))
  <2>1. /\ TurnIn(saved, r, req[r].input, p)
        /\ \A d \in DOMAIN req : (SamePlace(req[d], req[r]) /\ InProgress(req[d])) =>
             d > r /\ (req[d].pc = "run" => TurnIn(req[d].history, r, req[r].input, p))
    BY <1>0, <1>1, <1>5 DEF Succeeded, StaysKept
  <2>2. p \in Nat
    <3>1. PICK k \in Nat, x \in Nat : Stands(req[r].history, r, req[r].input, k, x)
      BY <1>0, <1>1, <1>5 DEF TurnsStand, RunStands, Succeeded, Keeps
    <3> QED
      BY <1>1, <3>1, StandsProduced DEF Produced
  <2>3. ASSUME RunEffect(o), SamePlace(req[o], req[r])
        PROVE  TurnIn(req'[o].history, r, req[r].input, p)
    <3>1. o > r /\ (req[o].pc = "run" => TurnIn(req[o].history, r, req[r].input, p))
      BY <1>1, <2>1, <2>3
    <3>2. Saved(req[o].model, req[o].thread) = saved
      BY <2>3 DEF SamePlace, Saved
    <3>3. SamePlace(req[o], req[r])'
      BY <1>0, <2>3, PlaceStays
    <3>4. req'[o].trimmed = FALSE
      <4>1. ~req'[o].trimmed
        BY <1>1, <3>1, <3>3 DEF Keeps
      <4>2. req'[o].trimmed = TRUE \/ req'[o].trimmed = req[o].trimmed
        BY <2>3 DEF RunEffect
      <4>3. req[o].trimmed \in BOOLEAN
        BY <1>0, RunTypes DEF Requests
      <4> QED
        BY <4>1, <4>2, <4>3
    <3> HIDE DEF saved, p
    <3> QED
      BY <1>0, <1>1, <2>1, <2>2, <2>3, <3>1, <3>2, <3>4, TurnStaysInRun
  <2>4. TurnIn(SavedNext(req[r].model, req[r].thread), r, req[r].input, p)
    BY <1>2, <2>1, <2>3
  <2>5. ASSUME NEW d \in DOMAIN req', SamePlace(req[d], req[r])', InProgress(req'[d])
        PROVE  d > r /\ (req'[d].pc = "run" => TurnIn(req'[d].history, r, req[r].input, p))
    <3>1. SamePlace(req[d], req[r]) /\ d \in DOMAIN req
      BY <1>0, <1>1, <2>5, PlaceStays
    <3>2. CASE d # o
      BY <1>1, <2>1, <2>5, <3>1, <3>2
    <3>3. CASE d = o
      <4>1. d > r
        BY <1>1, <2>1, <3>1, <3>3
      <4>2. req'[o].pc = "run" => RunEffect(o)
        BY <1>1 DEF CountEffect, EndEffect
      <4> QED
        BY <2>3, <3>1, <3>3, <4>1, <4>2
    <3> QED
      BY <3>2, <3>3
  <2> QED
    BY <2>4, <2>5
<1> QED
  BY <1>0, <1>3, <1>4, <1>5, StaysKeptNext

LEMMA KeptArrival ==
  ASSUME KeptInv, ArrivalEffect
  PROVE  Keeping'
<1>n. PICK n : n = Len(req')
  OBVIOUS
<1>0. TypeOK /\ Keeping /\ Stable
  <2>1. TypeOK /\ Keeping
    BY DEF KeptInv, TurnInv, ApartInv, TypeInv
  <2> QED
    BY <2>1, EffectsStable
<1>1. /\ DOMAIN req' = DOMAIN req \cup {n} /\ saver' = saver /\ n \notin DOMAIN req
      /\ \A d \in DOMAIN req : Undisturbed(d)
  BY <1>n DEF ArrivalEffect
<1>2. \A d \in DOMAIN req : d < n
  <2>1. req \in Seq(Requests) /\ n = Len(req) + 1
    BY <1>n, <1>0 DEF ArrivalEffect, TypeOK
  <2> QED
    BY <2>1
<1>3. req'[n].pc # "run" /\ (req'[n].pc = "done" => req'[n].kind \notin Posts)
  BY <1>n DEF ArrivalEffect, CreateEffect, GetEffect, DeleteEffect, UnknownEffect,
     Posts, Chats, Streams
<1>4. Keeps(n)' => StaysKept(n)'
  BY <1>3 DEF Keeps, StaysKept, Succeeded, Posts
<1>5. ASSUME NEW r \in DOMAIN req, Keeps(r)' PROVE StaysKept(r)'
  <2>1. Keeps(r) /\ StaysKept(r) /\ req[r].model \in Models /\ Undisturbed(r)
    <3>1. Keeps(r)
      BY <1>0, <1>5, KeepsBefore
    <3> QED
      BY <1>0, <1>1, <3>1, RunTypes DEF Keeping, Requests
  <2>2. SavedNext(req[r].model, req[r].thread) = Saved(req[r].model, req[r].thread)
    <3>1. SavedNext(req[r].model, req[r].thread) =
            IF req'[n].kind = "delete" /\ SaverOf(req[r].model) = SaverOf(req'[n].model)
               /\ req[r].thread = req'[n].thread
            THEN <<>> ELSE Saved(req[r].model, req[r].thread)
      BY <1>n, <1>0, <2>1, SavedArrival
    <3>2. ASSUME req'[n].kind = "delete" PROVE ~SamePlace(req[r], req'[n])
      <4>1. ~SamePlace(req[n], req[r])'
        BY <1>1, <1>2, <1>5, <3>2 DEF Keeps
      <4> QED
        BY <1>1, <2>1, <4>1, PlaceOfNew DEF Undisturbed
    <3> QED
      BY <3>1, <3>2 DEF SamePlace
  <2>3. Produced(r)' = Produced(r)
    BY <2>1 DEF Undisturbed, Produced, By
  <2>4. req'[r].pc = "run" => SavedNext(req[r].model, req[r].thread) = req'[r].history
    BY <2>1, <2>2 DEF Undisturbed, StaysKept
  <2>5. ASSUME Succeeded(r)'
        PROVE  /\ TurnIn(SavedNext(req[r].model, req[r].thread), r, req[r].input, Produced(r)')
               /\ \A d \in DOMAIN req' : (SamePlace(req[d], req[r])' /\ InProgress(req'[d])) =>
                    /\ d > r
                    /\ req'[d].pc = "run" => TurnIn(req'[d].history, r, req[r].input, Produced(r)')
    <3>1. /\ TurnIn(Saved(req[r].model, req[r].thread), r, req[r].input, Produced(r))
          /\ \A d \in DOMAIN req : (SamePlace(req[d], req[r]) /\ InProgress(req[d])) =>
               /\ d > r
               /\ req[d].pc = "run" => TurnIn(req[d].history, r, req[r].input, Produced(r))
      BY <2>1, <2>5 DEF Undisturbed, Succeeded, StaysKept
    <3>2. ASSUME NEW d \in DOMAIN req, SamePlace(req[d], req[r])', InProgress(req'[d])
          PROVE  /\ d > r
                 /\ req'[d].pc = "run" => TurnIn(req'[d].history, r, req[r].input, Produced(r))
      <4>1. SamePlace(req[d], req[r])
        BY <1>0, <3>2, PlaceStays
      <4>2. InProgress(req[d]) /\ req'[d].pc = req[d].pc /\ req'[d].history = req[d].history
        BY <1>1, <3>2 DEF Undisturbed, InProgress
      <4> QED
        BY <3>1, <4>1, <4>2
    <3>3. n > r
      BY <1>0, <1>2, <1>n DEF TypeOK, ArrivalEffect
    <3> QED
      BY <1>1, <1>3, <2>2, <2>3, <3>1, <3>2, <3>3
  <2> QED
    BY <1>0, <2>4, <2>5, StaysKeptNext
<1> QED
  BY <1>1, <1>4, <1>5 DEF Keeping

LEMMA KeptCrash ==
  ASSUME KeptInv, CrashEffect
  PROVE  Keeping'
<1>0. TypeOK /\ Keeping /\ Stable
  <2>1. TypeOK /\ Keeping
    BY DEF KeptInv, TurnInv, ApartInv, TypeInv
  <2> QED
    BY <2>1, EffectsStable
<1>1. ASSUME NEW d \in DOMAIN req
      PROVE  /\ ~InProgress(req'[d]) /\ req'[d].pc # "run"
             /\ req'[d].pc = "done" => req'[d] = req[d]
  <2>1. req[d] \in Requests
    BY <1>0, RunTypes
  <2> QED
    BY <2>1 DEF CrashEffect, Requests, InProgress
<1>2. ASSUME NEW r \in DOMAIN req, Keeps(r)' PROVE StaysKept(r)'
  <2>1. Keeps(r) /\ StaysKept(r) /\ req[r].model \in Models
    <3>1. Keeps(r)
      BY <1>0, <1>2, KeepsBefore
    <3> QED
      BY <1>0, <3>1, RunTypes DEF Keeping, Requests
  <2>2. SaverOf(req[r].model) \notin Graphs
    <3>1. SaverOf(req[r].model)' = SaverOf(req[r].model)
      BY <1>0 DEF Stable, SameRequest, SaverOf
    <3>2. ~(r > crashedAt')
      <4>1. crashedAt' = Len(req) /\ DOMAIN req = 1 .. Len(req) /\ Len(req) \in Nat
        BY <1>0 DEF CrashEffect, TypeOK
      <4> QED
        BY <4>1
    <3>3. SaverOf(req[r].model) \in Databases
      BY <1>2, <3>1, <3>2 DEF Keeps
    <3> QED
      BY <3>3, GraphAssumption
  <2>3. SavedNext(req[r].model, req[r].thread) = Saved(req[r].model, req[r].thread)
    BY <1>0, <2>1, <2>2, SavedCrash
  <2>4. ASSUME Succeeded(r)'
        PROVE  TurnIn(SavedNext(req[r].model, req[r].thread), r, req[r].input, Produced(r)')
    <3>1. req'[r] = req[r]
      BY <1>1, <2>4 DEF Succeeded
    <3>2. Produced(r)' = Produced(r) /\ Succeeded(r)
      BY <2>4, <3>1 DEF Produced, By, Succeeded
    <3> QED
      BY <2>1, <2>3, <3>2 DEF StaysKept
  <2>5. DOMAIN req' = DOMAIN req
    BY DEF CrashEffect
  <2> QED
    BY <1>0, <1>1, <2>4, <2>5, StaysKeptNext
<1> QED
  BY <1>2 DEF CrashEffect, Keeping

LEMMA KeptStep == KeptInv /\ [Next]_vars => KeptInv'
<1> SUFFICES ASSUME KeptInv, [Next]_vars PROVE KeptInv'
  OBVIOUS
<1>0. TurnInv /\ Keeping /\ TypeOK /\ Serving
  BY DEF KeptInv, TurnInv, ApartInv, TypeInv
<1>1. TurnInv'
  BY <1>0, TurnStep
<1>2. CASE SetupEffect
  <2>1. CASE mounted
    <3>1. saver' = saver /\ store' = store /\ req' = req /\ crashedAt' = crashedAt
      BY <1>2, <2>1 DEF SetupEffect
    <3>2. \A r : Keeps(r)' <=> Keeps(r)
      BY <3>1 DEF Keeps, SamePlace, SaverOf
    <3>3. \A r : StaysKept(r)' <=> StaysKept(r)
      BY <3>1 DEF StaysKept, SamePlace, SaverOf, Saved, Succeeded, Produced, By, InProgress, TurnIn
    <3> QED
      BY <1>0, <1>1, <3>1, <3>2, <3>3 DEF KeptInv, Keeping
  <2>2. CASE ~mounted
    <3>1. DOMAIN req' = {}
      BY <1>0, <1>2, <2>2 DEF SetupEffect, Serving
    <3> QED
      BY <1>1, <3>1 DEF KeptInv, Keeping
  <2> QED
    BY <2>1, <2>2
<1>3. CASE ArrivalEffect
  BY <1>1, <1>3, KeptArrival DEF KeptInv
<1>4. CASE CrashEffect
  BY <1>1, <1>4, KeptCrash DEF KeptInv
<1>5. ASSUME NEW o \in DOMAIN req, ProgressEffect(o) PROVE KeptInv'
  <2>1. DOMAIN req' = DOMAIN req
    BY <1>5 DEF ProgressEffect
  <2>2. Keeping'
    BY <1>5, <2>1, KeptOwnProgress, KeptOtherProgress DEF Keeping
  <2> QED
    BY <1>1, <2>2 DEF KeptInv
<1> QED
  BY <1>0, <1>2, <1>3, <1>4, <1>5, StepKinds

\* A turn reported to the client, and alone while it ran, stays in its conversation as
\* it was reported, whatever later runs there do, but for a deletion, a graph that
\* removes messages, or the loss of the memory it was kept in.
THEOREM TurnsAreKept == Spec => []Kept
<1>1. Init => KeptInv
  <2> SUFFICES ASSUME Init PROVE KeptInv
    OBVIOUS
  <2>1. DOMAIN req = {}
    BY DEF Init
  <2> QED
    BY <2>1, InitTurns DEF KeptInv, Keeping
<1> QED
  BY <1>1, KeptStep, KeptImplies, PTL DEF Spec
=============================================================================
