--------------------------- MODULE MessageProofs ---------------------------
(***************************************************************************)
(* What the proofs about ChatStream and about StreamedTurn share on how    *)
(* messages are put together and turned into items.  AddFragments is a     *)
(* function on the length of a sequence that is defined by recursion, as   *)
(* Concat is in ChunkProofs.                                               *)
(***************************************************************************)
EXTENDS MessageItems, ChunkProofs

\* The lists of calls that f goes through.
AddsUp(f, calls, frags, first) ==
  /\ f[0] = calls /\ AddFragments(calls, frags, first) = f[Len(frags)]
  /\ \A n \in 1 .. Len(frags) : f[n] = AddFragment(f[n - 1], frags[n], first)

LEMMA AddFragmentsSteps ==
  ASSUME NEW calls, NEW frags, NEW first, Len(frags) \in Nat
  PROVE  \E f : AddsUp(f, calls, frags, first)
<1> DEFINE R(f, k) == f = [n \in 0 .. k |->
                             IF n = 0 THEN calls ELSE AddFragment(f[n - 1], frags[n], first)]
           T == {k \in Nat : \E f : R(f, k)}
           F == CHOOSE f : R(f, Len(frags))
<1>1. 0 \in T
  <2> DEFINE g == [n \in 0 .. 0 |-> calls]
  <2>1. R(g, 0)
    OBVIOUS
  <2> QED
    BY <2>1
<1>2. ASSUME NEW k \in 0 .. (Len(frags) - 1), k \in T PROVE k + 1 \in T
  <2>1. PICK f : R(f, k)
    BY <1>2
  <2> DEFINE g == [n \in 0 .. (k + 1) |->
                     IF n <= k THEN f[n] ELSE AddFragment(f[k], frags[k + 1], first)]
  <2>2. ASSUME NEW n \in 0 .. (k + 1)
        PROVE  g[n] = IF n = 0 THEN calls ELSE AddFragment(g[n - 1], frags[n], first)
    BY <2>1
  <2>3. R(g, k + 1)
    BY <2>2
  <2>4. k + 1 \in Nat
    OBVIOUS
  <2> HIDE DEF R, g
  <2> QED
    BY <2>3, <2>4
<1>3. Len(frags) \in T
  <2> HIDE DEF T
  <2> QED
    BY <1>1, <1>2, UpTo
<1>4. \E f : R(f, Len(frags))
  BY <1>3
<1>5. R(F, Len(frags))
  <2> HIDE DEF R
  <2> QED
    BY <1>4
<1>6. AddFragments(calls, frags, first) = F[Len(frags)]
  BY DEF AddFragments
<1>7. F[0] = calls /\ \A n \in 1 .. Len(frags) : F[n] = AddFragment(F[n - 1], frags[n], first)
  <2> HIDE DEF F
  <2>1. PICK f : f = F /\ R(f, Len(frags))
    <3> HIDE DEF R
    <3> QED
      BY <1>5
  <2>2. f[0] = calls
    BY <2>1
  <2>3. \A n \in 1 .. Len(frags) : f[n] = AddFragment(f[n - 1], frags[n], first)
    BY <2>1
  <2> HIDE DEF R
  <2> QED
    BY <2>1, <2>2, <2>3
<1> HIDE DEF F
<1>8. AddsUp(F, calls, frags, first)
  BY <1>6, <1>7 DEF AddsUp
<1> QED
  BY <1>8

\* Fragments are added one after the other, from the first.
LEMMA AddFragmentsNext ==
  ASSUME NEW calls, NEW first, NEW F, NEW frags \in Seq(F), frags # <<>>
  PROVE  AddFragments(calls, frags, first) =
           AddFragments(AddFragment(calls, Head(frags), first), Tail(frags), first)
<1>0. PICK l, d, t : l = Len(frags) /\ d = AddFragment(calls, Head(frags), first) /\ t = Tail(frags)
  OBVIOUS
<1>1. /\ l \in Nat /\ l >= 1 /\ Head(frags) = frags[1] /\ Len(t) = l - 1
      /\ \A n \in 1 .. (l - 1) : t[n] = frags[n + 1]
  BY <1>0
<1>2. PICK f : /\ f[0] = calls /\ AddFragments(calls, frags, first) = f[l]
               /\ \A n \in 1 .. l : f[n] = AddFragment(f[n - 1], frags[n], first)
  <2>1. Len(frags) \in Nat
    BY <1>0, <1>1
  <2>2. PICK f : AddsUp(f, calls, frags, first)
    BY <2>1, AddFragmentsSteps
  <2> QED
    BY <1>0, <2>2 DEF AddsUp
<1>3. PICK g : /\ g[0] = d /\ AddFragments(d, t, first) = g[l - 1]
               /\ \A n \in 1 .. (l - 1) : g[n] = AddFragment(g[n - 1], t[n], first)
  <2>1. Len(t) \in Nat
    BY <1>1
  <2>2. PICK g : AddsUp(g, d, t, first)
    BY <2>1, AddFragmentsSteps
  <2> QED
    BY <1>1, <2>2 DEF AddsUp
<1>4. f[1] = d
  <2>1. 1 \in 1 .. l /\ 1 - 1 = 0
    BY <1>1
  <2>2. f[0] = calls
    BY <1>2, <2>1
  <2>3. f[1] = AddFragment(f[1 - 1], frags[1], first)
    BY <1>2, <2>1
  <2> QED
    BY <1>0, <1>1, <2>1, <2>2, <2>3
<1> DEFINE T == {k \in 0 .. (l - 1) : g[k] = f[k + 1]}
<1>5. 0 \in T
  <2>1. 0 \in 0 .. (l - 1) /\ 0 + 1 = 1
    BY <1>1
  <2>2. g[0] = d
    BY <1>3, <2>1
  <2> QED
    BY <1>4, <2>1, <2>2
<1>6. ASSUME NEW k \in 0 .. ((l - 1) - 1), k \in T PROVE k + 1 \in T
  <2>1. PICK m : m = k + 1
    OBVIOUS
  <2>2. /\ m \in 1 .. (l - 1) /\ m \in 0 .. (l - 1) /\ m - 1 = k
        /\ m + 1 \in 1 .. l /\ (m + 1) - 1 = m
    BY <1>1, <2>1
  <2>3. g[m] = AddFragment(g[m - 1], t[m], first)
    BY <1>3, <2>2
  <2>4. f[m + 1] = AddFragment(f[(m + 1) - 1], frags[m + 1], first)
    BY <1>2, <2>2
  <2>5. g[k] = f[m] /\ t[m] = frags[m + 1]
    BY <1>1, <1>6, <2>1, <2>2
  <2> QED
    BY <2>1, <2>2, <2>3, <2>4, <2>5
<1>7. l - 1 \in Nat
  BY <1>1
<1> HIDE DEF T
<1>8. l - 1 \in T
  BY <1>5, <1>6, <1>7, UpTo
<1>9. g[l - 1] = f[(l - 1) + 1] /\ (l - 1) + 1 = l
  BY <1>1, <1>8 DEF T
<1> QED
  BY <1>0, <1>2, <1>3, <1>9

LEMMA AddFragmentsNone ==
  ASSUME NEW calls, NEW first
  PROVE  AddFragments(calls, <<>>, first) = calls
<1>1. PICK none : none = <<>>
  OBVIOUS
<1>2. Len(none) = 0
  BY <1>1
<1>3. PICK f : AddsUp(f, calls, none, first)
  <2>1. Len(none) \in Nat
    BY <1>2
  <2> QED
    BY <2>1, AddFragmentsSteps
<1>4. f[0] = calls /\ AddFragments(calls, none, first) = f[Len(none)]
  BY <1>3 DEF AddsUp
<1> QED
  BY <1>1, <1>2, <1>3, <1>4

\* A fragment is a call of its own, or one call takes it in.
NewCall(calls, f) ==
  [origin |-> f.origin, index |-> f.index, id |-> f.id, args |-> Token(f.args),
   object |-> IsObject(calls, f)]
Taken(calls, f, n) == Merged(calls[n], f, IsObject(calls, f))

LEMMA FragmentAdded ==
  ASSUME NEW S, NEW calls \in Seq(S), NEW f, NEW first
  PROVE  \/ AddFragment(calls, f, first) = Append(calls, NewCall(calls, f))
         \/ \E n \in DOMAIN calls :
              /\ ~first /\ Joins(calls[n], f)
              /\ AddFragment(calls, f, first) = [calls EXCEPT ![n] = Taken(calls, f, n)]
<1>1. DOMAIN calls = 1 .. Len(calls) /\ Len(calls) \in Nat
  OBVIOUS
<1>2. CASE first \/ ~\E n \in DOMAIN calls : Joins(calls[n], f)
  BY <1>2 DEF AddFragment, NewCall
<1>3. CASE ~first /\ \E n \in DOMAIN calls : Joins(calls[n], f)
  <2>1. PICK n \in DOMAIN calls : IsTarget(calls, f, n)
    <3> SUFFICES ASSUME \A n \in DOMAIN calls : ~IsTarget(calls, f, n) PROVE FALSE
      OBVIOUS
    <3> DEFINE T == {k \in 0 .. Len(calls) : \A j \in 1 .. k : ~Joins(calls[j], f)}
    <3>1. 0 \in T
      BY <1>1
    <3>2. ASSUME NEW k \in 0 .. (Len(calls) - 1), k \in T PROVE k + 1 \in T
      <4>1. PICK n : n = k + 1
        OBVIOUS
      <4>2. n \in DOMAIN calls /\ n \in 0 .. Len(calls) /\ n - 1 = k /\ 1 .. n = (1 .. k) \cup {n}
        BY <1>1, <4>1
      <4>3. ~Joins(calls[n], f)
        BY <3>2, <4>2 DEF IsTarget
      <4> QED
        BY <3>2, <4>1, <4>2, <4>3
    <3> HIDE DEF T
    <3>3. Len(calls) \in T
      BY <1>1, <3>1, <3>2, UpTo
    <3> QED
      BY <1>1, <1>3, <3>3 DEF T
  <2>2. ASSUME NEW k \in DOMAIN calls, k # n PROVE ~IsTarget(calls, f, k)
    <3>1. k \in 1 .. (n - 1) \/ n \in 1 .. (k - 1)
      BY <1>1, <2>2
    <3> QED
      BY <2>1, <3>1 DEF IsTarget
  <2>3. AddFragment(calls, f, first) =
          [k \in DOMAIN calls |->
             IF IsTarget(calls, f, k) THEN Merged(calls[k], f, IsObject(calls, f)) ELSE calls[k]]
    BY <1>3 DEF AddFragment
  <2>4. AddFragment(calls, f, first) = [calls EXCEPT ![n] = Taken(calls, f, n)]
    <3> SUFFICES \A k \in DOMAIN calls :
                   (IF IsTarget(calls, f, k) THEN Merged(calls[k], f, IsObject(calls, f)) ELSE calls[k])
                     = [calls EXCEPT ![n] = Taken(calls, f, n)][k]
      BY <2>3
    <3> QED
      BY <2>1, <2>2 DEF Taken
  <2> QED
    BY <1>3, <2>1, <2>4 DEF IsTarget
<1> QED
  BY <1>2, <1>3

\* The calls that LangChain has read, in their order.
LEMMA ToolCallsAre ==
  ASSUME NEW S, NEW m, m.calls \in Seq(S)
  PROVE  /\ ToolCalls(m) \in Seq(S)
         /\ \A i \in DOMAIN ToolCalls(m) :
              \E n \in DOMAIN m.calls : m.calls[n].object /\ ToolCalls(m)[i] = m.calls[n]
         /\ \A i, j \in DOMAIN ToolCalls(m) : i # j =>
              \E n, k \in DOMAIN m.calls : /\ n # k /\ ToolCalls(m)[i] = m.calls[n]
                                           /\ ToolCalls(m)[j] = m.calls[k]
<1> DEFINE kept(c) == IF c.object THEN <<c>> ELSE <<>>
           ss == [i \in DOMAIN m.calls |-> kept(m.calls[i])]
<1>1. DOMAIN m.calls = 1 .. Len(m.calls) /\ Len(m.calls) \in Nat /\ \A i \in DOMAIN m.calls : m.calls[i] \in S
  OBVIOUS
<1>2. ToolCalls(m) = Concat(ss)
  BY DEF ToolCalls
<1>3. ASSUME NEW i \in DOMAIN m.calls, NEW k \in DOMAIN kept(m.calls[i])
      PROVE  k = 1 /\ m.calls[i].object /\ kept(m.calls[i])[k] = m.calls[i]
  BY <1>3
<1>4. \A i \in DOMAIN m.calls : kept(m.calls[i]) \in Seq(S)
  BY <1>1
<1> HIDE DEF kept
<1>5. ss \in Seq(Seq(S)) /\ DOMAIN ss = DOMAIN m.calls
  <2>1. ss \in [1 .. Len(m.calls) -> Seq(S)]
    BY <1>1, <1>4
  <2> QED
    BY <1>1, <2>1
<1>6. PICK p : ComesFrom(p, Concat(ss), ss)
  BY <1>5, ConcatPlaces
<1>7. \A i \in DOMAIN m.calls : ss[i] = kept(m.calls[i])
  OBVIOUS
<1> HIDE DEF ss
<1>8. ASSUME NEW i \in DOMAIN ToolCalls(m)
      PROVE  /\ p[i][1] \in DOMAIN m.calls /\ m.calls[p[i][1]].object
             /\ ToolCalls(m)[i] = m.calls[p[i][1]] /\ p[i][2] = 1
  <2>1. PICK n, k : n = p[i][1] /\ k = p[i][2]
    OBVIOUS
  <2>2. n \in DOMAIN m.calls /\ k \in DOMAIN ss[n] /\ ToolCalls(m)[i] = ss[n][k]
    BY <1>2, <1>5, <1>6, <2>1 DEF ComesFrom
  <2>3. k \in DOMAIN kept(m.calls[n]) /\ ToolCalls(m)[i] = kept(m.calls[n])[k]
    BY <1>7, <2>2
  <2>4. k = 1 /\ m.calls[n].object /\ kept(m.calls[n])[k] = m.calls[n]
    BY <1>3, <2>2, <2>3
  <2> QED
    BY <2>1, <2>2, <2>3, <2>4
<1>9. \A i, j \in DOMAIN ToolCalls(m) : i # j => p[i][1] # p[j][1]
  <2> SUFFICES ASSUME NEW i \in DOMAIN ToolCalls(m), NEW j \in DOMAIN ToolCalls(m), i # j
               PROVE  p[i][1] # p[j][1]
    OBVIOUS
  <2>1. p[i][1] # p[j][1] \/ p[i][2] # p[j][2]
    BY <1>2, <1>6 DEF ComesFrom
  <2> QED
    BY <1>8, <2>1
<1>10. ToolCalls(m) \in Seq(S)
  BY <1>2, <1>5, ConcatPlaces
<1> QED
  BY <1>8, <1>9, <1>10

LEMMA ThoughtsAre ==
  ASSUME NEW m, m.thought \in Seq(Nat) \cup {None}, m.blocks \in Seq(Seq(Nat))
  PROVE  Thoughts(m) \in Seq(Seq(Nat))
<1>1. CASE m.thought # None
  <2>1. m.thought \in Seq(Nat)
    BY <1>1
  <2>2. <<m.thought>> \in Seq(Seq(Nat))
    BY <2>1
  <2> QED
    BY <1>1, <2>2 DEF Thoughts
<1>2. CASE m.thought = None
  <2> DEFINE kept(b) == IF b = <<>> THEN <<>> ELSE <<b>>
             ss == [i \in DOMAIN m.blocks |-> kept(m.blocks[i])]
  <2>1. \A b \in Seq(Nat) : kept(b) \in Seq(Seq(Nat))
    OBVIOUS
  <2>2. \A i \in DOMAIN m.blocks : m.blocks[i] \in Seq(Nat)
    OBVIOUS
  <2>3. DOMAIN m.blocks = 1 .. Len(m.blocks) /\ Len(m.blocks) \in Nat
    OBVIOUS
  <2>4. Thoughts(m) = Concat(ss)
    BY <1>2 DEF Thoughts
  <2> HIDE DEF kept
  <2>5. ss \in [1 .. Len(m.blocks) -> Seq(Seq(Nat))]
    BY <2>1, <2>2, <2>3
  <2>6. ss \in Seq(Seq(Seq(Nat)))
    BY <2>3, <2>5
  <2> HIDE DEF ss
  <2> QED
    BY <2>4, <2>6, ConcatPlaces
<1> QED
  BY <1>1, <1>2
=============================================================================
