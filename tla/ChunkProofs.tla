---------------------------- MODULE ChunkProofs ----------------------------
(***************************************************************************)
(* Facts the other proofs share: induction over the numbers up to n, and   *)
(* for every chunk how its tokens are handed out, in which order they are  *)
(* taken out, and what is left.                                            *)
(***************************************************************************)
EXTENDS ResponseEvents, SequenceTheorems, FiniteSetTheorems, TLAPS

\* Induction, in terms of a set.  If n were not in T then neither would be the numbers
\* before it, and going down by one would map what is missing up to n, with n + 1, into
\* a part of itself, which a finite set does not allow.
LEMMA UpTo ==
  ASSUME NEW n \in Nat, NEW T, 0 \in T, \A k \in 0 .. (n - 1) : k \in T => k + 1 \in T
  PROVE  n \in T
<1> SUFFICES ASSUME n \notin T PROVE FALSE
  OBVIOUS
<1> DEFINE U == {k \in 0 .. n : k \notin T} \cup {n + 1}
           f == [u \in U |-> u - 1]
<1>1. IsFiniteSet(0 .. (n + 1)) /\ U \subseteq 0 .. (n + 1)
  BY FS_Interval, SMTT(30)
<1>2. IsFiniteSet(U)
  BY <1>1, FS_Subset
<1>3. ASSUME NEW u \in U PROVE u - 1 \in U
  <2>1. CASE u = n + 1
    BY <2>1
  <2>2. CASE u \in 0 .. n /\ u \notin T
    <3>1. u # 0 /\ u - 1 \in 0 .. (n - 1) /\ (u - 1) + 1 = u
      BY <2>2
    <3> QED
      BY <2>2, <3>1
  <2> QED
    BY <2>1, <2>2
<1>4. f \in Injection(U, U)
  <2>1. f \in [U -> U]
    BY <1>3
  <2>2. \A u, v \in U : f[u] = f[v] => u = v
    BY <1>1
  <2> HIDE DEF f, U
  <2> QED
    BY <2>1, <2>2 DEF Injection, IsInjective
<1>5. \A u \in U : f[u] # n + 1
  BY <1>1
<1>6. n + 1 \in U
  OBVIOUS
<1> HIDE DEF U, f
<1>7. f \in Surjection(U, U)
  BY <1>2, <1>4, FS_Injection
<1> QED
  BY <1>5, <1>6, <1>7 DEF Surjection

-----------------------------------------------------------------------------
(* Sequences put together.  Concat is a function on the length of a        *)
(* sequence that is defined by recursion: such a function exists, which is *)
(* shown by induction, and so is what it computes.                         *)

LEMMA ConcatSteps ==
  ASSUME NEW ss, Len(ss) \in Nat
  PROVE  \E f : /\ f = [n \in 0 .. Len(ss) |-> IF n = 0 THEN <<>> ELSE f[n - 1] \o ss[n]]
                /\ Concat(ss) = f[Len(ss)]
<1> DEFINE R(f, k) == f = [n \in 0 .. k |-> IF n = 0 THEN <<>> ELSE f[n - 1] \o ss[n]]
           T == {k \in Nat : \E f : R(f, k)}
           F == CHOOSE f : R(f, Len(ss))
<1>1. 0 \in T
  <2> DEFINE g == [n \in 0 .. 0 |-> <<>>]
  <2>1. R(g, 0)
    OBVIOUS
  <2> QED
    BY <2>1
<1>2. ASSUME NEW k \in 0 .. (Len(ss) - 1), k \in T PROVE k + 1 \in T
  <2>1. PICK f : R(f, k)
    BY <1>2
  <2> DEFINE g == [n \in 0 .. (k + 1) |-> IF n <= k THEN f[n] ELSE f[k] \o ss[k + 1]]
  <2>2. ASSUME NEW n \in 0 .. (k + 1)
        PROVE  g[n] = IF n = 0 THEN <<>> ELSE g[n - 1] \o ss[n]
    BY <2>1, SMTT(60)
  <2>3. R(g, k + 1)
    BY <2>2
  <2>4. k + 1 \in Nat
    OBVIOUS
  <2> HIDE DEF R, g
  <2> QED
    BY <2>3, <2>4
<1>3. Len(ss) \in T
  <2> HIDE DEF T
  <2> QED
    BY <1>1, <1>2, UpTo
<1>4. \E f : R(f, Len(ss))
  BY <1>3
<1>5. R(F, Len(ss))
  <2> HIDE DEF R
  <2> QED
    BY <1>4
<1>6. Concat(ss) = F[Len(ss)]
  BY DEF Concat
<1> QED
  BY <1>5, <1>6

LEMMA Joined ==
  ASSUME NEW S, NEW u \in Seq(S), NEW v \in Seq(S)
  PROVE  /\ u \o v \in Seq(S) /\ Len(u) \in Nat /\ Len(v) \in Nat
         /\ DOMAIN u = 1 .. Len(u) /\ DOMAIN v = 1 .. Len(v)
         /\ DOMAIN (u \o v) = 1 .. (Len(u) + Len(v))
         /\ \A i \in 1 .. Len(u) : (u \o v)[i] = u[i]
         /\ \A i \in 1 .. Len(v) : (u \o v)[Len(u) + i] = v[i]
  OBVIOUS

\* p says for each element of s from which place in ss it is.
ComesFrom(p, s, ss) ==
  /\ DOMAIN p = DOMAIN s
  /\ \A i \in DOMAIN s : /\ p[i][1] \in DOMAIN ss /\ p[i][2] \in DOMAIN ss[p[i][1]]
                         /\ s[i] = ss[p[i][1]][p[i][2]]
  /\ \A i, j \in DOMAIN s : i # j => p[i][1] # p[j][1] \/ p[i][2] # p[j][2]

LEMMA ConcatPlaces ==
  ASSUME NEW S, NEW ss \in Seq(Seq(S))
  PROVE  Concat(ss) \in Seq(S) /\ \E p : ComesFrom(p, Concat(ss), ss)
<1>1. Len(ss) \in Nat /\ DOMAIN ss = 1 .. Len(ss) /\ \A n \in 1 .. Len(ss) : ss[n] \in Seq(S)
  OBVIOUS
<1>2. PICK f : /\ f = [n \in 0 .. Len(ss) |-> IF n = 0 THEN <<>> ELSE f[n - 1] \o ss[n]]
               /\ Concat(ss) = f[Len(ss)]
  BY <1>1, ConcatSteps
<1> DEFINE Below(p, k) == \A i \in DOMAIN f[k] : p[i][1] <= k
           T == {k \in 0 .. Len(ss) : f[k] \in Seq(S) /\ \E p : ComesFrom(p, f[k], ss) /\ Below(p, k)}
<1>3. 0 \in T
  <2>1. f[0] = <<>>
    BY <1>1, <1>2
  <2>2. ComesFrom(<<>>, f[0], ss) /\ Below(<<>>, 0)
    BY <2>1 DEF ComesFrom
  <2>3. f[0] \in Seq(S)
    BY <2>1
  <2> HIDE DEF Below
  <2> QED
    BY <1>1, <2>2, <2>3
<1>4. ASSUME NEW k \in 0 .. (Len(ss) - 1), k \in T PROVE k + 1 \in T
  <2>1. k + 1 \in 1 .. Len(ss) /\ k + 1 \in 0 .. Len(ss) /\ f[k + 1] = f[k] \o ss[k + 1]
    <3>1. k + 1 \in 1 .. Len(ss) /\ k + 1 \in 0 .. Len(ss) /\ k + 1 # 0 /\ (k + 1) - 1 = k
      BY <1>1
    <3>2. f[k + 1] = IF k + 1 = 0 THEN <<>> ELSE f[(k + 1) - 1] \o ss[k + 1]
      BY <1>2, <3>1
    <3> QED
      BY <3>1, <3>2
  <2>2. f[k] \in Seq(S) /\ ss[k + 1] \in Seq(S)
    BY <1>1, <1>4, <2>1
  <2>3. PICK p : ComesFrom(p, f[k], ss) /\ Below(p, k)
    BY <1>4
  <2> DEFINE l == Len(f[k])
             s == f[k + 1]
             q == [i \in DOMAIN s |-> IF i <= l THEN p[i] ELSE <<k + 1, i - l>>]
  <2>4. /\ s \in Seq(S) /\ l \in Nat /\ DOMAIN f[k] = 1 .. l
        /\ DOMAIN s = 1 .. (l + Len(ss[k + 1])) /\ DOMAIN ss[k + 1] = 1 .. Len(ss[k + 1])
        /\ Len(ss[k + 1]) \in Nat
        /\ \A i \in 1 .. l : s[i] = f[k][i]
        /\ \A i \in DOMAIN ss[k + 1] : s[l + i] = ss[k + 1][i]
    <3>1. PICK u, v : u = f[k] /\ v = ss[k + 1]
      OBVIOUS
    <3>2. u \in Seq(S) /\ v \in Seq(S) /\ s = u \o v /\ l = Len(u)
      BY <2>1, <2>2, <3>1
    <3> HIDE DEF s, l
    <3>3. /\ u \o v \in Seq(S) /\ Len(u) \in Nat /\ Len(v) \in Nat
          /\ DOMAIN u = 1 .. Len(u) /\ DOMAIN v = 1 .. Len(v)
          /\ DOMAIN (u \o v) = 1 .. (Len(u) + Len(v))
          /\ \A i \in 1 .. Len(u) : (u \o v)[i] = u[i]
          /\ \A i \in 1 .. Len(v) : (u \o v)[Len(u) + i] = v[i]
      BY <3>2, Joined, SMTT(30)
    <3>4. PICK w : w = u \o v
      OBVIOUS
    <3> QED
      BY <3>1, <3>2, <3>3, <3>4
  <2> HIDE DEF s, l, q
  <2>5. ASSUME NEW i \in DOMAIN s, i <= l
        PROVE  i \in DOMAIN f[k] /\ s[i] = f[k][i] /\ q[i] = p[i]
    BY <2>4, <2>5 DEF q
  <2>6. ASSUME NEW i \in DOMAIN s, ~(i <= l)
        PROVE  /\ q[i][1] = k + 1 /\ q[i][2] = i - l
               /\ i - l \in DOMAIN ss[k + 1] /\ s[i] = ss[k + 1][i - l]
    <3>1. i - l \in DOMAIN ss[k + 1] /\ l + (i - l) = i
      BY <2>4, <2>6, SMTT(60)
    <3>2. s[l + (i - l)] = ss[k + 1][i - l]
      BY <2>4, <3>1
    <3>3. q[i] = <<k + 1, i - l>>
      BY <2>6 DEF q
    <3> QED
      BY <3>1, <3>2, <3>3
  <2>7. \A i \in DOMAIN s : /\ q[i][1] \in DOMAIN ss /\ q[i][2] \in DOMAIN ss[q[i][1]]
                            /\ s[i] = ss[q[i][1]][q[i][2]] /\ q[i][1] <= k + 1
    <3> SUFFICES ASSUME NEW i \in DOMAIN s
                 PROVE  /\ q[i][1] \in DOMAIN ss /\ q[i][2] \in DOMAIN ss[q[i][1]]
                        /\ s[i] = ss[q[i][1]][q[i][2]] /\ q[i][1] <= k + 1
      OBVIOUS
    <3>1. CASE i <= l
      <4>1. /\ p[i][1] \in DOMAIN ss /\ p[i][2] \in DOMAIN ss[p[i][1]]
            /\ f[k][i] = ss[p[i][1]][p[i][2]] /\ p[i][1] <= k
        BY <2>3, <2>5, <3>1 DEF ComesFrom
      <4>2. p[i][1] <= k + 1
        BY <1>1, <4>1
      <4> QED
        BY <2>5, <3>1, <4>1, <4>2
    <3>2. CASE ~(i <= l)
      BY <1>1, <2>1, <2>6, <3>2
    <3> QED
      BY <3>1, <3>2
  <2>8. \A i, j \in DOMAIN s : i # j => q[i][1] # q[j][1] \/ q[i][2] # q[j][2]
    <3> SUFFICES ASSUME NEW i \in DOMAIN s, NEW j \in DOMAIN s, i # j
                 PROVE  q[i][1] # q[j][1] \/ q[i][2] # q[j][2]
      OBVIOUS
    <3>0. i \in Nat /\ j \in Nat
      BY <2>4
    <3>1. CASE i <= l /\ j <= l
      BY <2>3, <2>5, <3>1, SMTT(30) DEF ComesFrom
    <3>2. CASE ~(i <= l) /\ ~(j <= l)
      <4>1. i - l # j - l
        BY <2>4, <3>0
      <4> QED
        BY <2>6, <3>2, <4>1
    <3>3. ASSUME NEW a \in DOMAIN s, NEW b \in DOMAIN s, a <= l, ~(b <= l) PROVE q[a][1] # q[b][1]
      <4>1. p[a][1] \in DOMAIN ss /\ p[a][1] <= k /\ q[a] = p[a] /\ q[b][1] = k + 1
        BY <2>3, <2>5, <2>6, <3>3 DEF ComesFrom
      <4> QED
        BY <1>1, <4>1
    <3> QED
      BY <3>1, <3>2, <3>3
  <2>9. DOMAIN q = DOMAIN s
    BY DEF q
  <2>10. ComesFrom(q, s, ss)
    BY <2>7, <2>8, <2>9 DEF ComesFrom
  <2>11. Below(q, k + 1)
    BY <2>7 DEF s
  <2> HIDE DEF Below
  <2> QED
    BY <2>1, <2>4, <2>10, <2>11 DEF s
<1> HIDE DEF T
<1>5. Len(ss) \in T
  BY <1>1, <1>3, <1>4, UpTo
<1>6. f[Len(ss)] \in Seq(S) /\ \E p : ComesFrom(p, f[Len(ss)], ss)
  BY <1>5 DEF T
<1> QED
  BY <1>2, <1>6

LEMMA ConcatJoin ==
  ASSUME NEW S, NEW ss \in Seq(Seq(S)), NEW tt \in Seq(Seq(S))
  PROVE  Concat(ss \o tt) = Concat(ss) \o Concat(tt)
<1>1. PICK k, l, u : k = Len(ss) /\ l = Len(tt) /\ u = ss \o tt
  OBVIOUS
<1>2. /\ k \in Nat /\ l \in Nat /\ u \in Seq(Seq(S)) /\ Len(u) = k + l /\ k + l \in Nat
      /\ \A i \in 1 .. k : u[i] = ss[i] /\ ss[i] \in Seq(S)
      /\ \A i \in 1 .. l : u[k + i] = tt[i] /\ tt[i] \in Seq(S)
  BY <1>1
<1>3. PICK f : /\ f = [n \in 0 .. k |-> IF n = 0 THEN <<>> ELSE f[n - 1] \o ss[n]]
               /\ Concat(ss) = f[k]
  BY <1>1, <1>2, ConcatSteps
<1>4. PICK g : /\ g = [n \in 0 .. l |-> IF n = 0 THEN <<>> ELSE g[n - 1] \o tt[n]]
               /\ Concat(tt) = g[l]
  BY <1>1, <1>2, ConcatSteps
<1>5. PICK h : /\ h = [n \in 0 .. (k + l) |-> IF n = 0 THEN <<>> ELSE h[n - 1] \o u[n]]
               /\ Concat(u) = h[k + l]
  BY <1>2, ConcatSteps
<1> DEFINE T == {n \in 0 .. k : h[n] = f[n] /\ f[n] \in Seq(S)}
<1>6. k \in T
  <2>1. 0 \in T
    BY <1>2, <1>3, <1>5
  <2>2. ASSUME NEW n \in 0 .. (k - 1), n \in T PROVE n + 1 \in T
    <3>1. n + 1 \in 1 .. k /\ n + 1 \in 0 .. (k + l) /\ n + 1 \in 0 .. k /\ (n + 1) - 1 = n /\ n + 1 # 0
      BY <1>2
    <3>2. f[n + 1] = f[n] \o ss[n + 1] /\ h[n + 1] = h[n] \o u[n + 1]
      BY <1>3, <1>5, <3>1
    <3>3. u[n + 1] = ss[n + 1] /\ ss[n + 1] \in Seq(S) /\ h[n] = f[n] /\ f[n] \in Seq(S)
      BY <1>2, <2>2, <3>1
    <3>4. f[n] \o ss[n + 1] \in Seq(S)
      BY <3>3
    <3> QED
      BY <3>1, <3>2, <3>3, <3>4
  <2> HIDE DEF T
  <2> QED
    BY <1>2, <2>1, <2>2, UpTo
<1> DEFINE U == {n \in 0 .. l : h[k + n] = f[k] \o g[n] /\ g[n] \in Seq(S)}
<1>7. l \in U
  <2>1. f[k] \in Seq(S) /\ h[k] = f[k]
    BY <1>6
  <2>2. 0 \in U
    <3>1. g[0] = <<>> /\ k + 0 = k /\ 0 \in 0 .. l
      BY <1>2, <1>4
    <3>2. f[k] \o <<>> = f[k]
      BY <2>1, ConcatEmptySeq
    <3>3. h[k + 0] = f[k] \o g[0] /\ g[0] \in Seq(S)
      BY <2>1, <3>1, <3>2
    <3> QED
      BY <3>1, <3>3
  <2>3. ASSUME NEW n \in 0 .. (l - 1), n \in U PROVE n + 1 \in U
    <3>1. /\ n + 1 \in 1 .. l /\ n + 1 \in 0 .. l /\ (n + 1) - 1 = n /\ n + 1 # 0
          /\ k + (n + 1) \in 0 .. (k + l) /\ (k + (n + 1)) - 1 = k + n /\ k + (n + 1) # 0
      BY <1>2
    <3>2. g[n + 1] = g[n] \o tt[n + 1]
      BY <1>4, <3>1
    <3>3. h[k + (n + 1)] = h[k + n] \o u[k + (n + 1)]
      BY <1>5, <3>1
    <3>4. /\ u[k + (n + 1)] = tt[n + 1] /\ tt[n + 1] \in Seq(S)
          /\ h[k + n] = f[k] \o g[n] /\ g[n] \in Seq(S)
      BY <1>2, <2>3, <3>1
    <3>5. (f[k] \o g[n]) \o tt[n + 1] = f[k] \o (g[n] \o tt[n + 1])
      <4>1. PICK x, y, z : x = f[k] /\ y = g[n] /\ z = tt[n + 1]
        OBVIOUS
      <4>2. (x \o y) \o z = x \o (y \o z)
        <5>1. x \in Seq(S) /\ y \in Seq(S) /\ z \in Seq(S)
          BY <2>1, <3>4, <4>1
        <5> QED
          BY <5>1, ConcatAssociative, SMTT(30)
      <4> QED
        BY <4>1, <4>2
    <3>6. g[n] \o tt[n + 1] \in Seq(S)
      BY <3>4
    <3> QED
      BY <3>1, <3>2, <3>3, <3>4, <3>5, <3>6
  <2> HIDE DEF U
  <2> QED
    BY <1>2, <2>2, <2>3, UpTo
<1> QED
  BY <1>1, <1>3, <1>4, <1>5, <1>7

LEMMA ConcatShort ==
  ASSUME NEW S, NEW x \in Seq(S)
  PROVE  Concat(<<>>) = <<>> /\ Concat(<<x>>) = x
<1>1. Concat(<<>>) = <<>>
  <2>1. PICK ss : ss = <<>>
    OBVIOUS
  <2>2. Len(ss) = 0 /\ Len(ss) \in Nat
    BY <2>1
  <2>3. PICK f : /\ f = [n \in 0 .. Len(ss) |-> IF n = 0 THEN <<>> ELSE f[n - 1] \o ss[n]]
                 /\ Concat(ss) = f[Len(ss)]
    BY <2>2, ConcatSteps
  <2>4. f[0] = <<>>
    BY <2>2, <2>3
  <2> QED
    BY <2>1, <2>2, <2>3, <2>4
<1>2. Concat(<<x>>) = x
  <2>1. PICK ss : ss = <<x>>
    OBVIOUS
  <2>2. Len(ss) = 1 /\ Len(ss) \in Nat /\ ss[1] = x
    BY <2>1
  <2>3. PICK f : /\ f = [n \in 0 .. Len(ss) |-> IF n = 0 THEN <<>> ELSE f[n - 1] \o ss[n]]
                 /\ Concat(ss) = f[Len(ss)]
    BY <2>2, ConcatSteps
  <2>4. f[0] = <<>> /\ f[1] = f[0] \o x
    BY <2>2, <2>3
  <2>5. <<>> \o x = x
    BY ConcatEmptySeq
  <2> QED
    BY <2>1, <2>2, <2>3, <2>4, <2>5
<1> QED
  BY <1>1, <1>2

LEMMA ConcatEmpties ==
  ASSUME NEW ss, Len(ss) \in Nat, \A n \in 1 .. Len(ss) : ss[n] = <<>>
  PROVE  Concat(ss) = <<>>
<1>1. PICK k : k = Len(ss)
  OBVIOUS
<1>2. PICK f : /\ f = [n \in 0 .. k |-> IF n = 0 THEN <<>> ELSE f[n - 1] \o ss[n]]
               /\ Concat(ss) = f[k]
  BY <1>1, ConcatSteps
<1> DEFINE T == {n \in 0 .. k : f[n] = <<>>}
<1>3. 0 \in T
  BY <1>1, <1>2
<1>4. ASSUME NEW n \in 0 .. (k - 1), n \in T PROVE n + 1 \in T
  <2>1. n + 1 \in 1 .. k /\ n + 1 \in 0 .. k /\ (n + 1) - 1 = n /\ n + 1 # 0
    BY <1>1
  <2>2. f[n + 1] = f[n] \o ss[n + 1] /\ f[n] = <<>> /\ ss[n + 1] = <<>>
    BY <1>1, <1>2, <1>4, <2>1
  <2>3. <<>> \o <<>> = <<>>
    OBVIOUS
  <2> QED
    BY <2>1, <2>2, <2>3
<1> HIDE DEF T
<1>5. k \in T
  BY <1>1, <1>3, <1>4, UpTo
<1> QED
  BY <1>2, <1>5 DEF T

\* A longer list.
LEMMA ConcatMore ==
  ASSUME NEW S, NEW ss \in Seq(Seq(S)), NEW tt \in Seq(Seq(S)), Len(ss) <= Len(tt),
         \A i \in 1 .. Len(ss) : tt[i] = ss[i]
  PROVE  Concat(tt) = Concat(ss) \o Concat([i \in 1 .. (Len(tt) - Len(ss)) |-> tt[Len(ss) + i]])
<1>1. PICK k, l : k = Len(ss) /\ l = Len(tt) - Len(ss)
  OBVIOUS
<1>2. k \in Nat /\ l \in Nat /\ Len(tt) = k + l /\ DOMAIN tt = 1 .. (k + l) /\ DOMAIN ss = 1 .. k
  BY <1>1
<1>3. PICK uu : uu = [i \in 1 .. l |-> tt[k + i]]
  OBVIOUS
<1>4. PICK Q : Q = Seq(S)
  OBVIOUS
<1>5. uu \in Seq(Q) /\ Len(uu) = l /\ ss \in Seq(Q) /\ tt \in Seq(Q)
  <2>1. \A i \in 1 .. l : k + i \in 1 .. (k + l)
    BY <1>2
  <2>2. tt \in Seq(Q) /\ ss \in Seq(Q)
    BY <1>4
  <2>3. \A i \in 1 .. l : tt[k + i] \in Q
    BY <1>2, <2>1, <2>2
  <2>4. uu \in [1 .. l -> Q]
    BY <1>3, <2>3
  <2> QED
    BY <1>2, <2>2, <2>4
<1>6. tt = ss \o uu
  <2>1. PICK w : w = ss \o uu
    OBVIOUS
  <2>2. /\ w \in Seq(Q) /\ DOMAIN w = 1 .. (k + l)
        /\ \A i \in 1 .. k : w[i] = ss[i]
        /\ \A i \in 1 .. l : w[k + i] = uu[i]
    <3>1. /\ ss \o uu \in Seq(Q)
          /\ DOMAIN (ss \o uu) = 1 .. (Len(ss) + Len(uu))
          /\ \A i \in 1 .. Len(ss) : (ss \o uu)[i] = ss[i]
          /\ \A i \in 1 .. Len(uu) : (ss \o uu)[Len(ss) + i] = uu[i]
      <4>1. \A u, v \in Seq(Q) :
              /\ u \o v \in Seq(Q)
              /\ DOMAIN (u \o v) = 1 .. (Len(u) + Len(v))
              /\ \A i \in 1 .. Len(u) : (u \o v)[i] = u[i]
              /\ \A i \in 1 .. Len(v) : (u \o v)[Len(u) + i] = v[i]
        OBVIOUS
      <4> QED
        BY <1>5, <4>1
    <3> QED
      BY <1>1, <1>5, <2>1, <3>1
  <2>3. ASSUME NEW i \in 1 .. (k + l) PROVE w[i] = tt[i]
    <3>1. CASE i \in 1 .. k
      BY <1>1, <2>2, <3>1
    <3>2. CASE i \notin 1 .. k
      <4>1. i - k \in 1 .. l /\ k + (i - k) = i
        BY <1>2, <3>2
      <4> QED
        BY <1>3, <2>2, <4>1
    <3> QED
      BY <3>1, <3>2
  <2>4. w = [i \in 1 .. (k + l) |-> w[i]] /\ tt = [i \in 1 .. (k + l) |-> tt[i]]
    BY <1>2, <1>5, <2>2
  <2> QED
    BY <2>1, <2>3, <2>4
<1>7. uu \in Seq(Seq(S))
  BY <1>4, <1>5
<1>8. Concat(ss \o uu) = Concat(ss) \o Concat(uu)
  BY <1>7, ConcatJoin
<1> QED
  BY <1>1, <1>3, <1>6, <1>8

\* The last of a list comes last.
LEMMA ConcatLast ==
  ASSUME NEW S, NEW tt \in Seq(Seq(S)), Len(tt) # 0
  PROVE  LET front == [i \in 1 .. (Len(tt) - 1) |-> tt[i]]
         IN /\ Concat(tt) = Concat(front) \o tt[Len(tt)]
            /\ Concat(front) \in Seq(S) /\ tt[Len(tt)] \in Seq(S)
<1>1. PICK k, front : k = Len(tt) - 1 /\ front = [i \in 1 .. (Len(tt) - 1) |-> tt[i]]
  OBVIOUS
<1>2. PICK Q : Q = Seq(S)
  OBVIOUS
<1>3. tt \in Seq(Q)
  BY <1>2
<1>4. /\ k \in Nat /\ Len(tt) = k + 1 /\ DOMAIN tt = 1 .. (k + 1) /\ k + 1 \in DOMAIN tt
      /\ \A i \in 1 .. k : i \in DOMAIN tt
  BY <1>1, <1>3
<1>5. front \in [1 .. k -> Q] /\ \A i \in 1 .. k : tt[i] = front[i]
  BY <1>1, <1>3, <1>4
<1>6. front \in Seq(Q) /\ Len(front) = k
  BY <1>4, <1>5
<1>7. tt[k + 1] \in Q
  BY <1>3, <1>4
<1>8. PICK uu : uu = [i \in 1 .. (Len(tt) - Len(front)) |-> tt[Len(front) + i]]
  OBVIOUS
<1>9. Concat(tt) = Concat(front) \o Concat(uu)
  <2>1. front \in Seq(Seq(S)) /\ Len(front) <= Len(tt) /\ \A i \in 1 .. Len(front) : tt[i] = front[i]
    BY <1>2, <1>4, <1>5, <1>6
  <2> QED
    BY <1>8, <2>1, ConcatMore
<1>10. uu = <<tt[k + 1]>>
  <2>1. Len(tt) - Len(front) = 1 /\ 1 .. 1 = {1}
    BY <1>4, <1>6
  <2>2. uu = [i \in 1 .. 1 |-> tt[k + i]]
    BY <1>6, <1>8, <2>1
  <2> QED
    BY <2>2
<1>11. Concat(uu) = tt[k + 1]
  <2>1. PICK x : x = tt[k + 1]
    OBVIOUS
  <2>2. x \in Seq(S)
    BY <1>2, <1>7, <2>1
  <2>3. Concat(<<x>>) = x
    BY <2>2, ConcatShort
  <2> QED
    BY <1>10, <2>1, <2>3
<1>12. Concat(front) \in Seq(S)
  <2>1. front \in Seq(Seq(S))
    BY <1>2, <1>6
  <2> QED
    BY <2>1, ConcatPlaces
<1> QED
  BY <1>1, <1>2, <1>4, <1>7, <1>9, <1>11, <1>12

\* One more at the end.
LEMMA ConcatAppend ==
  ASSUME NEW S, NEW ss \in Seq(Seq(S)), NEW x \in Seq(S)
  PROVE  Concat(Append(ss, x)) = Concat(ss) \o x
<1>1. PICK Q : Q = Seq(S)
  OBVIOUS
<1>2. ss \in Seq(Q) /\ x \in Q
  BY <1>1
<1>3. Append(ss, x) = ss \o <<x>>
  BY <1>2, AppendIsConcat
<1>4. <<x>> \in Seq(Seq(S))
  OBVIOUS
<1>5. Concat(ss \o <<x>>) = Concat(ss) \o Concat(<<x>>)
  BY <1>4, ConcatJoin
<1> QED
  BY <1>3, <1>5, ConcatShort

\* The elements of a sequence, one by one.
LEMMA ConcatSingles ==
  ASSUME NEW S, NEW s \in Seq(S), NEW ss, ss = [i \in DOMAIN s |-> <<s[i]>>]
  PROVE  Concat(ss) = s
<1>1. PICK l : l = Len(s)
  OBVIOUS
<1>2. l \in Nat /\ DOMAIN s = 1 .. l /\ Len(ss) = l
  BY <1>1
<1>3. \A i \in 1 .. l : s[i] \in S /\ ss[i] = <<s[i]>>
  BY <1>1
<1>4. PICK f : /\ f = [n \in 0 .. l |-> IF n = 0 THEN <<>> ELSE f[n - 1] \o ss[n]]
               /\ Concat(ss) = f[l]
  <2>1. Len(ss) \in Nat
    BY <1>2
  <2>2. PICK f : /\ f = [n \in 0 .. Len(ss) |-> IF n = 0 THEN <<>> ELSE f[n - 1] \o ss[n]]
                 /\ Concat(ss) = f[Len(ss)]
    BY <2>1, ConcatSteps
  <2> QED
    BY <1>2, <2>2
<1> DEFINE T == {n \in 0 .. l : f[n] \in Seq(S) /\ Len(f[n]) = n /\ \A i \in 1 .. n : f[n][i] = s[i]}
<1>5. 0 \in T
  <2>1. PICK u : u = f[0]
    OBVIOUS
  <2>2. u = <<>>
    BY <1>2, <1>4, <2>1
  <2>3. u \in Seq(S) /\ Len(u) = 0 /\ \A i \in 1 .. 0 : u[i] = s[i]
    BY <2>2
  <2> QED
    BY <1>2, <2>1, <2>3
<1>6. ASSUME NEW n \in 0 .. (l - 1), n \in T PROVE n + 1 \in T
  <2>1. n + 1 \in 1 .. l /\ n + 1 \in 0 .. l /\ (n + 1) - 1 = n /\ n + 1 # 0
    BY <1>2
  <2>2. f[n + 1] = f[n] \o <<s[n + 1]>>
    BY <1>3, <1>4, <2>1
  <2>3. PICK u, x, w : u = f[n] /\ x = s[n + 1] /\ w = f[n + 1]
    OBVIOUS
  <2>4. u \in Seq(S) /\ x \in S /\ Len(u) = n /\ (\A i \in 1 .. n : u[i] = s[i]) /\ w = Append(u, x)
    <3>1. u \in Seq(S) /\ Len(u) = n /\ \A i \in 1 .. n : u[i] = s[i]
      BY <1>6, <2>3
    <3>2. x \in S /\ w = u \o <<x>>
      BY <1>3, <2>1, <2>2, <2>3
    <3> QED
      BY <3>1, <3>2, AppendIsConcat
  <2>5. w \in Seq(S) /\ Len(w) = n + 1 /\ w[n + 1] = x /\ \A i \in 1 .. n : w[i] = s[i]
    BY <2>4
  <2>6. \A i \in 1 .. (n + 1) : i \in 1 .. n \/ i = n + 1
    BY <1>2
  <2> QED
    BY <2>1, <2>3, <2>5, <2>6
<1> HIDE DEF T
<1>7. l \in T
  BY <1>2, <1>5, <1>6, UpTo
<1>8. PICK w : w = f[l]
  OBVIOUS
<1>9. w \in Seq(S) /\ Len(w) = l /\ \A i \in 1 .. l : w[i] = s[i]
  BY <1>7, <1>8 DEF T
<1>10. w = s
  BY <1>1, <1>2, <1>9
<1> QED
  BY <1>4, <1>8, <1>10

-----------------------------------------------------------------------------
\* Reasoning comes before text, text before the fragments, and these in turn.
InOrder(c) ==
  /\ c.reasoning # 0 /\ c.text # 0 => c.reasoning < c.text
  /\ \A j \in DOMAIN c.frags : c.frags[j].args # 0 =>
       c.reasoning < c.frags[j].args /\ c.text < c.frags[j].args
  /\ \A j, k \in DOMAIN c.frags :
       (j < k /\ c.frags[j].args # 0 /\ c.frags[k].args # 0)
         => c.frags[j].args < c.frags[k].args

LEMMA FragmentFields ==
  ASSUME NEW c \in Pending, NEW j \in DOMAIN c.frags
  PROVE  /\ c.frags[j] \in TokenFrag /\ c.frags[j].args \in Nat
         /\ c.frags[j].index \in Nat \cup {None} /\ c.frags[j].id \in Nat \cup {None}
         /\ c.frags[j].origin \in Nat
<1>1. c.frags \in Seq(TokenFrag)
  BY DEF Pending
<1>2. c.frags[j] \in TokenFrag
  BY <1>1
<1> QED
  BY <1>2 DEF TokenFrag

\* The tokens of a chunk are positive numbers.
LEMMA TokensType == ASSUME NEW c \in Pending PROVE TokensOf(c) \subseteq Nat \ {0}
<1>1. \A j \in DOMAIN c.frags : c.frags[j].args \in Nat
  BY FragmentFields
<1> QED
  BY <1>1 DEF TokensOf, Pending

LEMMA NothingLeft == InOrder(Nothing) /\ TokensOf(Nothing) = {}
  BY DEF Nothing, InOrder, TokensOf

\* Taking out the reasoning, which is the first piece, or else the text.
LEMMA TakeOut ==
  ASSUME NEW c \in Pending, InOrder(c), NEW d, NEW x,
         \/ x = c.reasoning /\ d = [c EXCEPT !.reasoning = 0]
         \/ x = c.text /\ c.reasoning = 0 /\ d = [c EXCEPT !.text = 0],
         x # 0
  PROVE  /\ InOrder(d) /\ x \in TokensOf(c) /\ TokensOf(c) = TokensOf(d) \cup {x}
         /\ \A y \in TokensOf(d) : x < y
<1>1. c.reasoning \in Nat /\ c.text \in Nat
  BY DEF Pending
<1>2. \A j \in DOMAIN c.frags : c.frags[j].args \in Nat
  BY FragmentFields
<1>3. CASE x = c.reasoning /\ d = [c EXCEPT !.reasoning = 0]
  <2>1. d.reasoning = 0 /\ d.text = c.text /\ d.frags = c.frags
    BY <1>3 DEF Pending
  <2> QED
    BY <1>1, <1>2, <1>3, <2>1 DEF InOrder, TokensOf
<1>4. CASE x = c.text /\ c.reasoning = 0 /\ d = [c EXCEPT !.text = 0]
  <2>1. d.reasoning = 0 /\ d.text = 0 /\ d.frags = c.frags
    BY <1>4 DEF Pending
  <2> QED
    BY <1>1, <1>2, <1>4, <2>1 DEF InOrder, TokensOf
<1> QED
  BY <1>3, <1>4

\* The text taken out of turn.
LEMMA DropText ==
  ASSUME NEW c \in Pending, InOrder(c)
  PROVE  LET d == [c EXCEPT !.text = 0]
         IN  InOrder(d) /\ TokensOf(d) \subseteq TokensOf(c) /\ d.frags = c.frags
<1> DEFINE d == [c EXCEPT !.text = 0]
<1>1. d.reasoning = c.reasoning /\ d.text = 0 /\ d.frags = c.frags
  BY DEF Pending
<1>2. \A j \in DOMAIN c.frags : c.frags[j].args \in Nat
  BY FragmentFields
<1>3. c.reasoning \in Nat
  BY DEF Pending
<1> HIDE DEF d
<1>4. InOrder(d)
  BY <1>1, <1>2, <1>3 DEF InOrder
<1>5. TokensOf(d) \subseteq TokensOf(c)
  BY <1>1 DEF TokensOf
<1> QED
  BY <1>1, <1>4, <1>5 DEF d

\* Taking out the first fragment, when reasoning and text are out.
LEMMA TakeFragment ==
  ASSUME NEW c \in Pending, InOrder(c), c.reasoning = 0, c.text = 0, c.frags # <<>>,
         NEW d, d = [c EXCEPT !.frags = Tail(@)]
  PROVE  LET x == Head(c.frags).args
         IN /\ InOrder(d)
            /\ x = 0 => TokensOf(d) = TokensOf(c)
            /\ x # 0 => /\ x \in TokensOf(c) /\ TokensOf(c) = TokensOf(d) \cup {x}
                        /\ \A y \in TokensOf(d) : x < y
<1> DEFINE x == Head(c.frags).args
           Left == TokensOf(c)
           Then == TokensOf(d)
<1>1. c.frags \in Seq(TokenFrag)
  BY DEF Pending
<1>2. \A j \in DOMAIN c.frags : c.frags[j].args \in Nat
  BY FragmentFields
<1>3. d.reasoning = 0 /\ d.text = 0 /\ d.frags = Tail(c.frags)
  BY <1>1 DEF Pending
<1>4. /\ Len(c.frags) \in Nat /\ Len(c.frags) >= 1
      /\ DOMAIN c.frags = 1 .. Len(c.frags)
      /\ DOMAIN d.frags = 1 .. (Len(c.frags) - 1)
      /\ \A j \in 1 .. (Len(c.frags) - 1) : d.frags[j] = c.frags[j + 1]
  BY <1>1, <1>3
<1>5. x = c.frags[1].args
  BY <1>1
<1>6. InOrder(d)
  <2>1. \A j \in DOMAIN d.frags : d.frags[j].args # 0 => 0 < d.frags[j].args
    <3> SUFFICES ASSUME NEW j \in DOMAIN d.frags, d.frags[j].args # 0
                 PROVE  0 < d.frags[j].args
      OBVIOUS
    <3>1. d.frags[j] = c.frags[j + 1] /\ j + 1 \in DOMAIN c.frags
      BY <1>4
    <3>2. d.frags[j].args \in Nat
      BY <1>2, <3>1
    <3> QED
      BY <3>2
  <2>2. \A j, k \in DOMAIN d.frags :
          (j < k /\ d.frags[j].args # 0 /\ d.frags[k].args # 0)
            => d.frags[j].args < d.frags[k].args
    <3> SUFFICES ASSUME NEW j \in DOMAIN d.frags, NEW k \in DOMAIN d.frags, j < k,
                        d.frags[j].args # 0, d.frags[k].args # 0
                 PROVE  d.frags[j].args < d.frags[k].args
      OBVIOUS
    <3>1. /\ d.frags[j] = c.frags[j + 1] /\ d.frags[k] = c.frags[k + 1]
          /\ j + 1 \in DOMAIN c.frags /\ k + 1 \in DOMAIN c.frags /\ j + 1 < k + 1
      BY <1>4
    <3> QED
      BY <3>1 DEF InOrder
  <2> QED
    BY <1>3, <2>1, <2>2 DEF InOrder
<1>7. Left = {c.frags[j].args : j \in DOMAIN c.frags} \ {0}
  BY DEF TokensOf
<1>8. Then = {d.frags[j].args : j \in DOMAIN d.frags} \ {0}
  BY <1>3 DEF TokensOf
<1> HIDE DEF Left, Then
<1>9. \A y : y \in Then <=> y # 0 /\ \E j \in 2 .. Len(c.frags) : y = c.frags[j].args
  <2>1. ASSUME NEW y \in Then
        PROVE  y # 0 /\ \E j \in 2 .. Len(c.frags) : y = c.frags[j].args
    <3>1. PICK j \in DOMAIN d.frags : y = d.frags[j].args
      BY <1>8, <2>1
    <3>2. j + 1 \in 2 .. Len(c.frags) /\ y = c.frags[j + 1].args
      BY <1>4, <3>1
    <3> QED
      BY <1>8, <2>1, <3>2
  <2>2. ASSUME NEW y, y # 0, NEW j \in 2 .. Len(c.frags), y = c.frags[j].args
        PROVE  y \in Then
    <3>1. j - 1 \in DOMAIN d.frags /\ d.frags[j - 1] = c.frags[j]
      BY <1>4
    <3> QED
      BY <1>8, <2>2, <3>1
  <2> QED
    BY <2>1, <2>2
<1>10. Left \subseteq Then \cup {x} /\ Then \subseteq Left
  <2>1. ASSUME NEW y \in Left PROVE y \in Then \cup {x}
    <3>1. PICK j \in 1 .. Len(c.frags) : y # 0 /\ y = c.frags[j].args
      BY <1>4, <1>7, <2>1
    <3>2. j = 1 \/ j \in 2 .. Len(c.frags)
      BY <1>4
    <3> QED
      BY <1>5, <1>9, <3>1, <3>2
  <2>2. ASSUME NEW y \in Then PROVE y \in Left
    <3>1. PICK j \in 2 .. Len(c.frags) : y # 0 /\ y = c.frags[j].args
      BY <1>9, <2>2
    <3>2. j \in DOMAIN c.frags
      BY <1>4
    <3> QED
      BY <1>7, <3>1, <3>2
  <2> QED
    BY <2>1, <2>2
<1>11. x # 0 => x \in Left /\ \A y \in Then : x < y
  <2> SUFFICES ASSUME x # 0 PROVE x \in Left /\ \A y \in Then : x < y
    OBVIOUS
  <2>1. x \in Left
    BY <1>4, <1>5, <1>7
  <2>2. ASSUME NEW y \in Then PROVE x < y
    <3>1. PICK j \in 2 .. Len(c.frags) : y # 0 /\ y = c.frags[j].args
      BY <1>9, <2>2
    <3>2. 1 \in DOMAIN c.frags /\ j \in DOMAIN c.frags /\ 1 < j
      BY <1>4
    <3> QED
      BY <1>5, <3>1, <3>2 DEF InOrder
  <2> QED
    BY <2>1, <2>2
<1>12. x = 0 => x \notin Left
  BY <1>7
<1> QED
  BY <1>6, <1>10, <1>11, <1>12 DEF Left, Then

\* A delivered chunk holds tokens, in order and all of them new.
LEMMA FillOrder ==
  ASSUME NEW fed \in Nat, NEW k, k \in ChunkKind({k.node})
  PROVE  LET c == Contents(Fill(k, fed))
         IN /\ c \in Pending /\ InOrder(c) /\ TokensOf(c) = TokensOf(Fill(k, fed))
            /\ c.frags = Fill(k, fed).frags
            /\ \A x \in TokensOf(c) : x \in Nat /\ fed < x /\ x <= fed + 2 + Len(k.frags)
            /\ Len(k.frags) \in Nat
<1> DEFINE c == Contents(Fill(k, fed))
<1>1. k.frags \in Seq(Fragment)
  BY DEF ChunkKind
<1>2. Len(k.frags) \in Nat /\ DOMAIN k.frags = 1 .. Len(k.frags)
  BY <1>1
<1>3. /\ c.reasoning = IF k.reasoning THEN fed + 1 ELSE 0
      /\ c.text = IF k.text THEN fed + 2 ELSE 0
      /\ DOMAIN c.frags = 1 .. Len(k.frags)
      /\ \A j \in DOMAIN c.frags : c.frags[j].args = IF k.frags[j].args THEN fed + 2 + j ELSE 0
  BY <1>2 DEF Contents, Fill
<1>4. InOrder(c)
  BY <1>2, <1>3, SMTT(30) DEF InOrder
<1>5. TokensOf(c) = TokensOf(Fill(k, fed)) /\ c.frags = Fill(k, fed).frags
  BY DEF TokensOf, Contents
<1>6. \A x \in TokensOf(c) : x \in Nat /\ fed < x /\ x <= fed + 2 + Len(k.frags)
  BY <1>2, <1>3 DEF TokensOf
<1>7. c \in Pending
  <2>1. \A j \in DOMAIN k.frags : k.frags[j] \in Fragment
    BY <1>1
  <2>2. Fill(k, fed).frags \in [1 .. Len(k.frags) -> TokenFrag]
    BY <1>2, <2>1 DEF Fill, Fragment, TokenFrag
  <2>3. Fill(k, fed).frags \in Seq(TokenFrag)
    BY <1>2, <2>2
  <2>4. Fill(k, fed).reasoning \in Nat /\ Fill(k, fed).text \in Nat
    BY DEF Fill
  <2> QED
    BY <2>3, <2>4 DEF Contents, Pending
<1> QED
  BY <1>2, <1>4, <1>5, <1>6, <1>7

-----------------------------------------------------------------------------
(* The pieces of calls.                                                    *)

\* p is one of the pieces P, but for what it carries.
Like(p, P) == \E f \in P : p.origin = f.origin /\ p.index = f.index /\ p.id = f.id

\* Two pieces of a provider that can be followed have one key exactly when they are of
\* one call, and they then agree on its id.
LEMMA PiecesTell ==
  ASSUME NEW P, Followable(P), NamedOneWay(P),
         NEW p, NEW q, Like(p, P), Like(q, P), NEW m, NEW n
  PROVE  /\ p.origin = 0 => KeyOf(p, m) = <<"anon", m>> /\ p.id = None
         /\ p.origin # 0 => KeyOf(p, m)[1] # "anon" /\ KeyOf(p, m) = KeyOf(p, n)
         /\ p.origin # 0 => (KeyOf(p, m) = KeyOf(q, n) <=> p.origin = q.origin)
         /\ p.origin = q.origin /\ p.id # None /\ q.id # None => p.id = q.id
<1>1. PICK f \in P : p.origin = f.origin /\ p.index = f.index /\ p.id = f.id
  BY DEF Like
<1>2. PICK g \in P : q.origin = g.origin /\ q.index = g.index /\ q.id = g.id
  BY DEF Like
<1>3. /\ f.origin = 0 <=> f.index = None /\ f.id = None
      /\ g.origin = 0 <=> g.index = None /\ g.id = None
      /\ f.index # None /\ g.index # None => (f.index = g.index <=> f.origin = g.origin)
      /\ f.id # None /\ g.id # None => (f.id = g.id <=> f.origin = g.origin)
      /\ f.origin = g.origin /\ f.origin # 0 => (f.index = None <=> g.index = None)
  BY DEF Followable, NamedOneWay
<1>4. /\ p.origin = 0 <=> p.index = None /\ p.id = None
      /\ q.origin = 0 <=> q.index = None /\ q.id = None
      /\ p.index # None /\ q.index # None => (p.index = q.index <=> p.origin = q.origin)
      /\ p.id # None /\ q.id # None => (p.id = q.id <=> p.origin = q.origin)
      /\ p.origin = q.origin /\ p.origin # 0 => (p.index = None <=> q.index = None)
  BY <1>1, <1>2, <1>3
<1>5. p.origin = 0 => KeyOf(p, m) = <<"anon", m>> /\ p.id = None
  BY <1>4 DEF KeyOf
<1>6. p.origin # 0 => KeyOf(p, m)[1] # "anon" /\ KeyOf(p, m) = KeyOf(p, n)
  BY <1>4 DEF KeyOf
<1>7. p.origin # 0 => (KeyOf(p, m) = KeyOf(q, n) <=> p.origin = q.origin)
  BY <1>4 DEF KeyOf
<1>8. p.origin = q.origin /\ p.id # None /\ q.id # None => p.id = q.id
  BY <1>4
<1> QED
  BY <1>5, <1>6, <1>7, <1>8
=============================================================================
