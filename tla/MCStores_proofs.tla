------------------------------ MODULE MCStores_proofs ------------------------------
(***************************************************************************)
(* Proofs about the modality stores: what they hold for every set of       *)
(* entities, callers, types and edges, every number of records and         *)
(* versions and every movement of the clocks.                              *)
(***************************************************************************)
EXTENDS MCStores, SequenceTheorems, FiniteSetTheorems, NaturalsInduction, WellFoundedInduction, TLAPS

-----------------------------------------------------------------------------
(* Numbers, sequences and recursive functions                              *)

(* A set of numbers that is not empty has a least member.                  *)
LEMMA LeastOf ==
    ASSUME NEW T \in SUBSET Nat, T # {}
    PROVE  \E x \in T : \A y \in T : x <= y
<1>1. PICK x \in T : \A y \in T : ~(<<y, x>> \in OpToRel(<, Nat))
  BY NatLessThanWellFounded, WFMin, Zenon
<1>2. \A y \in T : ~(y < x)
  BY <1>1 DEF OpToRel
<1>3. x \in Nat /\ \A y \in T : y \in Nat
  OBVIOUS
<1>4. \A y \in T : x <= y
  BY <1>2, <1>3
<1> QED BY <1>4

(* f starts with a and goes on with step.                                  *)
Follows(f, V, a, step, N) ==
    f \in [0..N -> V] /\ f[0] = a /\ \A i \in 1..N : f[i] = step[<<i, f[i - 1]>>]

(* A function that is told where to start and how to go on exists: the     *)
(* recursive functions of the stores are what their definitions say.       *)
LEMMA Recurses ==
    ASSUME NEW V, NEW a \in V, NEW step \in [Nat \X V -> V], NEW N \in Nat
    PROVE  \E f : Follows(f, V, a, step, N)
<1> DEFINE Good(n) == \E f \in [0..n -> V] : f[0] = a /\ \A i \in 1..n : f[i] = step[<<i, f[i - 1]>>]
           Bad == {n \in Nat : ~Good(n)}
<1>1. ASSUME Bad # {} PROVE FALSE
  <2>1. PICK n \in Bad : \A y \in Bad : n <= y
    <3>1. Bad \in SUBSET Nat
      OBVIOUS
    <3> HIDE DEF Bad
    <3> QED BY <1>1, <3>1, LeastOf
  <2>2. n \in Nat /\ ~Good(n)
    BY <2>1
  <2>3. CASE n = 0
    <3> DEFINE g == [i \in 0..0 |-> a]
    <3>1. g \in [0..0 -> V] /\ g[0] = a
      OBVIOUS
    <3>2. \A i \in 1..0 : g[i] = step[<<i, g[i - 1]>>]
      OBVIOUS
    <3> HIDE DEF g
    <3>3. Good(0)
      BY <3>1, <3>2
    <3> QED BY <2>2, <2>3, <3>3
  <2>4. CASE n # 0
    <3>1. n - 1 \in Nat /\ ~(n <= n - 1)
      BY <2>2, <2>4
    <3>2. Good(n - 1)
      BY <2>1, <3>1
    <3>3. PICK f \in [0..(n - 1) -> V] : f[0] = a /\ \A i \in 1..(n - 1) : f[i] = step[<<i, f[i - 1]>>]
      BY <3>2
    <3> DEFINE g == [i \in 0..n |-> IF i = n THEN step[<<n, f[n - 1]>>] ELSE f[i]]
    <3>4. f[n - 1] \in V /\ step[<<n, f[n - 1]>>] \in V
      BY <2>2, <3>1, <3>3
    <3>5. g \in [0..n -> V]
      BY <2>2, <3>3, <3>4
    <3>6. \A i \in 0..n : g[i] = IF i = n THEN step[<<n, f[n - 1]>>] ELSE f[i]
      OBVIOUS
    <3> HIDE DEF g
    <3>7. g[0] = a
      BY <2>2, <2>4, <3>3, <3>6
    <3>8. \A i \in 1..n : g[i] = step[<<i, g[i - 1]>>]
      <4> SUFFICES ASSUME NEW i \in 1..n PROVE g[i] = step[<<i, g[i - 1]>>]
        OBVIOUS
      <4>1. g[i - 1] = f[i - 1]
        BY <2>2, <3>6
      <4>2. CASE i = n
        <5>1. g[n] = step[<<n, f[n - 1]>>]
          BY <2>2, <3>6
        <5> QED BY <4>1, <4>2, <5>1, Zenon
      <4>3. CASE i # n
        <5>1. i \in 1..(n - 1) /\ i \in 0..n
          BY <2>2, <4>3
        <5> QED BY <3>3, <3>6, <4>1, <4>3, <5>1
      <4> QED BY <4>2, <4>3
    <3>9. Good(n)
      BY <3>5, <3>7, <3>8
    <3> QED BY <2>2, <3>9
  <2> QED BY <2>3, <2>4
<1>2. Good(N)
  BY <1>1
<1> QED BY <1>2 DEF Follows

LEMMA FunctionIsSeq ==
    ASSUME NEW X, NEW n \in Nat, NEW f \in [1..n -> X]
    PROVE  f \in Seq(X) /\ Len(f) = n
OBVIOUS

(* The elements of a sequence from m to n.                                 *)
LEMMA SubSeqIs ==
    ASSUME NEW S, NEW t \in Seq(S), NEW m \in 1..(Len(t) + 1), NEW n \in (m - 1)..Len(t)
    PROVE  /\ SubSeq(t, m, n) \in Seq(S)
           /\ Len(SubSeq(t, m, n)) = n - m + 1
           /\ \A i \in 1..(n - m + 1) : SubSeq(t, m, n)[i] = t[m + i - 1]
<1>0. Len(t) \in Nat /\ \A i \in 1..Len(t) : t[i] \in S
  BY LenProperties, ElementOfSeq
<1>1. m \in Int /\ n \in Int /\ \A i \in m..n : t[i] \in S
  BY <1>0
<1>2. /\ SubSeq(t, m, n) \in Seq(S) /\ Len(SubSeq(t, m, n)) = IF m <= n THEN n - m + 1 ELSE 0
      /\ \A i \in 1..(n - m + 1) : SubSeq(t, m, n)[i] = t[m + i - 1]
  BY <1>1, SubSeqProperties
<1>3. (IF m <= n THEN n - m + 1 ELSE 0) = n - m + 1
  BY <1>0
<1> QED BY <1>2, <1>3

-----------------------------------------------------------------------------
(* Lineages                                                                *)

(* A record with the five fields of ProvenanceRecord and no other.         *)
IsRecord(r) ==
    r = [event |-> r.event, actor |-> r.actor, time |-> r.time, parent |-> r.parent, hash |-> r.hash]

IsChain(c) == (\E S : c \in Seq(S)) /\ \A i \in 1..Len(c) : IsRecord(c[i])

(* Two chains that verify and end in the same digest are the same chain:   *)
(* the digest of a record fixes its fields and the digest before it, and   *)
(* no record has the digest of the genesis.                                *)
LEMMA DigestFixesChain ==
    ASSUME NEW S, NEW T, NEW c \in Seq(S), NEW d \in Seq(T),
           \A i \in 1..Len(c) : IsRecord(c[i]), \A i \in 1..Len(d) : IsRecord(d[i]),
           ChainVerifies(c), ChainVerifies(d), LastHash(c) = LastHash(d)
    PROVE  c = d
<1> DEFINE m == Len(c)  n == Len(d)
           Same(k) == (k <= m /\ k <= n) => ParentOf(c, m + 1 - k) = ParentOf(d, n + 1 - k)
           Bad == {k \in Nat : ~Same(k)}
<1>0. m \in Nat /\ n \in Nat /\ DOMAIN c = 1..m /\ DOMAIN d = 1..n
  OBVIOUS
<1>1. \A i \in 1..m : /\ c[i].parent = ParentOf(c, i)
                      /\ ParentOf(c, i + 1) = <<c[i].event, c[i].actor, c[i].time, c[i].parent>>
  BY <1>0 DEF ChainVerifies, RecordVerifies, ComputeHash, ParentOf
<1>2. \A i \in 1..n : /\ d[i].parent = ParentOf(d, i)
                      /\ ParentOf(d, i + 1) = <<d[i].event, d[i].actor, d[i].time, d[i].parent>>
  BY <1>0 DEF ChainVerifies, RecordVerifies, ComputeHash, ParentOf
<1>3. ParentOf(c, 1) = <<>> /\ ParentOf(d, 1) = <<>>
  BY DEF ParentOf, GenesisHash
<1>4. ParentOf(c, m + 1) = ParentOf(d, n + 1)
  BY DEF LastHash
<1> HIDE DEF m, n
<1>5. ASSUME Bad # {} PROVE FALSE
  <2>1. PICK k \in Bad : \A y \in Bad : k <= y
    <3>1. Bad \in SUBSET Nat
      OBVIOUS
    <3> HIDE DEF Bad
    <3> QED BY <1>5, <3>1, LeastOf
  <2>2. k \in Nat /\ k <= m /\ k <= n /\ ParentOf(c, m + 1 - k) # ParentOf(d, n + 1 - k)
    BY <2>1
  <2>3. k # 0
    BY <1>0, <1>4, <2>2
  <2>4. k - 1 \in Nat /\ k - 1 <= m /\ k - 1 <= n /\ ~(k <= k - 1)
    BY <1>0, <2>2, <2>3
  <2>5. ParentOf(c, m + 1 - (k - 1)) = ParentOf(d, n + 1 - (k - 1))
    BY <2>1, <2>4
  <2> DEFINE i == m + 1 - k  j == n + 1 - k
  <2>6. i \in 1..m /\ j \in 1..n /\ m + 1 - (k - 1) = i + 1 /\ n + 1 - (k - 1) = j + 1
    BY <1>0, <2>2, <2>3
  <2> HIDE DEF i, j
  <2>7. <<c[i].event, c[i].actor, c[i].time, c[i].parent>> = <<d[j].event, d[j].actor, d[j].time, d[j].parent>>
    BY <1>1, <1>2, <2>5, <2>6
  <2>8. c[i].parent = d[j].parent
    BY <2>7
  <2>9. ParentOf(c, i) = ParentOf(d, j)
    BY <1>1, <1>2, <2>6, <2>8
  <2> QED BY <2>2, <2>9 DEF i, j
<1>6. \A k \in Nat : Same(k)
  BY <1>5
<1> HIDE DEF Bad
<1>7. m = n
  <2>1. ASSUME m < n PROVE FALSE
    <3>1. ParentOf(c, m + 1 - m) = ParentOf(d, n + 1 - m)
      BY <1>0, <1>6, <2>1
    <3>2. m + 1 - m = 1 /\ n - m \in 1..n /\ n + 1 - m = (n - m) + 1
      BY <1>0, <2>1
    <3>3. <<>> = <<d[n - m].event, d[n - m].actor, d[n - m].time, d[n - m].parent>>
      BY <1>2, <1>3, <3>1, <3>2
    <3> QED BY <3>3
  <2>2. ASSUME n < m PROVE FALSE
    <3>1. ParentOf(c, m + 1 - n) = ParentOf(d, n + 1 - n)
      BY <1>0, <1>6, <2>2
    <3>2. n + 1 - n = 1 /\ m - n \in 1..m /\ m + 1 - n = (m - n) + 1
      BY <1>0, <2>2
    <3>3. <<>> = <<c[m - n].event, c[m - n].actor, c[m - n].time, c[m - n].parent>>
      BY <1>1, <1>3, <3>1, <3>2
    <3> QED BY <3>3
  <2> QED BY <1>0, <2>1, <2>2
<1>8. ASSUME NEW i \in 1..m PROVE c[i] = d[i]
  <2>1. m - i \in Nat /\ m - i <= m /\ m + 1 - (m - i) = i + 1
    BY <1>0
  <2>2. ParentOf(c, i + 1) = ParentOf(d, i + 1)
    BY <1>6, <1>7, <2>1
  <2>3. <<c[i].event, c[i].actor, c[i].time, c[i].parent>> = <<d[i].event, d[i].actor, d[i].time, d[i].parent>>
    BY <1>1, <1>2, <1>7, <2>2
  <2>4. c[i].event = d[i].event /\ c[i].actor = d[i].actor /\ c[i].time = d[i].time /\ c[i].parent = d[i].parent
    BY <2>3
  <2>5. i + 1 # 1 /\ i + 1 - 1 = i
    BY <1>0
  <2>6. c[i].hash = d[i].hash
    BY <2>2, <2>5 DEF ParentOf
  <2>7. IsRecord(c[i]) /\ IsRecord(d[i])
    BY <1>7 DEF m, n
  <2> QED BY <2>4, <2>6, <2>7 DEF IsRecord
<1> QED BY <1>0, <1>7, <1>8 DEF m, n


(* An edit of a chain is a chain.                                          *)
LEMMA EditsAreChains ==
    ASSUME NEW c, IsChain(c), NEW d \in Edits(c)
    PROVE  IsChain(d)
<1>1. PICK S : c \in Seq(S)
  BY DEF IsChain
<1>2. Len(c) \in Nat /\ DOMAIN c = 1..Len(c) /\ \A i \in 1..Len(c) : c[i] \in S /\ IsRecord(c[i])
  BY <1>1 DEF IsChain
<1>3. ASSUME NEW i \in 1..Len(c), NEW x, IsRecord(x) PROVE IsChain(ReplaceAt(c, i, x))
  <2>1. ReplaceAt(c, i, x) \in Seq(S \cup {x}) /\ Len(ReplaceAt(c, i, x)) = Len(c)
    BY <1>1, <1>2 DEF ReplaceAt
  <2>2. \A j \in 1..Len(c) : ReplaceAt(c, i, x)[j] = IF j = i THEN x ELSE c[j]
    BY <1>1, <1>2 DEF ReplaceAt
  <2>3. \A j \in 1..Len(c) : IsRecord(ReplaceAt(c, i, x)[j])
    BY <1>2, <1>3, <2>2
  <2> QED BY <2>1, <2>3 DEF IsChain
<1>4. ASSUME NEW i \in 1..Len(c), NEW x \in Altered(c[i]) PROVE IsRecord(x) /\ IsRecord(Rehashed(x))
  BY DEF Altered, Rehashed, IsRecord
<1>5. ASSUME NEW i \in 1..Len(c), NEW j \in 1..Len(c) PROVE IsChain([c EXCEPT ![i] = c[j], ![j] = c[i]])
  <2> DEFINE e == [c EXCEPT ![i] = c[j], ![j] = c[i]]
  <2>1. e \in Seq(S) /\ Len(e) = Len(c)
    BY <1>1, <1>2
  <2>2. \A k \in 1..Len(c) : e[k] = IF k = j THEN c[i] ELSE IF k = i THEN c[j] ELSE c[k]
    BY <1>1, <1>2
  <2> HIDE DEF e
  <2>3. \A k \in 1..Len(c) : IsRecord(e[k])
    BY <1>2, <2>2
  <2>4. IsChain(e)
    BY <2>1, <2>3 DEF IsChain
  <2> QED BY <2>4 DEF e
<1>6. ASSUME NEW i \in 1..Len(c) PROVE IsChain(RemoveAt(c, i))
  <2> DEFINE e == RemoveAt(c, i)
             p == SubSeq(c, 1, i - 1)
             q == SubSeq(c, i + 1, Len(c))
  <2>a. p \in Seq(S) /\ Len(p) = i - 1 /\ \A k \in 1..(i - 1) : p[k] = c[k]
    <3>1. 1 \in 1..(Len(c) + 1) /\ i - 1 \in (1 - 1)..Len(c)
      BY <1>2
    <3>2. p \in Seq(S) /\ Len(p) = i - 1 - 1 + 1 /\ \A k \in 1..(i - 1 - 1 + 1) : p[k] = c[1 + k - 1]
      BY <1>1, <3>1, SubSeqIs
    <3> HIDE DEF p
    <3>3. i - 1 - 1 + 1 = i - 1 /\ \A k \in 1..(i - 1) : 1 + k - 1 = k
      BY <1>2
    <3> QED BY <3>2, <3>3
  <2>b. q \in Seq(S) /\ Len(q) = Len(c) - i /\ \A k \in 1..(Len(c) - i) : q[k] = c[k + i]
    <3>1. i + 1 \in 1..(Len(c) + 1) /\ Len(c) \in (i + 1 - 1)..Len(c)
      BY <1>2
    <3>2. q \in Seq(S) /\ Len(q) = Len(c) - (i + 1) + 1 /\ \A k \in 1..(Len(c) - (i + 1) + 1) : q[k] = c[(i + 1) + k - 1]
      BY <1>1, <3>1, SubSeqIs
    <3> HIDE DEF q
    <3>3. Len(c) - (i + 1) + 1 = Len(c) - i /\ \A k \in 1..(Len(c) - i) : (i + 1) + k - 1 = k + i
      BY <1>2
    <3> QED BY <3>2, <3>3
  <2>c. e = p \o q
    BY DEF RemoveAt
  <2> HIDE DEF e, p, q
  <2>d. /\ e \in Seq(S) /\ Len(e) = Len(p) + Len(q)
        /\ \A k \in 1..(Len(p) + Len(q)) : e[k] = IF k <= Len(p) THEN p[k] ELSE q[k - Len(p)]
    BY <2>a, <2>b, <2>c, ConcatProperties
  <2>1. e \in Seq(S) /\ Len(e) = Len(c) - 1
    BY <1>2, <2>a, <2>b, <2>d
  <2>2. \A k \in 1..(Len(c) - 1) : e[k] = IF k < i THEN c[k] ELSE c[k + 1]
    <3> SUFFICES ASSUME NEW k \in 1..(Len(c) - 1) PROVE e[k] = IF k < i THEN c[k] ELSE c[k + 1]
      OBVIOUS
    <3>1. CASE k < i
      <4>1. k \in 1..(Len(p) + Len(q)) /\ k <= Len(p) /\ k \in 1..(i - 1)
        BY <1>2, <2>a, <2>b, <3>1
      <4>2. e[k] = p[k]
        BY <2>d, <4>1
      <4> QED BY <2>a, <3>1, <4>1, <4>2
    <3>2. CASE ~(k < i)
      <4>1. k - (i - 1) \in 1..(Len(c) - i) /\ (k - (i - 1)) + i = k + 1
        BY <1>2, <3>2
      <4>2. e[k] = q[k - (i - 1)]
        <5>1. k \in 1..(Len(p) + Len(q)) /\ ~(k <= Len(p)) /\ k - Len(p) = k - (i - 1)
          BY <1>2, <2>a, <2>b, <3>2
        <5>2. e[k] = q[k - Len(p)]
          BY <2>d, <5>1
        <5> QED BY <5>1, <5>2
      <4> QED BY <2>b, <3>2, <4>1, <4>2
    <3> QED BY <3>1, <3>2
  <2> HIDE DEF e
  <2>3. \A k \in 1..(Len(c) - 1) : IsRecord(e[k])
    BY <1>2, <2>2
  <2>4. IsChain(e)
    BY <2>1, <2>3 DEF IsChain
  <2> QED BY <2>4 DEF e
<1>7. ASSUME NEW i \in 1..Len(c) PROVE IsChain(InsertAt(c, i, c[i]))
  <2> DEFINE e == InsertAt(c, i, c[i])
  <2>1. e \in Seq(S) /\ Len(e) = Len(c) + 1
    BY <1>1, <1>2 DEF InsertAt
  <2>2. \A k \in 1..(Len(c) + 1) : e[k] = IF k < i THEN c[k] ELSE IF k = i THEN c[i] ELSE c[k - 1]
    BY <1>1, <1>2 DEF InsertAt
  <2> HIDE DEF e
  <2>3. \A k \in 1..(Len(c) + 1) : IsRecord(e[k])
    BY <1>2, <2>2
  <2>4. IsChain(e)
    BY <2>1, <2>3 DEF IsChain
  <2> QED BY <2>4 DEF e
<1>8. \/ \E i \in 1..Len(c) : \E x \in Altered(c[i]) : d = ReplaceAt(c, i, x) \/ d = ReplaceAt(c, i, Rehashed(x))
      \/ \E i, j \in 1..Len(c) : d = [c EXCEPT ![i] = c[j], ![j] = c[i]]
      \/ \E i \in 1..Len(c) : d = RemoveAt(c, i)
      \/ \E i \in 1..Len(c) : d = InsertAt(c, i, c[i])
  BY <1>2 DEF Edits
<1> QED BY <1>3, <1>4, <1>5, <1>6, <1>7, <1>8

(* The chains of the store verify, and are chains.                         *)
ProvInv == \A e \in DOMAIN chains : IsChain(chains[e]) /\ ChainVerifies(chains[e])

LEMMA ProvInvInit == ASSUME ProvInit PROVE ProvInv
BY DEF ProvInit, ProvInv

LEMMA AppendKeepsChain ==
    ASSUME NEW c, IsChain(c), ChainVerifies(c), NEW event, NEW actor
    PROVE  IsChain(AppendRecord(c, event, actor)) /\ ChainVerifies(AppendRecord(c, event, actor))
<1>1. PICK S : c \in Seq(S)
  BY DEF IsChain
<1> DEFINE r == NewRecord(event, actor, LastHash(c))
           d == AppendRecord(c, event, actor)
           n == Len(c)
<1>2. n \in Nat /\ DOMAIN c = 1..n /\ \A i \in 1..n : IsRecord(c[i])
  BY <1>1 DEF IsChain
<1>3. IsRecord(r) /\ RecordVerifies(r) /\ r.parent = LastHash(c)
  BY DEF NewRecord, IsRecord, RecordVerifies, ComputeHash
<1> HIDE DEF r
<1>4. d = Append(c, r)
  BY DEF AppendRecord, r
<1> HIDE DEF d
<1>5. d \in Seq(S \cup {r}) /\ Len(d) = n + 1 /\ d[n + 1] = r /\ \A i \in 1..n : d[i] = c[i]
  BY <1>1, <1>4
<1>6. DOMAIN d = 1..(n + 1)
  BY <1>5
<1>7. \A i \in 1..(n + 1) : IsRecord(d[i])
  BY <1>2, <1>3, <1>5
<1>8. ASSUME NEW i \in 1..(n + 1) PROVE d[i].parent = ParentOf(d, i) /\ RecordVerifies(d[i])
  <2>1. ParentOf(d, i) = ParentOf(c, i)
    BY <1>2, <1>5 DEF ParentOf
  <2>2. CASE i = n + 1
    BY <1>3, <1>5, <2>1, <2>2 DEF LastHash
  <2>3. CASE i # n + 1
    <3>1. i \in 1..n
      BY <1>2, <2>3
    <3>2. c[i].parent = ParentOf(c, i) /\ RecordVerifies(c[i])
      BY <1>2, <3>1 DEF ChainVerifies
    <3> QED BY <1>5, <2>1, <3>1, <3>2
  <2> QED BY <2>2, <2>3
<1>9. IsChain(d)
  BY <1>5, <1>7 DEF IsChain
<1>10. ChainVerifies(d)
  BY <1>6, <1>8 DEF ChainVerifies
<1> QED BY <1>9, <1>10 DEF d

LEMMA ProvInvNext == ASSUME ProvInv, ProvNext PROVE ProvInv'
<1>1. ASSUME NEW e \in ChainIds, NEW v \in Events, NEW a \in Actors, RecordEvent(e, v, a) PROVE ProvInv'
  <2> DEFINE c == IF e \in DOMAIN chains THEN chains[e] ELSE <<>>
  <2>1. IsChain(c) /\ ChainVerifies(c)
    <3>1. IsChain(<<>>) /\ ChainVerifies(<<>>)
      <4>1. <<>> \in Seq({}) /\ Len(<<>>) = 0 /\ DOMAIN <<>> = {}
        OBVIOUS
      <4> QED BY <4>1 DEF IsChain, ChainVerifies
    <3> QED BY <3>1 DEF ProvInv
  <2>2. chains' = [x \in DOMAIN chains \cup {e} |-> IF x = e THEN AppendRecord(c, v, a) ELSE chains[x]]
    BY <1>1 DEF RecordEvent
  <2> HIDE DEF c
  <2>3. IsChain(AppendRecord(c, v, a)) /\ ChainVerifies(AppendRecord(c, v, a))
    BY <2>1, AppendKeepsChain
  <2>4. ASSUME NEW x \in DOMAIN chains' PROVE IsChain(chains'[x]) /\ ChainVerifies(chains'[x])
    <3>1. CASE x = e
      BY <2>2, <2>3, <3>1, Zenon
    <3>2. CASE x # e
      <4>1. x \in DOMAIN chains /\ chains'[x] = chains[x]
        BY <2>2, <3>2
      <4> QED BY <4>1 DEF ProvInv
    <3> QED BY <3>1, <3>2
  <2>5. ASSUME NEW x \in DOMAIN chains' PROVE (IsChain(chains[x]) /\ ChainVerifies(chains[x]))'
    BY <2>4 DEF IsChain, IsRecord, ChainVerifies, RecordVerifies, ComputeHash, ParentOf, GenesisHash
  <2> QED BY <2>5 DEF ProvInv
<1>2. ASSUME NEW e \in ChainIds, DeleteChain(e) PROVE ProvInv'
  <2>1. chains' = [x \in DOMAIN chains \ {e} |-> chains[x]]
    BY <1>2 DEF DeleteChain
  <2>2. \A x \in DOMAIN chains' : x \in DOMAIN chains /\ chains'[x] = chains[x]
    BY <2>1
  <2> QED BY <2>2 DEF ProvInv, IsChain, IsRecord, ChainVerifies, RecordVerifies, ComputeHash, ParentOf, GenesisHash
<1>3. ASSUME ClockMoves PROVE ProvInv'
  BY <1>3 DEF ClockMoves, ProvInv, IsChain, IsRecord, ChainVerifies, RecordVerifies, ComputeHash, ParentOf, GenesisHash
<1> QED BY <1>1, <1>2, <1>3 DEF ProvNext

LEMMA ProvInvImplies == ASSUME ProvInv PROVE LineageVerifies /\ TamperEvident
<1>1. LineageVerifies
  BY DEF ProvInv, LineageVerifies
<1>2. TamperEvident
  <2> SUFFICES ASSUME NEW e \in DOMAIN chains, NEW d \in Edits(chains[e]),
                      ChainVerifies(d), LastHash(d) = LastHash(chains[e])
               PROVE  d = chains[e]
    BY DEF TamperEvident
  <2>1. IsChain(chains[e]) /\ ChainVerifies(chains[e])
    BY DEF ProvInv
  <2>2. IsChain(d)
    BY <2>1, EditsAreChains
  <2>3. PICK S : chains[e] \in Seq(S)
    BY <2>1 DEF IsChain
  <2>4. PICK T : d \in Seq(T)
    BY <2>2 DEF IsChain
  <2>5. \A i \in 1..Len(chains[e]) : IsRecord(chains[e][i])
    BY <2>1 DEF IsChain
  <2>6. \A i \in 1..Len(d) : IsRecord(d[i])
    BY <2>2 DEF IsChain
  <2> QED BY <2>1, <2>3, <2>4, <2>5, <2>6, DigestFixesChain
<1> QED BY <1>1, <1>2


-----------------------------------------------------------------------------
(* Versions                                                                *)

KeptFn(f, s, a, b) ==
    f = [i \in 0..Len(s) |->
           IF i = 0 THEN <<>> ELSE IF Within(a, b, s[i].stamp) THEN Append(f[i - 1], s[i]) ELSE f[i - 1]]

KeptBy(f, R, s, a, b) ==
    /\ f \in [0..Len(s) -> Seq(R)]
    /\ InRange(s, a, b) = f[Len(s)]
    /\ f[0] = <<>>
    /\ \A i \in 1..Len(s) : f[i] = IF Within(a, b, s[i].stamp) THEN Append(f[i - 1], s[i]) ELSE f[i - 1]

(* What a range keeps of a sequence, by the number of elements looked at.  *)
LEMMA KeptExists ==
    ASSUME NEW R, NEW s \in Seq(R), NEW a, NEW b
    PROVE  \E f : KeptBy(f, R, s, a, b)
<1> DEFINE V == Seq(R)
           step == [p \in Nat \X V |-> IF p[1] \in 1..Len(s) /\ Within(a, b, s[p[1]].stamp)
                                       THEN Append(p[2], s[p[1]]) ELSE p[2]]
<1>0. Len(s) \in Nat /\ \A i \in 1..Len(s) : s[i] \in R
  BY LenProperties, ElementOfSeq
<1>1. step \in [Nat \X V -> V]
  <2> SUFFICES ASSUME NEW p \in Nat \X V PROVE (IF p[1] \in 1..Len(s) /\ Within(a, b, s[p[1]].stamp)
                                                 THEN Append(p[2], s[p[1]]) ELSE p[2]) \in V
    OBVIOUS
  <2>1. p[2] \in V
    OBVIOUS
  <2>2. ASSUME p[1] \in 1..Len(s) PROVE Append(p[2], s[p[1]]) \in V
    BY <1>0, <2>1, <2>2, AppendProperties
  <2> QED BY <2>1, <2>2
<1>2. <<>> \in V
  BY EmptySeq
<1>3. \A i \in 1..Len(s) : \A x \in V : step[<<i, x>>] = IF Within(a, b, s[i].stamp) THEN Append(x, s[i]) ELSE x
  BY <1>0
<1> HIDE DEF step, V
<1>4. PICK f \in [0..Len(s) -> V] : f[0] = <<>> /\ \A i \in 1..Len(s) : f[i] = step[<<i, f[i - 1]>>]
  <2>1. \E f : Follows(f, V, <<>>, step, Len(s))
    BY <1>0, <1>1, <1>2, Recurses
  <2> QED BY <2>1 DEF Follows
<1>5. ASSUME NEW i \in 1..Len(s)
      PROVE  f[i] = IF Within(a, b, s[i].stamp) THEN Append(f[i - 1], s[i]) ELSE f[i - 1]
  <2>1. f[i - 1] \in V
    BY <1>0, <1>4
  <2> QED BY <1>3, <1>4, <2>1
<1>6. KeptFn(f, s, a, b)
  <2>1. ASSUME NEW i \in 0..Len(s)
        PROVE  f[i] = IF i = 0 THEN <<>> ELSE IF Within(a, b, s[i].stamp) THEN Append(f[i - 1], s[i]) ELSE f[i - 1]
    <3>1. CASE i = 0
      BY <1>4, <3>1
    <3>2. CASE i # 0
      <4>1. i \in 1..Len(s)
        BY <1>0, <3>2
      <4> QED BY <1>5, <3>2, <4>1
    <3> QED BY <3>1, <3>2
  <2> QED BY <1>4, <2>1 DEF KeptFn
<1> DEFINE g == CHOOSE h : KeptFn(h, s, a, b)
<1>7. KeptFn(g, s, a, b)
  BY <1>6
<1>8. InRange(s, a, b) = g[Len(s)]
  BY DEF InRange, KeptFn
<1> HIDE DEF g
<1>9. \A i \in 0..Len(s) : g[i] = IF i = 0 THEN <<>> ELSE IF Within(a, b, s[i].stamp) THEN Append(g[i - 1], s[i]) ELSE g[i - 1]
  BY <1>7 DEF KeptFn
<1> DEFINE Bad == {i \in 0..Len(s) : g[i] # f[i]}
<1>10. ASSUME Bad # {} PROVE FALSE
  <2>1. PICK n \in Bad : \A y \in Bad : n <= y
    <3>1. Bad \in SUBSET Nat
      BY <1>0
    <3> HIDE DEF Bad
    <3> QED BY <1>10, <3>1, LeastOf
  <2>2. n \in 0..Len(s) /\ g[n] # f[n]
    BY <2>1
  <2>3. n # 0
    BY <1>4, <1>9, <2>2
  <2>4. n \in 1..Len(s) /\ n - 1 \in 0..Len(s) /\ ~(n <= n - 1)
    BY <1>0, <2>2, <2>3
  <2>5. g[n - 1] = f[n - 1]
    BY <2>1, <2>4
  <2> QED BY <1>5, <1>9, <2>2, <2>3, <2>4, <2>5
<1>11. InRange(s, a, b) = f[Len(s)]
  BY <1>0, <1>8, <1>10
<1> QED BY <1>4, <1>5, <1>11 DEF V, KeptBy

LEMMA WithinSplit ==
    ASSUME NEW a \in Nat, NEW b \in Nat, NEW c \in Nat, NEW t \in Nat, a <= b, b <= c
    PROVE  /\ Within(a, c, t) <=> (Within(a, b, t) \/ Within(b, c, t))
           /\ ~(Within(a, b, t) /\ Within(b, c, t))
BY DEF Within

(* Two ranges that meet keep between them what the range they make up      *)
(* keeps, of any sequence of stamped elements.                             *)
LEMMA RangesSplit ==
    ASSUME NEW R, NEW s \in Seq(R), \A i \in 1..Len(s) : s[i].stamp \in Nat,
           NEW a \in Nat, NEW b \in Nat, NEW c \in Nat, a <= b, b <= c
    PROVE  Len(InRange(s, a, c)) = Len(InRange(s, a, b)) + Len(InRange(s, b, c))
<1>0. Len(s) \in Nat /\ \A i \in 1..Len(s) : s[i] \in R
  BY LenProperties, ElementOfSeq
<1>1. PICK f : KeptBy(f, R, s, a, c)
  BY KeptExists
<1>2. PICK g : KeptBy(g, R, s, a, b)
  BY KeptExists
<1>3. PICK h : KeptBy(h, R, s, b, c)
  BY KeptExists
<1>4. ASSUME NEW k \in [0..Len(s) -> Seq(R)], NEW i \in 1..Len(s), NEW p \in BOOLEAN,
             k[i] = IF p THEN Append(k[i - 1], s[i]) ELSE k[i - 1]
      PROVE  Len(k[i - 1]) \in Nat /\ Len(k[i]) = IF p THEN Len(k[i - 1]) + 1 ELSE Len(k[i - 1])
  <2>1. i - 1 \in 0..Len(s) /\ s[i] \in R
    BY <1>0
  <2>2. k[i - 1] \in Seq(R)
    BY <2>1
  <2>3. Len(k[i - 1]) \in Nat /\ Len(Append(k[i - 1], s[i])) = Len(k[i - 1]) + 1
    BY <2>1, <2>2, LenProperties, AppendProperties
  <2> QED BY <1>4, <2>3
<1> DEFINE Bad == {i \in 0..Len(s) : Len(f[i]) # Len(g[i]) + Len(h[i])}
<1>5. ASSUME Bad # {} PROVE FALSE
  <2>1. PICK n \in Bad : \A y \in Bad : n <= y
    <3>1. Bad \in SUBSET Nat
      <4>1. \A i \in 0..Len(s) : i \in Nat
        BY <1>0
      <4> QED BY <4>1, Zenon
    <3> HIDE DEF Bad
    <3> QED BY <1>5, <3>1, LeastOf
  <2>2. n \in 0..Len(s) /\ Len(f[n]) # Len(g[n]) + Len(h[n])
    BY <2>1
  <2>3. n # 0
    BY <1>1, <1>2, <1>3, <2>2 DEF KeptBy
  <2>4. n \in 1..Len(s) /\ n - 1 \in 0..Len(s) /\ ~(n <= n - 1)
    BY <1>0, <2>2, <2>3
  <2>5. Len(f[n - 1]) = Len(g[n - 1]) + Len(h[n - 1])
    BY <2>1, <2>4
  <2> DEFINE t == s[n].stamp
  <2>6. t \in Nat
    BY <2>4
  <2>7. Len(f[n - 1]) \in Nat /\ Len(f[n]) = IF Within(a, c, t) THEN Len(f[n - 1]) + 1 ELSE Len(f[n - 1])
    <3>1. Within(a, c, t) \in BOOLEAN
      BY DEF Within
    <3> QED BY <1>1, <1>4, <2>4, <3>1 DEF KeptBy
  <2>8. Len(g[n - 1]) \in Nat /\ Len(g[n]) = IF Within(a, b, t) THEN Len(g[n - 1]) + 1 ELSE Len(g[n - 1])
    <3>1. Within(a, b, t) \in BOOLEAN
      BY DEF Within
    <3> QED BY <1>2, <1>4, <2>4, <3>1 DEF KeptBy
  <2>9. Len(h[n - 1]) \in Nat /\ Len(h[n]) = IF Within(b, c, t) THEN Len(h[n - 1]) + 1 ELSE Len(h[n - 1])
    <3>1. Within(b, c, t) \in BOOLEAN
      BY DEF Within
    <3> QED BY <1>3, <1>4, <2>4, <3>1 DEF KeptBy
  <2> HIDE DEF t
  <2>10. /\ Within(a, c, t) <=> (Within(a, b, t) \/ Within(b, c, t))
         /\ ~(Within(a, b, t) /\ Within(b, c, t))
    BY <2>6, WithinSplit
  <2> DEFINE x == Len(f[n - 1])  y == Len(g[n - 1])  z == Len(h[n - 1])
  <2>0. x + 1 = (y + 1) + z /\ x + 1 = y + (z + 1)
    <3>1. x \in Nat /\ y \in Nat /\ z \in Nat /\ x = y + z
      BY <2>5, <2>7, <2>8, <2>9
    <3> HIDE DEF x, y, z
    <3> QED BY <3>1
  <2>11. CASE Within(a, b, t)
    <3>1. Len(f[n]) = Len(f[n - 1]) + 1 /\ Len(g[n]) = Len(g[n - 1]) + 1 /\ Len(h[n]) = Len(h[n - 1])
      BY <2>7, <2>8, <2>9, <2>10, <2>11
    <3> QED BY <2>2, <2>5, <2>0, <3>1, Zenon
  <2>12. CASE Within(b, c, t)
    <3>1. Len(f[n]) = Len(f[n - 1]) + 1 /\ Len(g[n]) = Len(g[n - 1]) /\ Len(h[n]) = Len(h[n - 1]) + 1
      BY <2>7, <2>8, <2>9, <2>10, <2>12
    <3> QED BY <2>2, <2>5, <2>0, <3>1, Zenon
  <2>13. CASE ~Within(a, b, t) /\ ~Within(b, c, t)
    <3>1. Len(f[n]) = Len(f[n - 1]) /\ Len(g[n]) = Len(g[n - 1]) /\ Len(h[n]) = Len(h[n - 1])
      BY <2>7, <2>8, <2>9, <2>10, <2>13
    <3> QED BY <2>2, <2>5, <2>0, <3>1, Zenon
  <2> QED BY <2>11, <2>12, <2>13
<1> QED BY <1>0, <1>1, <1>2, <1>3, <1>5 DEF KeptBy


Stamped(D) == [data : D, stamp : 0..MaxStamp]

(* What was read and what was compared is still there.                     *)
VersionInv ==
    /\ versions \in Seq(Stamped(VersionData)) /\ series \in Seq(Stamped({"point"}))
    /\ stampClock \in 0..MaxStamp
    /\ pending = [v1 |-> pending.v1, v2 |-> pending.v2, old |-> pending.old, result |-> pending.result]
    /\ pending.old # Absent => pending.v1 \in DOMAIN versions /\ pending.old = versions[pending.v1]
    /\ pending.result \in {"no change", "changed"} =>
         /\ pending.v1 \in DOMAIN versions /\ pending.v2 \in DOMAIN versions
         /\ (pending.result = "no change") = (versions[pending.v1].data = versions[pending.v2].data)

LEMMA VersionInvInit == ASSUME VersionInit PROVE VersionInv
<1>1. <<>> \in Seq(Stamped(VersionData)) /\ <<>> \in Seq(Stamped({"point"})) /\ 0 \in 0..MaxStamp
  BY StampAssumption, EmptySeq
<1> QED BY <1>1 DEF VersionInit, VersionInv, Idle, Absent

LEMMA VersionInvNext == ASSUME VersionInv, VersionNext PROVE VersionInv'
<1>0. /\ versions \in Seq(Stamped(VersionData)) /\ series \in Seq(Stamped({"point"}))
      /\ stampClock \in 0..MaxStamp
  BY DEF VersionInv
<1>1. ASSUME NEW d \in VersionData, AppendVersion(d) PROVE VersionInv'
  <2> DEFINE r == [data |-> d, stamp |-> stampClock]
  <2>1. r \in Stamped(VersionData)
    BY <1>0 DEF Stamped
  <2>2. versions' = Append(versions, r) /\ UNCHANGED <<series, stampClock, pending>>
    BY <1>1 DEF AppendVersion
  <2> HIDE DEF r
  <2>3. versions' \in Seq(Stamped(VersionData))
    BY <1>0, <2>1, <2>2, AppendProperties
  <2>4. \A v \in DOMAIN versions : v \in DOMAIN versions' /\ versions'[v] = versions[v]
    <3>1. DOMAIN versions = 1..Len(versions) /\ Len(versions) \in Nat
      BY <1>0, LenProperties
    <3>2. Len(versions') = Len(versions) + 1 /\ \A v \in 1..Len(versions) : versions'[v] = versions[v]
      BY <1>0, <2>1, <2>2, AppendProperties
    <3>3. DOMAIN versions' = 1..(Len(versions) + 1)
      BY <2>3, <3>2, LenProperties
    <3> QED BY <3>1, <3>2, <3>3
  <2>5. (versions \in Seq(Stamped(VersionData)) /\ series \in Seq(Stamped({"point"})))'
    BY <1>0, <2>2, <2>3 DEF Stamped
  <2> QED BY <2>2, <2>4, <2>5 DEF VersionInv, Absent
<1>2. ASSUME NEW t \in 0..MaxStamp, AppendPoint(t) PROVE VersionInv'
  <2> DEFINE r == [data |-> "point", stamp |-> t]
  <2>1. r \in Stamped({"point"})
    BY DEF Stamped
  <2>2. series' = Append(series, r) /\ UNCHANGED <<versions, stampClock, pending>>
    BY <1>2 DEF AppendPoint
  <2> HIDE DEF r
  <2>3. series' \in Seq(Stamped({"point"}))
    BY <1>0, <2>1, <2>2, AppendProperties
  <2>4. (versions \in Seq(Stamped(VersionData)) /\ series \in Seq(Stamped({"point"})))'
    BY <1>0, <2>2, <2>3 DEF Stamped
  <2> QED BY <2>2, <2>4 DEF VersionInv, Absent
<1>3. ASSUME StampMoves PROVE VersionInv'
  BY <1>3 DEF StampMoves, VersionInv, Absent, Stamped
<1>4. ASSUME NEW v \in 1..MaxVersions, NEW w \in 1..MaxVersions, DiffReads(v, w) PROVE VersionInv'
  BY <1>4 DEF DiffReads, AtVersion, VersionInv, Absent, Stamped
<1>5. ASSUME DiffReturns PROVE VersionInv'
  <2> DEFINE new == AtVersion(pending.v2)
             kind == CompareValues(pending.old, new).kind
  <2>1. UNCHANGED <<versions, series, stampClock>> /\ pending' = [pending EXCEPT !.result = kind]
    BY <1>5 DEF DiffReturns
  <2>2. /\ pending'.v1 = pending.v1 /\ pending'.v2 = pending.v2 /\ pending'.old = pending.old /\ pending'.result = kind
        /\ pending' = [v1 |-> pending'.v1, v2 |-> pending'.v2, old |-> pending'.old, result |-> pending'.result]
    BY <2>1 DEF VersionInv
  <2>3. kind \in {"no change", "changed"} =>
          /\ pending.old # Absent /\ new # Absent /\ (kind = "no change") = (pending.old.data = new.data)
    BY DEF CompareValues
  <2>4. new # Absent => pending.v2 \in DOMAIN versions /\ new = versions[pending.v2]
    BY DEF AtVersion
  <2> HIDE DEF new, kind
  <2> QED BY <1>0, <2>1, <2>2, <2>3, <2>4 DEF VersionInv, Absent, Stamped
<1>6. ASSUME DiffDone PROVE VersionInv'
  BY <1>6 DEF DiffDone, VersionInv, Absent, Idle, Stamped
<1> QED BY <1>1, <1>2, <1>3, <1>4, <1>5, <1>6 DEF VersionNext

(* A set of version numbers that is not empty has a greatest member.       *)
LEMMA LatestExists ==
    ASSUME NEW n \in Nat, NEW T \in SUBSET (1..n), T # {}
    PROVE  \E v \in T : \A w \in T : w <= v
<1> DEFINE U == {n - v : v \in T}
<1>1. U \in SUBSET Nat /\ U # {}
  <2>1. \A v \in 1..n : n - v \in Nat
    OBVIOUS
  <2>2. \A v \in T : n - v \in Nat
    BY <2>1, Zenon
  <2> QED BY <2>2, Zenon
<1> HIDE DEF U
<1>2. PICK u \in U : \A y \in U : u <= y
  BY <1>1, LeastOf
<1> USE DEF U
<1>3. PICK v \in T : u = n - v
  BY <1>2
<1>4. ASSUME NEW w \in T PROVE w <= v
  <2>1. n - v <= n - w
    BY <1>2, <1>3
  <2> QED BY <2>1
<1> QED BY <1>4

LEMMA AtTimeIs ==
    ASSUME VersionInv, NEW t \in Nat
    PROVE  /\ AtTime(t) \in Nat
           /\ \A v \in DOMAIN versions : versions[v].stamp <= t => v <= AtTime(t)
           /\ AtTime(t) # 0 => AtTime(t) \in DOMAIN versions /\ versions[AtTime(t)].stamp <= t
<1> DEFINE eligible == {v \in DOMAIN versions : versions[v].stamp <= t}
<1>1. DOMAIN versions = 1..Len(versions) /\ Len(versions) \in Nat
  BY LenProperties DEF VersionInv
<1>2. AtTime(t) = IF eligible = {} THEN 0 ELSE CHOOSE v \in eligible : \A w \in eligible : w <= v
  BY DEF AtTime
<1>3. CASE eligible = {}
  BY <1>1, <1>2, <1>3
<1>4. CASE eligible # {}
  <2>1. eligible \in SUBSET (1..Len(versions))
    BY <1>1
  <2> HIDE DEF eligible
  <2>2. \E v \in eligible : \A w \in eligible : w <= v
    BY <1>1, <1>4, <2>1, LatestExists
  <2>3. AtTime(t) \in eligible /\ \A w \in eligible : w <= AtTime(t)
    BY <1>2, <1>4, <2>2
  <2>4. AtTime(t) \in Nat
    <3>1. \A v \in 1..Len(versions) : v \in Nat
      BY <1>1
    <3> QED BY <2>1, <2>3, <3>1, Zenon
  <2> QED BY <2>3, <2>4 DEF eligible
<1> QED BY <1>3, <1>4

LEMMA VersionInvImplies == ASSUME VersionInv PROVE AtTimeMonotone /\ RangesPartition /\ DiffIsCurrent
<1>1. AtTimeMonotone
  <2> SUFFICES ASSUME NEW t \in 0..MaxStamp, NEW u \in t..MaxStamp PROVE AtTime(t) <= AtTime(u)
    BY DEF AtTimeMonotone
  <2>1. t \in Nat /\ u \in Nat /\ t <= u
    BY StampAssumption
  <2>2. /\ AtTime(t) \in Nat
        /\ AtTime(t) # 0 => AtTime(t) \in DOMAIN versions /\ versions[AtTime(t)].stamp <= t
    BY <2>1, AtTimeIs
  <2>3. AtTime(u) \in Nat /\ \A v \in DOMAIN versions : versions[v].stamp <= u => v <= AtTime(u)
    BY <2>1, AtTimeIs
  <2>4. CASE AtTime(t) = 0
    BY <2>3, <2>4
  <2>5. CASE AtTime(t) # 0
    <3>1. versions[AtTime(t)] \in Stamped(VersionData)
      BY <2>2, <2>5, ElementOfSeq, LenProperties DEF VersionInv
    <3>2. versions[AtTime(t)].stamp \in Nat
      BY <3>1, StampAssumption DEF Stamped
    <3>3. versions[AtTime(t)].stamp <= u
      BY <2>1, <2>2, <2>5, <3>2
    <3> QED BY <2>2, <2>3, <2>5, <3>3
  <2> QED BY <2>4, <2>5
<1>2. RangesPartition
  <2> SUFFICES ASSUME NEW s \in {versions, series}, NEW a \in 0..MaxStamp, NEW c \in (a + 1)..(MaxStamp + 1),
                      NEW b \in (a + 1)..(c - 1)
               PROVE  Len(InRange(s, a, c)) = Len(InRange(s, a, b)) + Len(InRange(s, b, c))
    BY DEF RangesPartition
  <2>1. a \in Nat /\ b \in Nat /\ c \in Nat /\ a <= b /\ b <= c
    BY StampAssumption
  <2>2. \E D : s \in Seq(Stamped(D))
    BY DEF VersionInv
  <2>3. PICK D : s \in Seq(Stamped(D))
    BY <2>2
  <2>4. \A i \in 1..Len(s) : s[i] \in Stamped(D)
    BY <2>3, ElementOfSeq
  <2>5. \A i \in 1..Len(s) : s[i].stamp \in Nat
    BY <2>4, StampAssumption DEF Stamped
  <2> HIDE DEF Stamped
  <2> QED BY <2>1, <2>3, <2>5, RangesSplit
<1>3. DiffIsCurrent
  BY DEF VersionInv, DiffIsCurrent
<1> QED BY <1>1, <1>2, <1>3


-----------------------------------------------------------------------------
(* Annotations                                                             *)

Conforms(ann, since) ==
    \A t \in (ToSet(ann.types) \cap DOMAIN types) \ since : \A c \in types[t] : ~Violates(c, ann.props)

IsAnnotate(k) ==
    \/ k = Resting
    \/ k = [pc |-> "valid", since |-> k.since, ann |-> k.ann] /\ Conforms(k.ann, k.since)

(* What was validated, stored or not, conforms to the types that have not  *)
(* been registered since.                                                  *)
SemanticInv ==
    /\ annotating = [a \in Annotators |-> annotating[a]]
    /\ \A a \in Annotators : IsAnnotate(annotating[a])
    /\ DOMAIN unvalidated = DOMAIN annotations
    /\ \A e \in DOMAIN annotations : Conforms(annotations[e], unvalidated[e])

LEMMA SemanticInvInit == ASSUME SemanticInit PROVE SemanticInv
BY DEF SemanticInit, SemanticInv, IsAnnotate, Resting

(* A registration touches one type, and every call and annotation notes    *)
(* it.                                                                     *)
LEMMA RegisterConforms ==
    ASSUME NEW t, NEW body, types' = [x \in DOMAIN types \cup {t} |-> IF x = t THEN body ELSE types[x]],
           NEW ann, NEW since, Conforms(ann, since)
    PROVE  \A u \in (ToSet(ann.types) \cap DOMAIN types') \ (since \cup {t}) :
              \A c \in types'[u] : ~Violates(c, ann.props)
<1> SUFFICES ASSUME NEW u \in (ToSet(ann.types) \cap DOMAIN types') \ (since \cup {t})
             PROVE  \A c \in types'[u] : ~Violates(c, ann.props)
  OBVIOUS
<1>1. u \in (ToSet(ann.types) \cap DOMAIN types) \ since /\ types'[u] = types[u]
  OBVIOUS
<1> QED BY <1>1 DEF Conforms

LEMMA SemanticInvNext == ASSUME SemanticInv, SemanticNext PROVE SemanticInv'
<1>1. ASSUME NEW t \in TypeIris, NEW body \in TypeBodies, RegisterType(t, body) PROVE SemanticInv'
  <2>1. /\ types' = [x \in DOMAIN types \cup {t} |-> IF x = t THEN body ELSE types[x]]
        /\ annotating' = [a \in Annotators |-> IF annotating[a].pc = "valid" THEN [annotating[a] EXCEPT !.since = @ \cup {t}]
                                                ELSE annotating[a]]
        /\ unvalidated' = [e \in DOMAIN unvalidated |-> unvalidated[e] \cup {t}]
        /\ annotations' = annotations
    BY <1>1 DEF RegisterType
  <2>2. ASSUME NEW a \in Annotators PROVE IsAnnotate(annotating[a])'
    <3> DEFINE k == annotating[a]
    <3>1. CASE k = Resting
      <4>1. annotating'[a] = Resting
        BY <2>1, <3>1 DEF Resting
      <4> QED BY <4>1 DEF IsAnnotate, Resting
    <3>2. CASE k = [pc |-> "valid", since |-> k.since, ann |-> k.ann] /\ Conforms(k.ann, k.since)
      <4>1. annotating'[a] = [k EXCEPT !.since = @ \cup {t}]
        BY <2>1, <3>2
      <4>2. annotating'[a] = [pc |-> "valid", since |-> k.since \cup {t}, ann |-> k.ann]
        BY <3>2, <4>1
      <4>3. \A u \in (ToSet(k.ann.types) \cap DOMAIN types') \ (k.since \cup {t}) :
              \A c \in types'[u] : ~Violates(c, k.ann.props)
        <5>1. Conforms(k.ann, k.since)
          BY <3>2
        <5>2. types' = [x \in DOMAIN types \cup {t} |-> IF x = t THEN body ELSE types[x]]
          BY <2>1
        <5> HIDE DEF k
        <5> QED BY <5>1, <5>2, RegisterConforms
      <4>4. annotating'[a].since = k.since \cup {t} /\ annotating'[a].ann = k.ann
        BY <4>2
      <4> QED BY <4>2, <4>3, <4>4 DEF IsAnnotate, Conforms
    <3> QED BY <3>1, <3>2 DEF SemanticInv, IsAnnotate
  <2>3. DOMAIN unvalidated' = DOMAIN annotations'
    BY <2>1 DEF SemanticInv
  <2>4. ASSUME NEW e \in DOMAIN annotations' PROVE Conforms(annotations[e], unvalidated[e])'
    <3>1. e \in DOMAIN annotations /\ unvalidated'[e] = unvalidated[e] \cup {t}
      BY <2>1 DEF SemanticInv
    <3>2. Conforms(annotations[e], unvalidated[e])
      BY <3>1 DEF SemanticInv
    <3>3. \A u \in (ToSet(annotations[e].types) \cap DOMAIN types') \ (unvalidated[e] \cup {t}) :
              \A c \in types'[u] : ~Violates(c, annotations[e].props)
      BY <2>1, <3>2, RegisterConforms
    <3> QED BY <2>1, <3>1, <3>3 DEF Conforms
  <2>5. annotating' = [a \in Annotators |-> annotating'[a]]
    BY <2>1
  <2> QED BY <2>2, <2>3, <2>4, <2>5 DEF SemanticInv
<1>2. ASSUME NEW a \in Annotators, NEW n \in Annotations, AnnotateValidates(a, n) PROVE SemanticInv'
  <2>1. /\ annotating' = [annotating EXCEPT ![a] = [pc |-> "valid", since |-> {}, ann |-> n]]
        /\ UNCHANGED <<types, annotations, unvalidated>> /\ Violations(n) = {}
    BY <1>2 DEF AnnotateValidates
  <2>2. Conforms(n, {})
    BY <2>1 DEF Violations, Conforms
  <2>3. annotating' = [b \in Annotators |-> annotating'[b]]
    BY <2>1 DEF SemanticInv
  <2>4. ASSUME NEW b \in Annotators PROVE IsAnnotate(annotating[b])'
    <3>1. CASE b = a
      <4>1. annotating'[b] = [pc |-> "valid", since |-> {}, ann |-> n]
        BY <2>1, <3>1 DEF SemanticInv
      <4> QED BY <2>1, <2>2, <4>1 DEF IsAnnotate, Conforms
    <3>2. CASE b # a
      <4>1. annotating'[b] = annotating[b]
        BY <2>1, <3>2 DEF SemanticInv
      <4> QED BY <2>1, <4>1 DEF SemanticInv, IsAnnotate, Conforms, Resting
    <3> QED BY <3>1, <3>2
  <2> QED BY <2>1, <2>3, <2>4 DEF SemanticInv, Conforms
<1>3. ASSUME NEW a \in Annotators, AnnotateStores(a) PROVE SemanticInv'
  <2> DEFINE k == annotating[a]  e == k.ann.entity
  <2>1. /\ k.pc = "valid" /\ types' = types
        /\ annotations' = [x \in DOMAIN annotations \cup {e} |-> IF x = e THEN k.ann ELSE annotations[x]]
        /\ unvalidated' = [x \in DOMAIN unvalidated \cup {e} |-> IF x = e THEN k.since ELSE unvalidated[x]]
        /\ annotating' = [annotating EXCEPT ![a] = Resting]
    BY <1>3 DEF AnnotateStores
  <2>2. Conforms(k.ann, k.since)
    BY <2>1 DEF SemanticInv, IsAnnotate, Resting
  <2>3. annotating' = [b \in Annotators |-> annotating'[b]]
    BY <2>1 DEF SemanticInv
  <2>4. ASSUME NEW b \in Annotators PROVE IsAnnotate(annotating[b])'
    <3>1. annotating'[b] = IF b = a THEN Resting ELSE annotating[b]
      BY <2>1 DEF SemanticInv
    <3> QED BY <2>1, <3>1 DEF SemanticInv, IsAnnotate, Conforms, Resting
  <2> HIDE DEF e, k
  <2>5. DOMAIN unvalidated' = DOMAIN annotations'
    BY <2>1 DEF SemanticInv
  <2>6. ASSUME NEW x \in DOMAIN annotations' PROVE Conforms(annotations[x], unvalidated[x])'
    <3>1. CASE x = e
      <4>1. annotations'[x] = k.ann /\ unvalidated'[x] = k.since
        BY <2>1, <2>5, <3>1
      <4> QED BY <2>1, <2>2, <4>1 DEF Conforms
    <3>2. CASE x # e
      <4>1. x \in DOMAIN annotations /\ annotations'[x] = annotations[x] /\ unvalidated'[x] = unvalidated[x]
        BY <2>1, <3>2 DEF SemanticInv
      <4> QED BY <2>1, <4>1 DEF SemanticInv, Conforms
    <3> QED BY <3>1, <3>2
  <2> QED BY <2>3, <2>4, <2>5, <2>6 DEF SemanticInv
<1> QED BY <1>1, <1>2, <1>3 DEF SemanticNext

LEMMA SemanticInvImplies == ASSUME SemanticInv PROVE AnnotationsValid
BY DEF SemanticInv, AnnotationsValid, Conforms

-----------------------------------------------------------------------------
(* Type hierarchies                                                        *)

JoinFn(f, lists) == f = [i \in 0..Len(lists) |-> IF i = 0 THEN <<>> ELSE f[i - 1] \o lists[i]]

(* The members of two sequences together.                                  *)
LEMMA ConcatMembers ==
    ASSUME NEW X, NEW s \in Seq(X), NEW t \in Seq(X)
    PROVE  s \o t \in Seq(X) /\ ToSet(s \o t) = ToSet(s) \cup ToSet(t)
<1> DEFINE u == s \o t
<1>1. /\ u \in Seq(X) /\ Len(u) = Len(s) + Len(t)
      /\ \A i \in 1..(Len(s) + Len(t)) : u[i] = IF i <= Len(s) THEN s[i] ELSE t[i - Len(s)]
  BY ConcatProperties
<1>2. Len(s) \in Nat /\ Len(t) \in Nat /\ DOMAIN s = 1..Len(s) /\ DOMAIN t = 1..Len(t)
  BY LenProperties
<1> HIDE DEF u
<1>3. DOMAIN u = 1..(Len(s) + Len(t))
  BY <1>1, LenProperties
<1>4. \A i \in DOMAIN u : u[i] \in ToSet(s) \cup ToSet(t)
  <2> SUFFICES ASSUME NEW i \in DOMAIN u PROVE u[i] \in ToSet(s) \cup ToSet(t)
    OBVIOUS
  <2>1. CASE i <= Len(s)
    <3>1. i \in DOMAIN s /\ u[i] = s[i]
      BY <1>1, <1>2, <1>3, <2>1
    <3> QED BY <3>1 DEF ToSet
  <2>2. CASE ~(i <= Len(s))
    <3>1. i - Len(s) \in DOMAIN t /\ u[i] = t[i - Len(s)]
      BY <1>1, <1>2, <1>3, <2>2
    <3> QED BY <3>1 DEF ToSet
  <2> QED BY <2>1, <2>2
<1>5. \A i \in DOMAIN s : i \in DOMAIN u /\ u[i] = s[i]
  BY <1>1, <1>2, <1>3
<1>6. \A i \in DOMAIN t : i + Len(s) \in DOMAIN u /\ u[i + Len(s)] = t[i]
  <2> SUFFICES ASSUME NEW i \in DOMAIN t PROVE i + Len(s) \in DOMAIN u /\ u[i + Len(s)] = t[i]
    OBVIOUS
  <2>1. i + Len(s) \in 1..(Len(s) + Len(t)) /\ ~(i + Len(s) <= Len(s)) /\ (i + Len(s)) - Len(s) = i
    BY <1>2
  <2> QED BY <1>1, <1>3, <2>1
<1>7. ToSet(u) = ToSet(s) \cup ToSet(t)
  BY <1>4, <1>5, <1>6 DEF ToSet
<1> QED BY <1>1, <1>7 DEF u

(* flat_map: the members of the joined lists are those of the lists.       *)
LEMMA JoinedIs ==
    ASSUME NEW X, NEW lists \in Seq(Seq(X))
    PROVE  Joined(lists) \in Seq(X) /\ ToSet(Joined(lists)) = UNION {ToSet(lists[i]) : i \in 1..Len(lists)}
<1> DEFINE V == Seq(X)
           step == [p \in Nat \X V |-> IF p[1] \in 1..Len(lists) THEN p[2] \o lists[p[1]] ELSE p[2]]
<1>0. Len(lists) \in Nat /\ \A i \in 1..Len(lists) : lists[i] \in V
  BY LenProperties, ElementOfSeq
<1>1. step \in [Nat \X V -> V]
  <2> SUFFICES ASSUME NEW p \in Nat \X V
               PROVE  (IF p[1] \in 1..Len(lists) THEN p[2] \o lists[p[1]] ELSE p[2]) \in V
    OBVIOUS
  <2>1. p[2] \in V
    OBVIOUS
  <2>2. ASSUME p[1] \in 1..Len(lists) PROVE p[2] \o lists[p[1]] \in V
    BY <1>0, <2>1, <2>2, ConcatProperties
  <2> QED BY <2>1, <2>2
<1>2. <<>> \in V
  BY EmptySeq
<1>3. \A i \in 1..Len(lists) : \A x \in V : step[<<i, x>>] = x \o lists[i]
  <2> HIDE DEF V
  <2> SUFFICES ASSUME NEW i \in 1..Len(lists), NEW x \in V PROVE step[<<i, x>>] = x \o lists[i]
    OBVIOUS
  <2>1. <<i, x>> \in Nat \X V /\ <<i, x>>[1] = i /\ <<i, x>>[2] = x
    BY <1>0
  <2> QED BY <2>1, Zenon
<1> HIDE DEF step, V
<1>4. PICK f : Follows(f, V, <<>>, step, Len(lists))
  BY <1>0, <1>1, <1>2, Recurses
<1>5. f \in [0..Len(lists) -> V] /\ f[0] = <<>> /\ \A i \in 1..Len(lists) : f[i] = step[<<i, f[i - 1]>>]
  BY <1>4 DEF Follows
<1>6. ASSUME NEW i \in 1..Len(lists) PROVE f[i - 1] \in V /\ f[i] = f[i - 1] \o lists[i]
  <2>0. i - 1 \in 0..Len(lists)
    BY <1>0
  <2>1. f[i - 1] \in V
    BY <1>5, <2>0, Zenon
  <2> QED BY <1>3, <1>5, <2>1
<1>7. JoinFn(f, lists)
  <2>1. ASSUME NEW i \in 0..Len(lists) PROVE f[i] = IF i = 0 THEN <<>> ELSE f[i - 1] \o lists[i]
    <3>1. CASE i = 0
      BY <1>5, <3>1
    <3>2. CASE i # 0
      <4>1. i \in 1..Len(lists)
        BY <1>0, <3>2
      <4> QED BY <1>6, <3>2, <4>1
    <3> QED BY <3>1, <3>2
  <2> QED BY <1>5, <2>1 DEF JoinFn
<1> DEFINE g == CHOOSE h : JoinFn(h, lists)
<1>8. JoinFn(g, lists)
  BY <1>7
<1>9. Joined(lists) = g[Len(lists)]
  BY DEF Joined, JoinFn
<1> HIDE DEF g
<1>10. \A i \in 0..Len(lists) : g[i] = IF i = 0 THEN <<>> ELSE g[i - 1] \o lists[i]
  BY <1>8 DEF JoinFn
<1> DEFINE Good(n) == g[n] \in V /\ ToSet(g[n]) = UNION {ToSet(lists[i]) : i \in 1..n}
           Bad == {n \in 0..Len(lists) : ~Good(n)}
<1>11. ASSUME Bad # {} PROVE FALSE
  <2>1. PICK n \in Bad : \A y \in Bad : n <= y
    <3>1. Bad \in SUBSET Nat
      <4>1. \A i \in 0..Len(lists) : i \in Nat
        BY <1>0
      <4> QED BY <4>1, Zenon
    <3> HIDE DEF Bad
    <3> QED BY <1>11, <3>1, LeastOf
  <2>2. n \in 0..Len(lists) /\ ~Good(n)
    BY <2>1, Zenon
  <2>3. CASE n = 0
    <3>1. g[n] = <<>> /\ 1..n = {}
      BY <1>0, <1>10, <2>2, <2>3
    <3>2. DOMAIN <<>> = {}
      OBVIOUS
    <3>3. ToSet(<<>>) = {}
      BY <3>2 DEF ToSet
    <3>4. ToSet(g[n]) = UNION {ToSet(lists[i]) : i \in 1..n}
      BY <3>1, <3>3
    <3> QED BY <1>2, <2>2, <3>1, <3>4
  <2>4. CASE n # 0
    <3>1. n \in 1..Len(lists) /\ n - 1 \in 0..Len(lists) /\ ~(n <= n - 1) /\ 1..n = 1..(n - 1) \cup {n}
      BY <1>0, <2>2, <2>4
    <3>2. Good(n - 1)
      BY <2>1, <3>1, Zenon
    <3>3. g[n] = g[n - 1] \o lists[n] /\ lists[n] \in V
      BY <1>0, <1>10, <2>2, <2>4, <3>1
    <3>4. g[n] \in V /\ ToSet(g[n]) = ToSet(g[n - 1]) \cup ToSet(lists[n])
      BY <3>2, <3>3, ConcatMembers DEF V
    <3>5. ToSet(g[n]) = UNION {ToSet(lists[i]) : i \in 1..n}
      BY <3>1, <3>2, <3>4, Zenon
    <3> QED BY <2>2, <3>4, <3>5, Zenon
  <2> QED BY <2>3, <2>4
<1>12. Good(Len(lists))
  <2>1. Len(lists) \in 0..Len(lists)
    BY <1>0
  <2> QED BY <1>11, <2>1, Zenon
<1> HIDE DEF Good
<1> QED BY <1>9, <1>12 DEF Good, V

(* Every registered type has a list of supertypes, and the registry is     *)
(* finite.                                                                 *)
SchemaInv ==
    /\ IsFiniteSet(DOMAIN schemaTypes)
    /\ \A t \in DOMAIN schemaTypes : schemaTypes[t].supertypes \in Seq(SchemaNames)

LEMMA SupertypesNamed ==
    ASSUME NEW t \in DOMAIN schemaTypes, NEW S, schemaTypes[t].supertypes \in Seq(S)
    PROVE  schemaTypes[t].supertypes \in Seq(SchemaNames)
<1> DEFINE s == schemaTypes[t].supertypes
<1>1. Len(s) \in Nat /\ DOMAIN s = 1..Len(s) /\ s = [i \in 1..Len(s) |-> s[i]]
  BY LenProperties
<1>2. \A i \in 1..Len(s) : s[i] \in SchemaNames
  BY <1>1 DEF SchemaNames, ToSet
<1> HIDE DEF s
<1>3. s \in [1..Len(s) -> SchemaNames]
  BY <1>1, <1>2, Zenon
<1>4. s \in Seq(SchemaNames)
  BY <1>1, <1>3
<1> QED BY <1>4 DEF s

LEMMA SchemaInvInit == ASSUME schemaTypes = BuiltinTypes PROVE SchemaInv
<1>1. DOMAIN schemaTypes = {"Entity", "Document"}
  BY DEF BuiltinTypes
<1>2. IsFiniteSet(DOMAIN schemaTypes)
  <2>1. IsFiniteSet({"Entity"}) /\ {"Entity"} \cup {"Document"} = {"Entity", "Document"}
    BY FS_Singleton
  <2> QED BY <1>1, <2>1, FS_AddElement
<1>3. ASSUME NEW t \in DOMAIN schemaTypes PROVE schemaTypes[t].supertypes \in Seq({"Entity"})
  <2>1. schemaTypes[t].supertypes \in {<<>>, <<"Entity">>}
    BY <1>1 DEF BuiltinTypes
  <2>2. <<>> \in Seq({"Entity"}) /\ <<"Entity">> \in Seq({"Entity"})
    OBVIOUS
  <2> QED BY <2>1, <2>2, Zenon
<1> QED BY <1>2, <1>3, SupertypesNamed DEF SchemaInv

LEMMA SchemaInvNext == ASSUME SchemaInv, SchemaNext PROVE SchemaInv'
<1>1. ASSUME NEW iri \in SchemaIris, NEW body \in SchemaBodies, SchemaRegister(iri, body) PROVE SchemaInv'
  <2>1. schemaTypes' = [i \in DOMAIN schemaTypes \cup {iri} |-> IF i = iri THEN body ELSE schemaTypes[i]]
    BY <1>1 DEF SchemaRegister
  <2>2. DOMAIN schemaTypes' = DOMAIN schemaTypes \cup {iri}
    BY <2>1
  <2>3. IsFiniteSet(DOMAIN schemaTypes')
    BY <2>2, FS_AddElement DEF SchemaInv
  <2>4. ASSUME NEW t \in DOMAIN schemaTypes' PROVE \E S : schemaTypes'[t].supertypes \in Seq(S)
    <3>1. CASE t = iri
      BY <2>1, <3>1, SchemaAssumption
    <3>2. CASE t # iri
      BY <2>1, <3>2 DEF SchemaInv
    <3> QED BY <3>1, <3>2
  <2>5. ASSUME NEW t \in DOMAIN schemaTypes' PROVE (schemaTypes[t].supertypes \in Seq(SchemaNames))'
    <3>1. PICK S : schemaTypes'[t].supertypes \in Seq(S)
      BY <2>4
    <3> DEFINE s == schemaTypes'[t].supertypes
    <3>2. Len(s) \in Nat /\ DOMAIN s = 1..Len(s) /\ s = [i \in 1..Len(s) |-> s[i]]
      BY <3>1, LenProperties
    <3>3. \A i \in 1..Len(s) : s[i] \in SchemaNames'
      BY <3>2 DEF SchemaNames, ToSet
    <3> HIDE DEF s
    <3>4. s \in [1..Len(s) -> SchemaNames']
      BY <3>2, <3>3, Zenon
    <3>5. s \in Seq(SchemaNames')
      BY <3>2, <3>4
    <3> QED BY <3>5 DEF s
  <2> QED BY <2>3, <2>5 DEF SchemaInv
<1>2. ASSUME NEW entity \in SchemaEntities, ValidateRaises(entity) PROVE SchemaInv'
  <2>1. schemaTypes' = BuiltinTypes
    BY <1>2 DEF ValidateRaises
  <2>2. DOMAIN schemaTypes' = {"Entity", "Document"}
    BY <2>1 DEF BuiltinTypes
  <2>3. IsFiniteSet(DOMAIN schemaTypes')
    <3>1. IsFiniteSet({"Entity"}) /\ {"Entity"} \cup {"Document"} = {"Entity", "Document"}
      BY FS_Singleton
    <3> QED BY <2>2, <3>1, FS_AddElement
  <2>4. "Entity" \in SchemaNames'
    BY <2>2 DEF SchemaNames
  <2>5. \A t \in DOMAIN schemaTypes' : schemaTypes'[t].supertypes \in {<<>>, <<"Entity">>}
    BY <2>1, <2>2 DEF BuiltinTypes
  <2>6. <<>> \in Seq(SchemaNames') /\ <<"Entity">> \in Seq(SchemaNames')
    BY <2>4
  <2> QED BY <2>3, <2>5, <2>6 DEF SchemaInv
<1> QED BY <1>1, <1>2 DEF SchemaNext

(* What the calls of one depth return.                                     *)
Hierarchies == [SUBSET DOMAIN schemaTypes -> [SchemaNames -> Seq(DOMAIN schemaTypes)]]

(* A call on a registered type that is not on the path lists the type and  *)
(* then what the calls on its supertypes list.                             *)
LEMMA HierarchyCallIs ==
    ASSUME SchemaInv, NEW below \in Hierarchies, NEW path \in SUBSET DOMAIN schemaTypes,
           NEW t \in DOMAIN schemaTypes \ path
    PROVE  LET h == HierarchyCall(below, path, t)
               above == UNION {ToSet(below[path \cup {t}][s]) : s \in ToSet(schemaTypes[t].supertypes)}
           IN  /\ h \in Seq(DOMAIN schemaTypes)
               /\ h[1] = t /\ Len(h) \in Nat /\ Len(h) >= 1
               /\ \A i \in 2..Len(h) : h[i] \in above
               /\ ToSet(h) = {t} \cup above
<1> DEFINE D == DOMAIN schemaTypes
           supers == schemaTypes[t].supertypes
           lists == [i \in DOMAIN supers |-> below[path \cup {t}][supers[i]]]
           j == Joined(lists)
           h == HierarchyCall(below, path, t)
           above == UNION {ToSet(below[path \cup {t}][s]) : s \in ToSet(supers)}
<1>1. supers \in Seq(SchemaNames)
  BY DEF SchemaInv
<1>2. Len(supers) \in Nat /\ DOMAIN supers = 1..Len(supers) /\ \A i \in 1..Len(supers) : supers[i] \in SchemaNames
  BY <1>1, LenProperties, ElementOfSeq
<1>3. path \cup {t} \in SUBSET D
  OBVIOUS
<1>4. below[path \cup {t}] \in [SchemaNames -> Seq(D)]
  BY <1>3 DEF Hierarchies
<1>5. h = <<t>> \o j
  BY DEF HierarchyCall
<1> HIDE DEF supers, h, j
<1>6. lists \in [1..Len(supers) -> Seq(D)]
  BY <1>2, <1>4
<1>7. lists \in Seq(Seq(D)) /\ Len(lists) = Len(supers)
  <2> HIDE DEF lists, D
  <2> QED BY <1>2, <1>6, FunctionIsSeq
<1>8. ToSet(supers) = {supers[i] : i \in 1..Len(supers)}
  BY <1>2 DEF ToSet
<1>9. \A i \in 1..Len(supers) : lists[i] = below[path \cup {t}][supers[i]]
  BY <1>2
<1> HIDE DEF lists
<1>10. j \in Seq(D) /\ ToSet(j) = UNION {ToSet(lists[i]) : i \in 1..Len(supers)}
  BY <1>7, JoinedIs DEF j
<1>11. ToSet(j) = above
  <2>1. \A x : x \in ToSet(j) <=> \E i \in 1..Len(supers) : x \in ToSet(below[path \cup {t}][supers[i]])
    <3>1. \A x : x \in ToSet(j) <=> \E i \in 1..Len(supers) : x \in ToSet(lists[i])
      BY <1>10
    <3>2. \A i \in 1..Len(supers) : ToSet(lists[i]) = ToSet(below[path \cup {t}][supers[i]])
      BY <1>9, Zenon
    <3> QED BY <3>1, <3>2, Zenon
  <2>2. \A x : x \in above <=> \E i \in 1..Len(supers) : x \in ToSet(below[path \cup {t}][supers[i]])
    BY <1>8
  <2> QED BY <2>1, <2>2
<1> HIDE DEF above
<1>12. <<t>> \in Seq(D) /\ Len(<<t>>) = 1 /\ <<t>>[1] = t /\ DOMAIN <<t>> = {1}
  OBVIOUS
<1>13. ToSet(<<t>>) = {t}
  BY <1>12 DEF ToSet
<1>14. h \in Seq(D) /\ ToSet(h) = {t} \cup above
  <2> DEFINE u == <<t>>
  <2>1. u \in Seq(D) /\ ToSet(u) = {t} /\ h = u \o j
    BY <1>5, <1>12, <1>13
  <2> HIDE DEF u, D
  <2>2. u \o j \in Seq(D) /\ ToSet(u \o j) = ToSet(u) \cup ToSet(j)
    BY <1>10, <2>1, ConcatMembers
  <2> QED BY <1>11, <2>1, <2>2, Zenon
<1>15. Len(j) \in Nat /\ DOMAIN j = 1..Len(j)
  BY <1>10, LenProperties
<1>16. Len(h) = 1 + Len(j) /\ \A i \in 1..(1 + Len(j)) : h[i] = IF i <= 1 THEN <<t>>[i] ELSE j[i - 1]
  BY <1>5, <1>10, <1>12, ConcatProperties
<1>17. h[1] = t /\ Len(h) \in Nat /\ Len(h) >= 1
  BY <1>12, <1>15, <1>16
<1>18. ASSUME NEW i \in 2..Len(h) PROVE h[i] \in above
  <2>1. i \in 1..(1 + Len(j)) /\ ~(i <= 1) /\ i - 1 \in DOMAIN j
    BY <1>15, <1>16
  <2>2. h[i] = j[i - 1]
    BY <1>16, <2>1
  <2>3. j[i - 1] \in ToSet(j)
    BY <2>1 DEF ToSet
  <2> QED BY <1>11, <2>2, <2>3
<1> QED BY <1>14, <1>17, <1>18 DEF h, above, supers

NoHierarchies == [path \in SUBSET DOMAIN schemaTypes |-> [t \in SchemaNames |-> <<>>]]

CalledBy(below) ==
    [path \in SUBSET DOMAIN schemaTypes |-> [t \in SchemaNames |-> HierarchyCall(below, path, t)]]

CallFn(f, n) ==
    f = [k \in 0..n |-> [path \in SUBSET DOMAIN schemaTypes |-> [t \in SchemaNames |->
            IF k = 0 THEN <<>> ELSE HierarchyCall(f[k - 1], path, t)]]]

LEMMA CalledByIs ==
    ASSUME SchemaInv, NEW below \in Hierarchies
    PROVE  CalledBy(below) \in Hierarchies
<1> SUFFICES ASSUME NEW path \in SUBSET DOMAIN schemaTypes, NEW t \in SchemaNames
             PROVE  HierarchyCall(below, path, t) \in Seq(DOMAIN schemaTypes)
  BY DEF CalledBy, Hierarchies
<1>1. CASE t \in path \/ t \notin DOMAIN schemaTypes
  <2>1. HierarchyCall(below, path, t) = <<>>
    BY <1>1 DEF HierarchyCall
  <2> QED BY <2>1, EmptySeq
<1>2. CASE t \in DOMAIN schemaTypes \ path
  BY <1>2, HierarchyCallIs
<1> QED BY <1>1, <1>2

(* The calls by depth are the ones their definition describes.             *)
LEMMA CallsExist ==
    ASSUME SchemaInv
    PROVE  \E f : /\ f \in [0..Cardinality(DOMAIN schemaTypes) -> Hierarchies]
                  /\ HierarchyCalls = f[Cardinality(DOMAIN schemaTypes)]
                  /\ f[0] = NoHierarchies
                  /\ \A k \in 1..Cardinality(DOMAIN schemaTypes) : f[k] = CalledBy(f[k - 1])
<1> DEFINE n == Cardinality(DOMAIN schemaTypes)
           V == Hierarchies
           step == [p \in Nat \X V |-> CalledBy(p[2])]
<1>0. n \in Nat
  BY FS_CardinalityType DEF SchemaInv
<1> HIDE DEF n, V
<1>1. step \in [Nat \X V -> V]
  <2>1. \A p \in Nat \X V : p[2] \in V
    OBVIOUS
  <2>2. \A p \in Nat \X V : CalledBy(p[2]) \in V
    BY <2>1, CalledByIs DEF V
  <2> QED BY <2>2, Zenon
<1>2. NoHierarchies \in V
  <2>1. <<>> \in Seq(DOMAIN schemaTypes)
    BY EmptySeq
  <2> QED BY <2>1 DEF NoHierarchies, V, Hierarchies
<1>3. \A k \in 1..n : \A x \in V : step[<<k, x>>] = CalledBy(x)
  <2> SUFFICES ASSUME NEW k \in 1..n, NEW x \in V PROVE step[<<k, x>>] = CalledBy(x)
    OBVIOUS
  <2>1. <<k, x>> \in Nat \X V /\ <<k, x>>[2] = x
    BY <1>0
  <2> QED BY <2>1, Zenon
<1> HIDE DEF step
<1>4. PICK f : Follows(f, V, NoHierarchies, step, n)
  BY <1>0, <1>1, <1>2, Recurses
<1>5. f \in [0..n -> V] /\ f[0] = NoHierarchies /\ \A k \in 1..n : f[k] = step[<<k, f[k - 1]>>]
  BY <1>4 DEF Follows
<1>6. ASSUME NEW k \in 1..n PROVE f[k] = CalledBy(f[k - 1])
  <2>0. k - 1 \in 0..n
    BY <1>0
  <2>1. f[k - 1] \in V
    BY <1>5, <2>0, Zenon
  <2> QED BY <1>3, <1>5, <2>1
<1>7. CallFn(f, n)
  <2>1. ASSUME NEW k \in 0..n
        PROVE  f[k] = [path \in SUBSET DOMAIN schemaTypes |-> [t \in SchemaNames |->
                          IF k = 0 THEN <<>> ELSE HierarchyCall(f[k - 1], path, t)]]
    <3>1. CASE k = 0
      BY <1>5, <3>1, Zenon DEF NoHierarchies
    <3>2. CASE k # 0
      <4>1. k \in 1..n
        BY <1>0, <3>2
      <4> QED BY <1>6, <3>2, <4>1, Zenon DEF CalledBy
    <3> QED BY <3>1, <3>2
  <2>2. f = [k \in 0..n |-> f[k]]
    BY <1>5, Zenon
  <2> QED BY <2>1, <2>2, Zenon DEF CallFn
<1> DEFINE g == CHOOSE h : CallFn(h, n)
<1>8. CallFn(g, n)
  BY <1>7, Zenon
<1>9. HierarchyCalls = g[n]
  BY Zenon DEF HierarchyCalls, CallFn, n
<1> HIDE DEF g
<1>10. \A k \in 0..n : g[k] = IF k = 0 THEN NoHierarchies ELSE CalledBy(g[k - 1])
  <2> SUFFICES ASSUME NEW k \in 0..n PROVE g[k] = IF k = 0 THEN NoHierarchies ELSE CalledBy(g[k - 1])
    OBVIOUS
  <2>1. g[k] = [path \in SUBSET DOMAIN schemaTypes |-> [t \in SchemaNames |->
                          IF k = 0 THEN <<>> ELSE HierarchyCall(g[k - 1], path, t)]]
    BY <1>8, Zenon DEF CallFn
  <2>2. CASE k = 0
    BY <2>1, <2>2, Zenon DEF NoHierarchies
  <2>3. CASE k # 0
    BY <2>1, <2>3, Zenon DEF CalledBy
  <2> QED BY <2>2, <2>3
<1> DEFINE Bad == {k \in 0..n : g[k] # f[k]}
<1>11. ASSUME Bad # {} PROVE FALSE
  <2>1. PICK k \in Bad : \A y \in Bad : k <= y
    <3>1. Bad \in SUBSET Nat
      <4>1. \A i \in 0..n : i \in Nat
        BY <1>0
      <4> QED BY <4>1, Zenon
    <3> HIDE DEF Bad
    <3> QED BY <1>11, <3>1, LeastOf
  <2>2. k \in 0..n /\ g[k] # f[k]
    BY <2>1, Zenon
  <2>3. k # 0
    BY <1>5, <1>10, <2>2, Zenon
  <2>4. k \in 1..n /\ k - 1 \in 0..n /\ ~(k <= k - 1)
    BY <1>0, <2>2, <2>3
  <2>5. g[k - 1] = f[k - 1]
    BY <2>1, <2>4, Zenon
  <2> QED BY <1>6, <1>10, <2>2, <2>3, <2>4, <2>5, Zenon
<1>12. n \in 0..n
  BY <1>0
<1>13. HierarchyCalls = f[n]
  BY <1>9, <1>11, <1>12, Zenon
<1> QED BY <1>5, <1>6, <1>13 DEF n, V

(* What a call with this path returns for t: t is in it, nothing of the    *)
(* path is; it has, with a type, those supertypes that are registered and  *)
(* not on the path, and nothing that a closed set with t could do without. *)
Lists(h, path, t) ==
    /\ t \in h /\ h \cap path = {} /\ h \subseteq DOMAIN schemaTypes
    /\ \A y \in h : (ToSet(schemaTypes[y].supertypes) \cap DOMAIN schemaTypes) \ path \subseteq h
    /\ \A S \in SUBSET DOMAIN schemaTypes : t \in S /\ ClosedUpwards(S) => h \subseteq S

LEMMA HierarchyCallMembers ==
    ASSUME SchemaInv, NEW below \in Hierarchies, NEW path \in SUBSET DOMAIN schemaTypes,
           NEW t \in DOMAIN schemaTypes \ path
    PROVE  ToSet(HierarchyCall(below, path, t)) =
             {t} \cup UNION {ToSet(below[path \cup {t}][s]) : s \in ToSet(schemaTypes[t].supertypes)}
<1>1. LET h == HierarchyCall(below, path, t)
          above == UNION {ToSet(below[path \cup {t}][s]) : s \in ToSet(schemaTypes[t].supertypes)}
      IN  /\ h \in Seq(DOMAIN schemaTypes)
          /\ h[1] = t /\ Len(h) \in Nat /\ Len(h) >= 1
          /\ \A i \in 2..Len(h) : h[i] \in above
          /\ ToSet(h) = {t} \cup above
  BY HierarchyCallIs, Zenon
<1> QED BY <1>1

(* One call lists what it should when the calls it makes do.               *)
LEMMA CallLists ==
    ASSUME SchemaInv, NEW below \in Hierarchies, NEW path \in SUBSET DOMAIN schemaTypes,
           NEW t \in DOMAIN schemaTypes \ path,
           \A s \in DOMAIN schemaTypes \ (path \cup {t}) : Lists(ToSet(below[path \cup {t}][s]), path \cup {t}, s),
           \A s \in SchemaNames : s \in path \cup {t} \/ s \notin DOMAIN schemaTypes => below[path \cup {t}][s] = <<>>
    PROVE  Lists(ToSet(HierarchyCall(below, path, t)), path, t)
<1> DEFINE D == DOMAIN schemaTypes
           P == path \cup {t}
           sup(y) == ToSet(schemaTypes[y].supertypes)
           low(s) == ToSet(below[P][s])
           h == ToSet(HierarchyCall(below, path, t))
<1>1. h = {t} \cup UNION {low(s) : s \in sup(t)}
  <2>1. ToSet(HierarchyCall(below, path, t)) =
          {t} \cup UNION {ToSet(below[path \cup {t}][s]) : s \in ToSet(schemaTypes[t].supertypes)}
    BY HierarchyCallMembers, Zenon
  <2> QED BY <2>1, Zenon
<1>2. ToSet(<<>>) = {}
  <2>1. DOMAIN <<>> = {}
    OBVIOUS
  <2> QED BY <2>1 DEF ToSet
<1>3. sup(t) \subseteq SchemaNames
  BY DEF SchemaNames
<1>4. ASSUME NEW s \in sup(t) PROVE (s \in D \ P /\ Lists(low(s), P, s)) \/ (s \notin D \ P /\ low(s) = {})
  BY <1>2, <1>3
<1> HIDE DEF h, low
<1>5. h \cap path = {} /\ h \subseteq D
  <2> SUFFICES ASSUME NEW x \in h PROVE x \notin path /\ x \in D
    OBVIOUS
  <2>1. CASE x = t
    BY <2>1
  <2>2. CASE x # t
    <3>1. PICK s \in sup(t) : x \in low(s)
      BY <1>1, <2>2
    <3>2. Lists(low(s), P, s)
      BY <1>4, <3>1
    <3> QED BY <3>1, <3>2 DEF Lists
  <2> QED BY <2>1, <2>2
<1>6. ASSUME NEW y \in h, NEW z \in (sup(y) \cap D) \ path PROVE z \in h
  <2>1. CASE z = t
    BY <1>1, <2>1
  <2>2. CASE z # t /\ y = t
    <3>1. z \in sup(t) /\ z \in D \ P
      BY <2>2
    <3>2. Lists(low(z), P, z)
      BY <1>4, <3>1
    <3>3. z \in low(z)
      BY <3>2 DEF Lists
    <3> QED BY <1>1, <3>1, <3>3
  <2>3. CASE z # t /\ y # t
    <3>1. PICK s \in sup(t) : y \in low(s)
      BY <1>1, <2>3
    <3>2. Lists(low(s), P, s)
      BY <1>4, <3>1
    <3>3. z \in (sup(y) \cap D) \ P
      BY <2>3
    <3>4. z \in low(s)
      BY <3>1, <3>2, <3>3 DEF Lists
    <3> QED BY <1>1, <3>1, <3>4
  <2> QED BY <2>1, <2>2, <2>3
<1>7. ASSUME NEW S \in SUBSET D, t \in S, ClosedUpwards(S) PROVE h \subseteq S
  <2> SUFFICES ASSUME NEW x \in h PROVE x \in S
    OBVIOUS
  <2>1. CASE x = t
    BY <1>7, <2>1
  <2>2. CASE x # t
    <3>1. PICK s \in sup(t) : x \in low(s)
      BY <1>1, <2>2
    <3>2. Lists(low(s), P, s) /\ s \in D
      BY <1>4, <3>1
    <3>3. s \in S
      BY <1>7, <3>1, <3>2 DEF ClosedUpwards
    <3> QED BY <1>7, <3>1, <3>2, <3>3 DEF Lists
  <2> QED BY <2>1, <2>2
<1>8. t \in h
  BY <1>1
<1>9. Lists(h, path, t)
  BY <1>5, <1>6, <1>7, <1>8 DEF Lists
<1> QED BY <1>9 DEF h

(* A registry of n types needs calls of depth n.                           *)
LEMMA DeepEnough ==
    ASSUME SchemaInv, NEW f, f \in [0..Cardinality(DOMAIN schemaTypes) -> Hierarchies],
           f[0] = NoHierarchies,
           \A k \in 1..Cardinality(DOMAIN schemaTypes) : f[k] = CalledBy(f[k - 1])
    PROVE  \A k \in 0..Cardinality(DOMAIN schemaTypes) : \A path \in SUBSET DOMAIN schemaTypes :
              /\ \A s \in SchemaNames : s \in path \/ s \notin DOMAIN schemaTypes => f[k][path][s] = <<>>
              /\ \A t \in DOMAIN schemaTypes \ path :
                    Cardinality(DOMAIN schemaTypes \ path) <= k => Lists(ToSet(f[k][path][t]), path, t)
<1> DEFINE D == DOMAIN schemaTypes
           n == Cardinality(D)
           Empty(k) == \A path \in SUBSET D : \A s \in SchemaNames : s \in path \/ s \notin D => f[k][path][s] = <<>>
           Full(k) == \A path \in SUBSET D : \A t \in D \ path :
                         Cardinality(D \ path) <= k => Lists(ToSet(f[k][path][t]), path, t)
           Bad == {k \in 0..n : ~(Empty(k) /\ Full(k))}
<1>0. IsFiniteSet(D) /\ n \in Nat /\ D \subseteq SchemaNames
  BY FS_CardinalityType DEF SchemaInv, SchemaNames
<1>1. ASSUME Bad # {} PROVE FALSE
  <2>1. PICK k \in Bad : \A y \in Bad : k <= y
    <3>1. Bad \in SUBSET Nat
      <4>1. \A i \in 0..n : i \in Nat
        BY <1>0
      <4> QED BY <4>1, Zenon
    <3> HIDE DEF Bad
    <3> QED BY <1>1, <3>1, LeastOf
  <2>2. k \in 0..n /\ ~(Empty(k) /\ Full(k))
    BY <2>1, Zenon
  <2>3. CASE k = 0
    <3>1. \A path \in SUBSET D : \A s \in SchemaNames : f[k][path][s] = <<>>
      BY <2>3 DEF NoHierarchies
    <3>2. ASSUME NEW path \in SUBSET D, NEW t \in D \ path PROVE ~(Cardinality(D \ path) <= 0)
      <4>1. IsFiniteSet(D \ path) /\ D \ path # {}
        BY <1>0, FS_Difference
      <4>2. Cardinality(D \ path) \in Nat /\ Cardinality(D \ path) # 0
        BY <4>1, FS_CardinalityType, FS_EmptySet
      <4> QED BY <4>2
    <3> QED BY <2>2, <2>3, <3>1, <3>2
  <2>4. CASE k # 0
    <3>1. k \in 1..n /\ k - 1 \in 0..n /\ ~(k <= k - 1) /\ k \in Nat
      BY <1>0, <2>2, <2>4
    <3>2. Empty(k - 1) /\ Full(k - 1)
      BY <2>1, <3>1, Zenon
    <3>3. f[k] = CalledBy(f[k - 1]) /\ f[k - 1] \in Hierarchies
      BY <3>1
    <3>4. \A path \in SUBSET D : \A s \in SchemaNames : f[k][path][s] = HierarchyCall(f[k - 1], path, s)
      BY <3>3 DEF CalledBy
    <3>5. Empty(k)
      BY <3>4 DEF HierarchyCall
    <3>6. ASSUME NEW path \in SUBSET D, NEW t \in D \ path, Cardinality(D \ path) <= k
          PROVE  Lists(ToSet(f[k][path][t]), path, t)
      <4> DEFINE P == path \cup {t}
      <4>1. P \in SUBSET D /\ D \ P = (D \ path) \ {t}
        OBVIOUS
      <4>2. IsFiniteSet(D \ path)
        BY <1>0, FS_Difference
      <4>3. Cardinality(D \ P) = Cardinality(D \ path) - 1 /\ Cardinality(D \ path) \in Nat
        <5>1. t \in D \ path
          OBVIOUS
        <5> DEFINE R == D \ path
        <5>2. IsFiniteSet(R) /\ t \in R
          BY <4>2, <5>1
        <5> HIDE DEF R
        <5>3. Cardinality(R \ {t}) = Cardinality(R) - 1 /\ Cardinality(R) \in Nat
          BY <5>2, FS_RemoveElement, FS_CardinalityType
        <5> QED BY <4>1, <5>3 DEF R
      <4>4. Cardinality(D \ P) <= k - 1
        BY <3>1, <3>6, <4>3
      <4> HIDE DEF P
      <4>5. \A s \in D \ P : Lists(ToSet(f[k - 1][P][s]), P, s)
        BY <3>2, <4>1, <4>4, Zenon
      <4>6. \A s \in SchemaNames : s \in P \/ s \notin D => f[k - 1][P][s] = <<>>
        BY <3>2, <4>1, Zenon
      <4>7. Lists(ToSet(HierarchyCall(f[k - 1], path, t)), path, t)
        BY <3>3, <4>5, <4>6, CallLists DEF P
      <4> QED BY <1>0, <3>4, <4>7, Zenon
    <3>7. Full(k)
      BY <3>6, Zenon
    <3> QED BY <2>2, <3>5, <3>7, Zenon
  <2> QED BY <2>3, <2>4
<1> QED BY <1>1, Zenon

(* type_hierarchy returns exactly the ancestors, the type itself first and *)
(* once.                                                                   *)
LEMMA SchemaInvImplies == ASSUME SchemaInv PROVE HierarchyIsClosure
<1> DEFINE D == DOMAIN schemaTypes
           n == Cardinality(D)
<1>0. IsFiniteSet(D) /\ n \in Nat /\ D \subseteq SchemaNames
  BY FS_CardinalityType DEF SchemaInv, SchemaNames
<1>1. PICK f : /\ f \in [0..n -> Hierarchies] /\ HierarchyCalls = f[n] /\ f[0] = NoHierarchies
               /\ \A k \in 1..n : f[k] = CalledBy(f[k - 1])
  BY CallsExist
<1> HIDE DEF n
<1>2. \A k \in 0..n : \A path \in SUBSET D :
        /\ \A s \in SchemaNames : s \in path \/ s \notin D => f[k][path][s] = <<>>
        /\ \A t \in D \ path : Cardinality(D \ path) <= k => Lists(ToSet(f[k][path][t]), path, t)
  BY <1>1, DeepEnough DEF n
<1> SUFFICES ASSUME NEW iri \in SchemaIris \cap D
             PROVE  /\ ToSet(ComputeHierarchy(iri, {})) = Ancestors(iri)
                    /\ ComputeHierarchy(iri, {})[1] = iri
                    /\ \A i \in 2..Len(ComputeHierarchy(iri, {})) : ComputeHierarchy(iri, {})[i] # iri
  BY DEF HierarchyIsClosure
<1> DEFINE h == ComputeHierarchy(iri, {})
<1>3. h = f[n][{}][iri]
  BY <1>0, <1>1 DEF ComputeHierarchy
<1>4. n # 0
  BY <1>0, FS_EmptySet DEF n
<1>5. n \in 1..n /\ n \in 0..n /\ n - 1 \in 0..n /\ n <= n
  BY <1>0, <1>4
<1>6. h = HierarchyCall(f[n - 1], {}, iri) /\ f[n - 1] \in Hierarchies
  <2>1. f[n - 1] \in Hierarchies /\ f[n] = CalledBy(f[n - 1])
    BY <1>1, <1>5
  <2>2. {} \in SUBSET D /\ iri \in SchemaNames
    BY <1>0
  <2>3. CalledBy(f[n - 1])[{}][iri] = HierarchyCall(f[n - 1], {}, iri)
    BY <2>2, Zenon DEF CalledBy
  <2> QED BY <1>3, <2>1, <2>3, Zenon
<1> HIDE DEF h
<1>7. Lists(ToSet(h), {}, iri)
  <2>1. D \ {} = D /\ {} \in SUBSET D /\ iri \in D
    OBVIOUS
  <2> QED BY <1>2, <1>3, <1>5, <2>1 DEF n
<1>8. ToSet(h) = Ancestors(iri)
  <2>1. ToSet(h) \subseteq Ancestors(iri)
    BY <1>7 DEF Lists, Ancestors
  <2>2. ClosedUpwards(ToSet(h)) /\ iri \in ToSet(h) /\ ToSet(h) \in SUBSET D
    BY <1>7 DEF Lists, ClosedUpwards
  <2>3. Ancestors(iri) \subseteq ToSet(h)
    BY <2>2 DEF Ancestors
  <2> QED BY <2>1, <2>3
<1>9. /\ h[1] = iri
      /\ \A i \in 2..Len(h) : h[i] \in UNION {ToSet(f[n - 1][{iri}][s]) : s \in ToSet(schemaTypes[iri].supertypes)}
  <2>1. {} \in SUBSET D /\ iri \in D \ {} /\ {} \cup {iri} = {iri}
    OBVIOUS
  <2>2. LET g == HierarchyCall(f[n - 1], {}, iri)
            above == UNION {ToSet(f[n - 1][{} \cup {iri}][s]) : s \in ToSet(schemaTypes[iri].supertypes)}
        IN  g[1] = iri /\ \A i \in 2..Len(g) : g[i] \in above
    BY <1>6, <2>1, HierarchyCallIs, Zenon
  <2> QED BY <1>6, <2>1, <2>2, Zenon
<1>10. ASSUME NEW i \in 2..Len(h) PROVE h[i] # iri
  <2>1. PICK s \in ToSet(schemaTypes[iri].supertypes) : h[i] \in ToSet(f[n - 1][{iri}][s])
    BY <1>9
  <2>2. s \in SchemaNames /\ {iri} \in SUBSET D
    BY DEF SchemaNames
  <2>3. CASE s \in D \ {iri}
    <3>1. Cardinality(D \ {iri}) = n - 1
      BY <1>0, FS_RemoveElement DEF n
    <3>2. n - 1 <= n - 1
      BY <1>0
    <3>3. Lists(ToSet(f[n - 1][{iri}][s]), {iri}, s)
      BY <1>2, <1>5, <2>2, <2>3, <3>1, <3>2
    <3> QED BY <2>1, <3>3 DEF Lists
  <2>4. CASE s \notin D \ {iri}
    <3>1. f[n - 1][{iri}][s] = <<>>
      BY <1>2, <1>5, <2>2, <2>4
    <3>2. DOMAIN <<>> = {}
      OBVIOUS
    <3>3. ToSet(<<>>) = {}
      BY <3>2 DEF ToSet
    <3> QED BY <2>1, <3>1, <3>3
  <2> QED BY <2>3, <2>4
<1> QED BY <1>8, <1>9, <1>10 DEF h

-----------------------------------------------------------------------------
(* Edges and their indexes                                                 *)

SubjectEntry(e) == <<e.subject, e>> \in subjectIdx
ObjectEntry(e) == <<e.object.name, e>> \in objectIdx

Agree(e) == (e \in triples) = SubjectEntry(e) /\ (HasNode(e) => (e \in triples) = ObjectEntry(e))

IsGraphCall(k) ==
    \/ k = NoCall
    \/ /\ k = [op |-> k.op, pc |-> k.pc, edge |-> k.edge]
       /\ k.op \in {"insert", "delete"} /\ k.edge \in GraphEdges
       /\ k.pc \in IF backend = "redb" THEN {"commit"} ELSE {"subject", "object", "edges"}
       /\ k.pc = "object" => HasNode(k.edge)

On(c, e) == calls[c] # NoCall /\ calls[c].edge = e

(* What a call has done to the indexes of its edge, while every call on    *)
(* the edge does the same.                                                 *)
Marked(c, e) ==
    /\ calls[c].pc # "subject" => SubjectEntry(e) = (calls[c].op = "insert")
    /\ calls[c].pc = "edges" /\ HasNode(e) => ObjectEntry(e) = (calls[c].op = "insert")

GraphType ==
    /\ backend \in {"simple", "redb"}
    /\ calls = [c \in GraphCallers |-> calls[c]]
    /\ \A c \in GraphCallers : IsGraphCall(calls[c])
    /\ triples \subseteq GraphEdges
    /\ \A x \in subjectIdx : x[2] \in GraphEdges /\ x = <<x[2].subject, x[2]>>
    /\ \A x \in objectIdx : x[2] \in GraphEdges /\ HasNode(x[2]) /\ x = <<x[2].object.name, x[2]>>

Uncontested(e) ==
    /\ \A c, d \in GraphCallers : On(c, e) /\ On(d, e) => calls[c].op = calls[d].op
    /\ \A c \in GraphCallers : On(c, e) => Marked(c, e)
    /\ (\A c \in GraphCallers : ~On(c, e)) => Agree(e)

GraphInv ==
    /\ GraphType
    /\ backend = "redb" => \A e \in GraphEdges : Agree(e)
    /\ backend = "simple" => \A e \in GraphEdges \ contested : Uncontested(e)

LEMMA GraphInvInit == ASSUME GraphInit PROVE GraphInv
BY DEF GraphInit, GraphInv, GraphType, IsGraphCall, Uncontested, Agree, SubjectEntry, ObjectEntry, On

LEMMA EdgeParts ==
    ASSUME NEW e \in GraphEdges
    PROVE  /\ e = [subject |-> e.subject, object |-> e.object]
           /\ e.subject \in Iris /\ e.object = [kind |-> e.object.kind, name |-> e.object.name]
           /\ e.object.kind \in {"node", "literal"}
           /\ HasNode(e) => e.object.name \in Iris
BY DEF GraphEdges, Nodes, HasNode

(* Put touches one entry.                                                  *)
LEMMA PutIs ==
    ASSUME NEW op \in {"insert", "delete"}, NEW S, NEW x
    PROVE  \A y : y \in Put(op, S, x) <=> IF y = x THEN op = "insert" ELSE y \in S
BY DEF Put

LEMMA GraphStart ==
    ASSUME GraphInv, NEW c \in GraphCallers, NEW op \in {"insert", "delete"}, NEW e \in GraphEdges, Start(c, op, e)
    PROVE  GraphInv'
<1>1. /\ calls[c] = NoCall /\ UNCHANGED <<backend, triples, subjectIdx, objectIdx>>
      /\ calls' = [calls EXCEPT ![c] = [op |-> op, pc |-> IF backend = "redb" THEN "commit" ELSE "subject", edge |-> e]]
      /\ contested' = IF Overlaps(c, op, e) THEN contested \cup {e} ELSE contested
  BY DEF Start
<1> DEFINE new == [op |-> op, pc |-> IF backend = "redb" THEN "commit" ELSE "subject", edge |-> e]
<1>2. new # NoCall /\ new.op = op /\ new.edge = e /\ new.pc = IF backend = "redb" THEN "commit" ELSE "subject"
  BY DEF NoCall
<1>3. /\ calls' = [d \in GraphCallers |-> calls'[d]] /\ calls'[c] = new
      /\ \A d \in GraphCallers \ {c} : calls'[d] = calls[d]
  BY <1>1 DEF GraphInv, GraphType
<1>4. IsGraphCall(calls[c])'
  BY <1>1, <1>2, <1>3 DEF IsGraphCall, GraphInv, GraphType
<1> HIDE DEF new
<1>5. GraphType'
  <2>1. ASSUME NEW d \in GraphCallers PROVE IsGraphCall(calls[d])'
    <3>1. CASE d = c
      BY <1>4, <3>1
    <3>2. CASE d # c
      BY <1>1, <1>3, <3>2 DEF IsGraphCall, GraphInv, GraphType
    <3> QED BY <3>1, <3>2
  <2> QED BY <1>1, <1>3, <2>1 DEF GraphInv, GraphType
<1>6. \A x \in GraphEdges : Agree(x)' = Agree(x)
  BY <1>1 DEF Agree, SubjectEntry, ObjectEntry
<1>7. ASSUME backend = "simple", NEW x \in GraphEdges, x \notin contested' PROVE Uncontested(x)'
  <2>0. x \notin contested /\ Uncontested(x)
    BY <1>1, <1>7 DEF GraphInv
  <2>1. CASE x # e
    <3>1. \A d \in GraphCallers : On(d, x)' = On(d, x) /\ (On(d, x) => calls'[d] = calls[d])
      BY <1>1, <1>2, <1>3, <2>1 DEF On
    <3>2. \A d \in GraphCallers : On(d, x)' => Marked(d, x)'
      BY <1>1, <2>0, <3>1 DEF Uncontested, Marked, SubjectEntry, ObjectEntry
    <3> QED BY <1>6, <2>0, <3>1, <3>2 DEF Uncontested
  <2>2. CASE x = e
    <3>1. ~Overlaps(c, op, e)
      BY <1>1, <1>7, <2>2
    <3>2. \A d \in GraphCallers \ {c} : On(d, e)' => calls'[d].op = op
      BY <1>3, <3>1 DEF Overlaps, On
    <3>3. On(c, e)' /\ calls'[c].op = op /\ calls'[c].pc = "subject"
      BY <1>2, <1>3, <1>7 DEF On
    <3>4. \A d \in GraphCallers \ {c} : On(d, e)' => Marked(d, e)'
      BY <1>1, <1>3, <2>0, <2>2 DEF Uncontested, Marked, SubjectEntry, ObjectEntry, On
    <3>5. Marked(c, e)'
      BY <3>3 DEF Marked
    <3> QED BY <2>2, <3>2, <3>3, <3>4, <3>5 DEF Uncontested
  <2> QED BY <2>1, <2>2
<1> QED BY <1>1, <1>5, <1>6, <1>7 DEF GraphInv

(* A step on one edge leaves the entries of the others.                    *)
LEMMA EntriesDiffer ==
    ASSUME NEW e \in GraphEdges, NEW x \in GraphEdges, x # e
    PROVE  <<x.subject, x>> # <<e.subject, e>> /\ <<x.object.name, x>> # <<e.object.name, e>>
OBVIOUS

(* What a call on an edge finds before its next step.                      *)
LEMMA CallParts ==
    ASSUME GraphInv, NEW c \in GraphCallers, calls[c] # NoCall
    PROVE  /\ calls[c] = [op |-> calls[c].op, pc |-> calls[c].pc, edge |-> calls[c].edge]
           /\ calls[c].op \in {"insert", "delete"} /\ calls[c].edge \in GraphEdges
           /\ calls[c].pc \in IF backend = "redb" THEN {"commit"} ELSE {"subject", "object", "edges"}
           /\ calls[c].pc = "object" => HasNode(calls[c].edge)
BY DEF GraphInv, GraphType, IsGraphCall

(* The next step of a call whose program counter moves: no triple changes, *)
(* and the index it writes has its entry as the operation says.            *)
LEMMA GraphIndexStep ==
    ASSUME GraphInv, NEW c \in GraphCallers, SubjectStep(c) \/ ObjectStep(c)
    PROVE  GraphInv'
<1> DEFINE k == calls[c]
           e == k.edge
           pc == calls'[c].pc
<1>1. k # NoCall /\ k.pc \in {"subject", "object"}
  BY DEF SubjectStep, ObjectStep, NoCall
<1>2. /\ k = [op |-> k.op, pc |-> k.pc, edge |-> k.edge] /\ k.op \in {"insert", "delete"} /\ e \in GraphEdges
      /\ backend = "simple" /\ (k.pc = "object" => HasNode(e))
  BY <1>1, CallParts DEF GraphInv, GraphType
<1>3. UNCHANGED <<backend, triples, contested>>
  BY DEF SubjectStep, ObjectStep
<1>4. /\ calls' = [d \in GraphCallers |-> calls'[d]] /\ \A d \in GraphCallers \ {c} : calls'[d] = calls[d]
      /\ calls'[c] = [op |-> k.op, pc |-> pc, edge |-> e] /\ pc \in {"object", "edges"}
      /\ pc = "object" => HasNode(e)
  BY <1>2 DEF SubjectStep, ObjectStep, GraphInv, GraphType
<1>5. /\ \A y : y \in subjectIdx' <=> IF k.pc = "subject" /\ y = <<e.subject, e>> THEN k.op = "insert" ELSE y \in subjectIdx
      /\ \A y : y \in objectIdx' <=> IF k.pc = "object" /\ y = <<e.object.name, e>> THEN k.op = "insert" ELSE y \in objectIdx
      /\ k.pc = "subject" /\ pc = "edges" => ~HasNode(e)
  <2>1. CASE SubjectStep(c)
    BY <1>2, <1>4, <2>1, PutIs DEF SubjectStep, GraphInv, GraphType
  <2>2. CASE ObjectStep(c)
    BY <1>2, <1>4, <2>2, PutIs DEF ObjectStep, GraphInv, GraphType
  <2> QED BY <2>1, <2>2
<1> HIDE DEF k, e, pc
<1>6. calls'[c] # NoCall /\ calls'[c].op = k.op /\ calls'[c].pc = pc /\ calls'[c].edge = e /\ calls[c] = k
  BY <1>4 DEF NoCall, k
<1>7. GraphType'
  <2>1. ASSUME NEW d \in GraphCallers PROVE IsGraphCall(calls[d])'
    <3>1. CASE d = c
      BY <1>2, <1>3, <1>4, <1>6, <3>1 DEF IsGraphCall
    <3>2. CASE d # c
      BY <1>3, <1>4, <3>2 DEF IsGraphCall, GraphInv, GraphType
    <3> QED BY <3>1, <3>2
  <2>2. ASSUME NEW x \in subjectIdx' PROVE x[2] \in GraphEdges /\ x = <<x[2].subject, x[2]>>
    BY <1>2, <1>5 DEF GraphInv, GraphType
  <2>3. ASSUME NEW x \in objectIdx' PROVE x[2] \in GraphEdges /\ HasNode(x[2]) /\ x = <<x[2].object.name, x[2]>>
    <3>1. CASE x \in objectIdx
      BY <3>1 DEF GraphInv, GraphType
    <3>2. CASE x \notin objectIdx
      <4>1. k.pc = "object" /\ x = <<e.object.name, e>>
        BY <1>5, <3>2
      <4>2. HasNode(e)
        BY <1>2, <4>1
      <4> QED BY <1>2, <4>1, <4>2
    <3> QED BY <3>1, <3>2
  <2> QED BY <1>3, <1>4, <2>1, <2>2, <2>3 DEF GraphInv, GraphType
<1>8. ASSUME NEW x \in GraphEdges \ contested PROVE Uncontested(x)'
  <2>0. Uncontested(x)
    BY <1>2 DEF GraphInv
  <2>1. \A d \in GraphCallers : On(d, x)' = On(d, x) /\ calls'[d].op = calls[d].op
    BY <1>1, <1>4, <1>6 DEF On, k, e
  <2>2. CASE x # e
    <3>1. SubjectEntry(x)' = SubjectEntry(x) /\ ObjectEntry(x)' = ObjectEntry(x)
      BY <1>2, <1>5, <2>2, EntriesDiffer DEF SubjectEntry, ObjectEntry
    <3>2. ~On(c, x)
      BY <2>2 DEF On, e, k
    <3>3. \A d \in GraphCallers : On(d, x)' => Marked(d, x)'
      BY <1>4, <2>0, <2>1, <3>1, <3>2 DEF Uncontested, Marked
    <3> QED BY <1>3, <2>0, <2>1, <3>1, <3>3 DEF Uncontested, Agree
  <2>3. CASE x = e
    <3>1. On(c, x) /\ Marked(c, x) /\ \A d \in GraphCallers : On(d, x) => calls[d].op = k.op
      BY <1>1, <2>0, <2>3 DEF On, Uncontested, e, k
    <3>2. SubjectEntry(x)' = (k.op = "insert")
      <4>1. CASE k.pc = "subject"
        BY <1>5, <2>3, <4>1 DEF SubjectEntry
      <4>2. CASE k.pc # "subject"
        BY <1>5, <3>1, <4>2 DEF SubjectEntry, Marked, k
      <4> QED BY <4>1, <4>2
    <3>3. k.pc = "object" => ObjectEntry(x)' = (k.op = "insert")
      BY <1>5, <2>3 DEF ObjectEntry
    <3>4. k.pc = "subject" => ObjectEntry(x)' = ObjectEntry(x)
      BY <1>5 DEF ObjectEntry
    <3>5. ASSUME NEW d \in GraphCallers, On(d, x)' PROVE Marked(d, x)'
      <4>0. calls'[d].op = k.op
        BY <2>1, <3>1, <3>5
      <4>1. ASSUME calls'[d].pc = "edges", HasNode(x) PROVE ObjectEntry(x)' = (k.op = "insert")
        <5>1. CASE k.pc = "object"
          BY <3>3, <5>1
        <5>2. CASE k.pc = "subject"
          <6>1. d # c
            BY <1>5, <1>6, <2>3, <4>1, <5>2
          <6>2. On(d, x) /\ calls[d].pc = "edges" /\ Marked(d, x) /\ calls[d].op = k.op
            BY <1>4, <2>0, <2>1, <3>1, <3>5, <4>1, <6>1 DEF Uncontested
          <6> QED BY <3>4, <4>1, <5>2, <6>2 DEF Marked
        <5> QED BY <1>1, <5>1, <5>2 DEF k
      <4> QED BY <3>2, <4>0, <4>1 DEF Marked
    <3> QED BY <2>0, <2>1, <3>1, <3>5 DEF Uncontested
  <2> QED BY <2>2, <2>3
<1> QED BY <1>2, <1>3, <1>7, <1>8 DEF GraphInv

LEMMA GraphEdgesStep ==
    ASSUME GraphInv, NEW c \in GraphCallers, EdgesStep(c)
    PROVE  GraphInv'
<1> DEFINE k == calls[c]
           e == k.edge
<1>1. k # NoCall /\ k.pc = "edges"
  BY DEF EdgesStep, NoCall
<1>2. k.op \in {"insert", "delete"} /\ e \in GraphEdges /\ backend = "simple"
  BY <1>1, CallParts DEF GraphInv, GraphType
<1>3. UNCHANGED <<backend, subjectIdx, objectIdx, contested>>
  BY DEF EdgesStep
<1>4. /\ calls' = [d \in GraphCallers |-> calls'[d]] /\ \A d \in GraphCallers \ {c} : calls'[d] = calls[d]
      /\ calls'[c] = NoCall
  BY DEF EdgesStep, GraphInv, GraphType
<1>5. \A y : y \in triples' <=> IF y = e THEN k.op = "insert" ELSE y \in triples
  BY <1>2, PutIs DEF EdgesStep, Written
<1> HIDE DEF k, e
<1>6. GraphType'
  <2>1. ASSUME NEW d \in GraphCallers PROVE IsGraphCall(calls[d])'
    BY <1>3, <1>4 DEF IsGraphCall, GraphInv, GraphType
  <2>2. triples' \subseteq GraphEdges
    BY <1>2, <1>5 DEF GraphInv, GraphType
  <2> QED BY <1>3, <1>4, <2>1, <2>2 DEF GraphInv, GraphType
<1>7. ASSUME NEW x \in GraphEdges \ contested PROVE Uncontested(x)'
  <2>0. Uncontested(x)
    BY <1>2 DEF GraphInv
  <2>1. \A d \in GraphCallers : On(d, x)' => On(d, x) /\ calls'[d] = calls[d]
    BY <1>4 DEF On
  <2>2. \A d \in GraphCallers : On(d, x)' => Marked(d, x)'
    BY <1>3, <2>0, <2>1 DEF Uncontested, Marked, SubjectEntry, ObjectEntry
  <2>3. ASSUME \A d \in GraphCallers : ~On(d, x)' PROVE Agree(x)'
    <3>1. CASE x # e
      <4>1. \A d \in GraphCallers : ~On(d, x)
        BY <1>4, <2>3, <3>1 DEF On, e, k
      <4> QED BY <1>3, <1>5, <2>0, <3>1, <4>1 DEF Uncontested, Agree, SubjectEntry, ObjectEntry
    <3>2. CASE x = e
      <4>1. On(c, x) /\ Marked(c, x)
        BY <1>1, <2>0, <3>2 DEF On, Uncontested, e, k
      <4>2. SubjectEntry(x)' = (k.op = "insert") /\ (HasNode(x) => ObjectEntry(x)' = (k.op = "insert"))
        BY <1>1, <1>3, <4>1 DEF Marked, SubjectEntry, ObjectEntry, k
      <4> QED BY <1>5, <3>2, <4>2 DEF Agree
    <3> QED BY <3>1, <3>2
  <2> QED BY <2>0, <2>1, <2>2, <2>3 DEF Uncontested
<1> QED BY <1>2, <1>3, <1>6, <1>7 DEF GraphInv

LEMMA GraphCommit ==
    ASSUME GraphInv, NEW c \in GraphCallers, CommitTables(c)
    PROVE  GraphInv'
<1> DEFINE k == calls[c]
           e == k.edge
<1>1. k # NoCall /\ k.pc = "commit"
  BY DEF CommitTables, NoCall
<1>2. k.op \in {"insert", "delete"} /\ e \in GraphEdges /\ backend = "redb"
  BY <1>1, CallParts DEF GraphInv, GraphType
<1>3. UNCHANGED <<backend, contested>>
  BY DEF CommitTables
<1>4. /\ calls' = [d \in GraphCallers |-> calls'[d]] /\ \A d \in GraphCallers \ {c} : calls'[d] = calls[d]
      /\ calls'[c] = NoCall
  BY DEF CommitTables, GraphInv, GraphType
<1>5. /\ \A y : y \in triples' <=> IF y = e THEN k.op = "insert" ELSE y \in triples
      /\ \A y : y \in subjectIdx' <=> IF y = <<e.subject, e>> THEN k.op = "insert" ELSE y \in subjectIdx
      /\ \A y : y \in objectIdx' <=> IF HasNode(e) /\ y = <<e.object.name, e>> THEN k.op = "insert" ELSE y \in objectIdx
  BY <1>2, PutIs DEF CommitTables, Written
<1> HIDE DEF k, e
<1>6. GraphType'
  <2>1. ASSUME NEW d \in GraphCallers PROVE IsGraphCall(calls[d])'
    BY <1>3, <1>4 DEF IsGraphCall, GraphInv, GraphType
  <2>2. triples' \subseteq GraphEdges
    BY <1>2, <1>5 DEF GraphInv, GraphType
  <2>3. ASSUME NEW x \in subjectIdx' PROVE x[2] \in GraphEdges /\ x = <<x[2].subject, x[2]>>
    BY <1>2, <1>5 DEF GraphInv, GraphType
  <2>4. ASSUME NEW x \in objectIdx' PROVE x[2] \in GraphEdges /\ HasNode(x[2]) /\ x = <<x[2].object.name, x[2]>>
    <3>1. CASE x \in objectIdx
      BY <3>1 DEF GraphInv, GraphType
    <3>2. CASE x \notin objectIdx
      <4>1. HasNode(e) /\ x = <<e.object.name, e>>
        BY <1>5, <3>2
      <4> QED BY <1>2, <4>1
    <3> QED BY <3>1, <3>2
  <2> QED BY <1>3, <1>4, <2>1, <2>2, <2>3, <2>4 DEF GraphInv, GraphType
<1>7. ASSUME NEW x \in GraphEdges PROVE Agree(x)'
  <2>0. Agree(x)
    BY <1>2 DEF GraphInv
  <2>1. CASE x # e
    BY <1>2, <1>5, <2>0, <2>1, EntriesDiffer DEF Agree, SubjectEntry, ObjectEntry
  <2>2. CASE x = e
    BY <1>5, <2>2 DEF Agree, SubjectEntry, ObjectEntry
  <2> QED BY <2>1, <2>2
<1> QED BY <1>2, <1>3, <1>6, <1>7 DEF GraphInv

LEMMA GraphFrame ==
    ASSUME GraphInv, UNCHANGED <<backend, triples, subjectIdx, objectIdx, calls, contested>>
    PROVE  GraphInv'
BY DEF GraphInv, GraphType, IsGraphCall, Uncontested, Agree, Marked, On, SubjectEntry, ObjectEntry

LEMMA GraphInvNext == ASSUME GraphInv, GraphNext PROVE GraphInv'
<1>1. ASSUME WalkVisits \/ WalkHops \/ WalkReturns \/ \E n \in Iris : WalkStarts(n)
      PROVE  UNCHANGED <<backend, triples, subjectIdx, objectIdx, calls, contested>>
  BY <1>1 DEF WalkVisits, WalkHops, WalkReturns, WalkStarts
<1> QED BY <1>1, GraphFrame, GraphStart, GraphIndexStep, GraphEdgesStep, GraphCommit DEF GraphNext

LEMMA GraphInvImplies == ASSUME GraphInv PROVE IndexesAgree
<1> SUFFICES ASSUME NEW e \in GraphEdges, Quiet(e), backend = "simple" => e \notin contested
             PROVE  Agree(e)
  BY DEF IndexesAgree, Agree, SubjectEntry, ObjectEntry
<1>1. \A c \in GraphCallers : ~On(c, e)
  BY DEF Quiet, On
<1> QED BY <1>1 DEF GraphInv, GraphType, Uncontested

-----------------------------------------------------------------------------
(* Walks                                                                   *)

ReachFn(f, E, n, h) == f = [i \in 0..h |-> IF i = 0 THEN {n} ELSE Near(E, f[i - 1])]

LEMMA ReachUnique ==
    ASSUME NEW E, NEW n, NEW a \in Nat, NEW b \in Nat, a <= b, NEW f, NEW g, ReachFn(f, E, n, a), ReachFn(g, E, n, b)
    PROVE  \A i \in 0..a : f[i] = g[i]
<1> DEFINE Bad == {i \in 0..a : f[i] # g[i]}
<1>1. \A i \in 0..a : i \in 0..b
  OBVIOUS
<1>2. \A i \in 0..a : f[i] = IF i = 0 THEN {n} ELSE Near(E, f[i - 1])
  <2> SUFFICES ASSUME NEW i \in 0..a PROVE f[i] = IF i = 0 THEN {n} ELSE Near(E, f[i - 1])
    OBVIOUS
  <2> QED BY Zenon DEF ReachFn
<1>3. \A i \in 0..a : g[i] = IF i = 0 THEN {n} ELSE Near(E, g[i - 1])
  <2> SUFFICES ASSUME NEW i \in 0..a PROVE g[i] = IF i = 0 THEN {n} ELSE Near(E, g[i - 1])
    OBVIOUS
  <2> QED BY <1>1, Zenon DEF ReachFn
<1>4. ASSUME Bad # {} PROVE FALSE
  <2>1. PICK k \in Bad : \A y \in Bad : k <= y
    <3>1. Bad \in SUBSET Nat
      OBVIOUS
    <3> HIDE DEF Bad
    <3> QED BY <1>4, <3>1, LeastOf
  <2>2. k \in 0..a /\ f[k] # g[k]
    BY <2>1, Zenon
  <2>3. k # 0
    BY <1>2, <1>3, <2>2, Zenon
  <2>4. k - 1 \in 0..a /\ ~(k <= k - 1)
    BY <2>2, <2>3
  <2>5. f[k - 1] = g[k - 1]
    BY <2>1, <2>4, Zenon
  <2> QED BY <1>2, <1>3, <2>2, <2>3, <2>5, Zenon
<1> QED BY <1>4, Zenon

(* The ball of radius 0 is its centre, and one more hop adds what is near. *)
LEMMA BallIs ==
    ASSUME NEW E \in SUBSET GraphEdges, NEW n \in Iris
    PROVE  /\ Ball(E, n, 0) = {n}
           /\ \A h \in Nat : Ball(E, n, h) \in SUBSET Iris /\ Ball(E, n, h + 1) = Near(E, Ball(E, n, h))
<1> DEFINE V == SUBSET Iris
           step == [p \in Nat \X V |-> Near(E, p[2])]
           R(h) == CHOOSE f : ReachFn(f, E, n, h)
<1>1. \A S \in V : Near(E, S) \in V
  BY EdgeParts DEF Near
<1>2. {n} \in V
  OBVIOUS
<1> HIDE DEF V
<1>3. step \in [Nat \X V -> V]
  <2>1. \A p \in Nat \X V : p[2] \in V
    OBVIOUS
  <2> QED BY <1>1, <2>1, Zenon
<1>4. \A k \in Nat, S \in V : step[<<k, S>>] = Near(E, S)
  <2> SUFFICES ASSUME NEW k \in Nat, NEW S \in V PROVE step[<<k, S>>] = Near(E, S)
    OBVIOUS
  <2>1. <<k, S>> \in Nat \X V /\ <<k, S>>[2] = S
    OBVIOUS
  <2> QED BY <2>1, Zenon
<1> HIDE DEF step
<1>5. ASSUME NEW h \in Nat PROVE \E f \in [0..h -> V] : ReachFn(f, E, n, h)
  <2>1. PICK f : Follows(f, V, {n}, step, h)
    BY <1>2, <1>3, Recurses
  <2>2. f \in [0..h -> V] /\ f[0] = {n} /\ \A i \in 1..h : f[i] = step[<<i, f[i - 1]>>]
    BY <2>1 DEF Follows
  <2>3. ASSUME NEW i \in 0..h PROVE f[i] = IF i = 0 THEN {n} ELSE Near(E, f[i - 1])
    <3>1. CASE i = 0
      BY <2>2, <3>1
    <3>2. CASE i # 0
      <4>1. i \in 1..h /\ i \in Nat /\ i - 1 \in 0..h
        BY <3>2
      <4>2. f[i - 1] \in V
        BY <2>2, <4>1, Zenon
      <4> QED BY <1>4, <2>2, <3>2, <4>1, <4>2, Zenon
    <3> QED BY <3>1, <3>2
  <2>4. f = [i \in 0..h |-> f[i]]
    BY <2>2, Zenon
  <2> QED BY <2>2, <2>3, <2>4, Zenon DEF ReachFn
<1>6. ASSUME NEW h \in Nat PROVE ReachFn(R(h), E, n, h) /\ Ball(E, n, h) = R(h)[h]
  <2>1. ReachFn(R(h), E, n, h)
    BY <1>5, Zenon
  <2> QED BY <2>1, Zenon DEF Ball, ReachFn
<1> HIDE DEF R
<1>7. ASSUME NEW h \in Nat PROVE Ball(E, n, h) \in V
  <2>1. PICK f \in [0..h -> V] : ReachFn(f, E, n, h)
    BY <1>5
  <2>2. h <= h /\ h \in 0..h
    OBVIOUS
  <2>3. R(h)[h] = f[h]
    BY <1>6, <2>1, <2>2, ReachUnique
  <2> QED BY <1>6, <2>1, <2>2, <2>3
<1>8. Ball(E, n, 0) = {n}
  <2>1. 0 \in 0..0
    OBVIOUS
  <2> QED BY <1>6, <2>1, Zenon DEF ReachFn
<1>9. ASSUME NEW h \in Nat PROVE Ball(E, n, h + 1) = Near(E, Ball(E, n, h))
  <2>1. h + 1 \in Nat /\ h <= h + 1 /\ h \in 0..h /\ h + 1 \in 0..(h + 1) /\ h + 1 # 0 /\ (h + 1) - 1 = h
    OBVIOUS
  <2>2. R(h)[h] = R(h + 1)[h]
    BY <1>6, <2>1, ReachUnique
  <2>3. R(h + 1)[h + 1] = Near(E, R(h + 1)[(h + 1) - 1])
    BY <1>6, <2>1, Zenon DEF ReachFn
  <2> QED BY <1>6, <2>1, <2>2, <2>3
<1> QED BY <1>7, <1>8, <1>9 DEF V

(* More edges reach no fewer nodes.                                        *)
LEMMA BallGrows ==
    ASSUME NEW E \in SUBSET GraphEdges, NEW F \in SUBSET GraphEdges, E \subseteq F, NEW n \in Iris
    PROVE  \A h \in Nat : Ball(E, n, h) \subseteq Ball(F, n, h)
<1> DEFINE Bad == {h \in Nat : ~(Ball(E, n, h) \subseteq Ball(F, n, h))}
<1>1. ASSUME Bad # {} PROVE FALSE
  <2>1. PICK k \in Bad : \A y \in Bad : k <= y
    <3>1. Bad \in SUBSET Nat
      OBVIOUS
    <3> HIDE DEF Bad
    <3> QED BY <1>1, <3>1, LeastOf
  <2>2. k \in Nat /\ ~(Ball(E, n, k) \subseteq Ball(F, n, k))
    BY <2>1, Zenon
  <2>3. k # 0
    BY <2>2, BallIs
  <2>4. k - 1 \in Nat /\ ~(k <= k - 1) /\ (k - 1) + 1 = k
    BY <2>2, <2>3
  <2>5. Ball(E, n, k - 1) \subseteq Ball(F, n, k - 1)
    BY <2>1, <2>4, Zenon
  <2>6. Ball(E, n, k) = Near(E, Ball(E, n, k - 1)) /\ Ball(F, n, k) = Near(F, Ball(F, n, k - 1))
    <3>1. Ball(E, n, (k - 1) + 1) = Near(E, Ball(E, n, k - 1)) /\ Ball(F, n, (k - 1) + 1) = Near(F, Ball(F, n, k - 1))
      BY <2>4, BallIs
    <3> QED BY <2>4, <3>1
  <2>7. \A S, T : S \subseteq T => Near(E, S) \subseteq Near(F, T)
    BY DEF Near
  <2> QED BY <2>2, <2>5, <2>6, <2>7
<1> QED BY <1>1, Zenon

(* A finite set written out once.                                          *)
LEMMA SetToSeqIs ==
    ASSUME NEW S, IsFiniteSet(S)
    PROVE  SetToSeq(S) \in Seq(S) /\ ToSet(SetToSeq(S)) = S
<1> DEFINE n == Cardinality(S)
           s == SetToSeq(S)
<1>1. n \in Nat /\ ExistsBijection(1..n, S)
  BY FS_CardinalityType
<1>2. \E f \in [1..n -> S] : IsInjective(f)
  BY <1>1 DEF ExistsBijection, Bijection, Injection, IsInjective
<1>3. s \in [1..n -> S] /\ IsInjective(s)
  BY <1>2, Zenon DEF SetToSeq
<1> HIDE DEF s
<1>4. s \in Injection(1..n, S)
  BY <1>3 DEF Injection, IsInjective
<1>5. IsFiniteSet(1..n) /\ Cardinality(1..n) = n
  BY <1>1, FS_Interval
<1>6. s \in Surjection(1..n, S)
  BY <1>4, <1>5, FS_Injection
<1>7. s \in Seq(S) /\ DOMAIN s = 1..n
  BY <1>1, <1>3
<1>8. ToSet(s) = S
  BY <1>6, <1>7 DEF ToSet, Surjection
<1> QED BY <1>7, <1>8 DEF s

LEMMA ImageFinite ==
    ASSUME NEW S, IsFiniteSet(S), NEW f, DOMAIN f = S
    PROVE  IsFiniteSet({f[x] : x \in S})
<1> DEFINE T == {f[x] : x \in S}
           g == [x \in S |-> f[x]]
<1>1. g \in Surjection(S, T)
  BY DEF Surjection
<1> HIDE DEF g, T
<1>2. IsFiniteSet(T)
  BY <1>1, FS_Surjection
<1> QED BY <1>2 DEF T

(* Nothing is written and no index is left contested.                      *)
Calm == walk.still /\ (backend = "simple" => contested = {})

WalkType ==
    /\ walk = [active |-> walk.active, from |-> walk.from, left |-> walk.left, frontier |-> walk.frontier,
               next |-> walk.next, visited |-> walk.visited, turn |-> walk.turn, still |-> walk.still]
    /\ walk.active \in BOOLEAN /\ walk.still \in BOOLEAN /\ walk.turn \in {"out", "in"}
    /\ walk.left \in 0..Hops /\ walk.frontier \in Seq(Iris) /\ walk.next \in Seq(Iris)

(* How far the walk has come: the frontier is at its distance, next one    *)
(* hop beyond, and whatever edge it followed was stored at some time.      *)
WalkReaches ==
    LET h == Hops - walk.left
    IN  /\ walk.from \in Iris /\ triples \subseteq during /\ during \subseteq GraphEdges
        /\ walk.left = 0 => walk.next = <<>>
        /\ walk.frontier = <<>> => walk.turn = "out"
        /\ ToSet(walk.frontier) \subseteq Ball(during, walk.from, h)
        /\ ToSet(walk.next) \subseteq Ball(during, walk.from, h + 1)
        /\ walk.visited \subseteq Ball(during, walk.from, h) \cup ToSet(walk.next)
        /\ ToSet(walk.frontier) \cup ToSet(walk.next) \subseteq walk.visited

NodesAfter(v) == {e.object.name : e \in {d \in triples : HasNode(d) /\ d.subject \in {v}}}
NodesBefore(v) == {e.subject : e \in {d \in triples : HasNode(d) /\ d.object.name \in {v}}}

(* What a walk that nothing disturbs has not missed.                       *)
WalkCovers ==
    LET ball == Ball(triples, walk.from, Hops - walk.left)
    IN  /\ \A c \in GraphCallers : calls[c] = NoCall
        /\ ball \subseteq walk.visited /\ ToSet(walk.next) \cap ball = {}
        /\ \A v \in walk.visited \ (ToSet(walk.frontier) \cup ToSet(walk.next)) : Near(triples, {v}) \subseteq walk.visited
        /\ walk.turn = "in" => NodesAfter(walk.frontier[1]) \subseteq walk.visited

WalkInv ==
    /\ IsFiniteSet(triples) /\ WalkType
    /\ walk.active => WalkReaches /\ (Calm => WalkCovers)

LEMMA WalkInvInit == ASSUME GraphInit PROVE WalkInv
<1>1. walk = NoWalk /\ triples = {}
  BY DEF GraphInit
<1>2. IsFiniteSet(triples)
  BY <1>1, FS_EmptySet
<1>3. <<>> \in Seq(Iris)
  BY EmptySeq
<1> QED BY <1>1, <1>2, <1>3, HopsAssumption DEF WalkInv, WalkType, NoWalk

LEMMA WalkInvImplies == ASSUME WalkInv PROVE WalkJustified
<1> SUFFICES ASSUME walk.active, walk.left = 0
             PROVE  /\ walk.visited \subseteq Ball(during, walk.from, Hops)
                    /\ Calm => Ball(triples, walk.from, Hops) \subseteq walk.visited
  BY DEF WalkJustified, Calm
<1>1. Hops - walk.left = Hops
  BY HopsAssumption
<1>2. ToSet(walk.next) = {}
  <2>1. walk.next = <<>>
    BY DEF WalkInv, WalkReaches
  <2>2. DOMAIN <<>> = {}
    OBVIOUS
  <2> QED BY <2>1, <2>2 DEF ToSet
<1> QED BY <1>1, <1>2 DEF WalkInv, WalkReaches, WalkCovers

(* A write disturbs the walk, and what it stores was stored during it.     *)
LEMMA WalkWrite ==
    ASSUME GraphInv, WalkInv, GraphInv', IsFiniteSet(triples'), UNCHANGED <<walk, backend, contested>>,
           NEW c \in GraphCallers, calls[c] # NoCall,
           triples' # triples => during' = IF walk.active THEN during \cup triples' ELSE during,
           triples' = triples => during' = during \/ during' = IF walk.active THEN during \cup triples' ELSE during
    PROVE  WalkInv'
<1>1. WalkType'
  BY DEF WalkInv, WalkType
<1>2. ASSUME walk.active PROVE WalkReaches'
  <2>1. ~Calm /\ WalkReaches
    BY <1>2 DEF WalkInv, WalkCovers
  <2>2. during \subseteq during' /\ triples' \subseteq during' /\ during' \subseteq GraphEdges
    BY <1>2, <2>1 DEF WalkReaches, GraphInv, GraphType
  <2>3. walk.from \in Iris /\ during \in SUBSET GraphEdges /\ during' \in SUBSET GraphEdges
    BY <2>1, <2>2 DEF WalkReaches
  <2> DEFINE h == Hops - walk.left
  <2>4. h \in Nat /\ h + 1 \in Nat
    BY HopsAssumption DEF WalkInv, WalkType
  <2>5. /\ Ball(during, walk.from, h) \subseteq Ball(during', walk.from, h)
        /\ Ball(during, walk.from, h + 1) \subseteq Ball(during', walk.from, h + 1)
    <3> HIDE DEF h
    <3> QED BY <2>2, <2>3, <2>4, BallGrows
  <2> QED BY <2>1, <2>2, <2>5 DEF WalkReaches
<1>3. walk.active => ~Calm
  BY DEF WalkInv, WalkCovers
<1> QED BY <1>1, <1>2, <1>3 DEF WalkInv, Calm

LEMMA WalkFrame ==
    ASSUME WalkInv, UNCHANGED graphVars
    PROVE  WalkInv'
BY DEF graphVars, WalkInv, WalkType, WalkReaches, WalkCovers, Calm, NodesAfter

LEMMA WalkBegins ==
    ASSUME GraphInv, WalkInv, NEW n \in Iris, WalkStarts(n)
    PROVE  WalkInv'
<1>1. /\ walk' = [active |-> TRUE, from |-> n, left |-> Hops, frontier |-> <<n>>, next |-> <<>>, visited |-> {n},
                  turn |-> "out", still |-> \A c \in GraphCallers : calls[c] = NoCall]
      /\ during' = triples /\ UNCHANGED <<backend, triples, calls, contested>>
  BY DEF WalkStarts
<1>2. /\ walk'.from = n /\ walk'.left = Hops /\ walk'.frontier = <<n>> /\ walk'.next = <<>> /\ walk'.visited = {n}
      /\ walk'.turn = "out" /\ walk'.still = (\A c \in GraphCallers : calls[c] = NoCall)
  BY <1>1
<1>3. ToSet(<<n>>) = {n} /\ ToSet(<<>>) = {}
  <2>1. DOMAIN <<n>> = {1} /\ <<n>>[1] = n /\ DOMAIN <<>> = {}
    OBVIOUS
  <2> QED BY <2>1 DEF ToSet
<1>4. WalkType'
  <2>1. <<n>> \in Seq(Iris) /\ <<>> \in Seq(Iris)
    OBVIOUS
  <2> QED BY <1>1, <2>1, HopsAssumption DEF WalkType
<1>5. Hops - Hops = 0 /\ 0 \in Nat
  BY HopsAssumption
<1>6. triples \in SUBSET GraphEdges /\ Ball(triples, n, 0) = {n}
  BY BallIs DEF GraphInv, GraphType
<1>7. WalkReaches'
  BY <1>1, <1>2, <1>3, <1>5, <1>6 DEF WalkReaches
<1>8. Calm' => WalkCovers'
  BY <1>1, <1>2, <1>3, <1>5, <1>6 DEF Calm, WalkCovers
<1> QED BY <1>1, <1>4, <1>7, <1>8 DEF WalkInv

LEMMA WalkNextHop ==
    ASSUME GraphInv, WalkInv, WalkHops
    PROVE  WalkInv'
<1> DEFINE h == Hops - walk.left
<1>1. /\ walk.active /\ walk.left > 0 /\ walk.frontier = <<>>
      /\ walk' = [walk EXCEPT !.left = @ - 1, !.frontier = walk.next, !.next = <<>>]
      /\ UNCHANGED <<backend, triples, calls, contested, during>>
  BY DEF WalkHops
<1>2. /\ walk' = [active |-> walk.active, from |-> walk.from, left |-> walk.left - 1, frontier |-> walk.next,
                  next |-> <<>>, visited |-> walk.visited, turn |-> walk.turn, still |-> walk.still]
  BY <1>1 DEF WalkInv, WalkType
<1>3. /\ walk'.from = walk.from /\ walk'.left = walk.left - 1 /\ walk'.frontier = walk.next /\ walk'.next = <<>>
      /\ walk'.visited = walk.visited /\ walk'.turn = walk.turn /\ walk'.still = walk.still
  BY <1>2
<1>4. WalkType'
  <2>1. walk.left - 1 \in 0..Hops /\ <<>> \in Seq(Iris)
    BY <1>1, HopsAssumption DEF WalkInv, WalkType
  <2> QED BY <1>2, <2>1 DEF WalkInv, WalkType
<1>5. h \in Nat /\ Hops - walk'.left = h + 1
  BY <1>3, HopsAssumption DEF WalkInv, WalkType
<1>6. WalkReaches /\ walk.turn = "out"
  BY <1>1 DEF WalkInv, WalkReaches
<1>7. ToSet(<<>>) = {}
  <2>1. DOMAIN <<>> = {}
    OBVIOUS
  <2> QED BY <2>1 DEF ToSet
<1> HIDE DEF h
<1>8. /\ walk.from \in Iris /\ during \in SUBSET GraphEdges /\ triples \in SUBSET GraphEdges
      /\ Ball(during, walk.from, h + 1) = Near(during, Ball(during, walk.from, h))
      /\ Ball(triples, walk.from, h + 1) = Near(triples, Ball(triples, walk.from, h))
  <2>1. walk.from \in Iris /\ during \in SUBSET GraphEdges /\ triples \in SUBSET GraphEdges
    BY <1>6 DEF WalkReaches, GraphInv, GraphType
  <2> QED BY <1>5, <2>1, BallIs
<1>9. WalkReaches'
  <2>1. /\ ToSet(walk.next) \subseteq Ball(during, walk.from, h + 1)
        /\ walk.visited \subseteq Ball(during, walk.from, h) \cup ToSet(walk.next)
        /\ ToSet(walk.next) \subseteq walk.visited
    BY <1>6 DEF WalkReaches, h
  <2>2. Ball(during, walk.from, h) \subseteq Ball(during, walk.from, h + 1)
    BY <1>8 DEF Near
  <2>3. /\ triples' \subseteq during' /\ during' \subseteq GraphEdges /\ walk'.from \in Iris
        /\ walk'.turn = "out" /\ walk'.next = <<>>
    BY <1>1, <1>3, <1>6 DEF WalkReaches
  <2>4. ToSet(walk'.frontier) \subseteq Ball(during', walk'.from, Hops - walk'.left)
    BY <1>1, <1>3, <1>5, <2>1
  <2>5. walk'.visited \subseteq Ball(during', walk'.from, Hops - walk'.left)
    BY <1>1, <1>3, <1>5, <2>1, <2>2
  <2> QED BY <1>3, <1>7, <2>1, <2>3, <2>4, <2>5 DEF WalkReaches
<1>10. ASSUME Calm' PROVE WalkCovers'
  <2>1. Calm /\ WalkCovers
    BY <1>1, <1>3, <1>10 DEF Calm, WalkInv
  <2> DEFINE ball == Ball(triples, walk.from, h)
  <2>2. /\ ball \subseteq walk.visited /\ ToSet(walk.next) \cap ball = {}
        /\ \A v \in walk.visited \ ToSet(walk.next) : Near(triples, {v}) \subseteq walk.visited
        /\ \A c \in GraphCallers : calls[c] = NoCall
    BY <1>1, <1>7, <2>1 DEF WalkCovers, h
  <2> HIDE DEF ball
  <2>3. \A v \in ball : Near(triples, {v}) \subseteq walk.visited
    BY <2>2
  <2>4. Near(triples, ball) \subseteq walk.visited
    <3> SUFFICES ASSUME NEW y \in Near(triples, ball) PROVE \E v \in ball : y \in Near(triples, {v})
      BY <2>3
    <3> QED BY DEF Near
  <2>5. Ball(triples', walk'.from, Hops - walk'.left) \subseteq walk'.visited
    BY <1>1, <1>3, <1>5, <1>8, <2>4 DEF ball
  <2>6. walk'.turn # "in"
    BY <1>3, <1>6
  <2>7. \A v \in walk'.visited \ (ToSet(walk'.frontier) \cup ToSet(walk'.next)) : Near(triples', {v}) \subseteq walk'.visited
    BY <1>1, <1>3, <1>7, <2>2
  <2> QED BY <1>1, <1>3, <1>7, <2>2, <2>5, <2>6, <2>7 DEF WalkCovers
<1> QED BY <1>1, <1>4, <1>9, <1>10 DEF WalkInv

(* The indexes lead along stored edges, and along all of them when no call *)
(* is under way and none was contested.                                    *)
LEMMA IndexesLead ==
    ASSUME GraphInv, NEW n
    PROVE  /\ NodesOut(n) \subseteq NodesAfter(n) /\ NodesIn(n) \subseteq NodesBefore(n)
           /\ Calm /\ (\A c \in GraphCallers : calls[c] = NoCall) =>
                NodesAfter(n) \subseteq NodesOut(n) /\ NodesBefore(n) \subseteq NodesIn(n)
<1>1. \A e \in triples : <<n, e>> \in subjectIdx => e.subject = n
  BY DEF GraphInv, GraphType
<1>2. \A e \in triples : <<n, e>> \in objectIdx => HasNode(e) /\ e.object.name = n
  BY DEF GraphInv, GraphType
<1>3. NodesOut(n) \subseteq NodesAfter(n) /\ NodesIn(n) \subseteq NodesBefore(n)
  BY <1>1, <1>2 DEF NodesOut, NodesIn, Outgoing, Incoming, NodesAfter, NodesBefore
<1>4. ASSUME Calm, \A c \in GraphCallers : calls[c] = NoCall
      PROVE  NodesAfter(n) \subseteq NodesOut(n) /\ NodesBefore(n) \subseteq NodesIn(n)
  <2>1. \A e \in triples : Agree(e)
    <3> SUFFICES ASSUME NEW e \in triples PROVE Agree(e)
      OBVIOUS
    <3>1. e \in GraphEdges /\ \A c \in GraphCallers : ~On(c, e)
      BY <1>4 DEF On, GraphInv, GraphType
    <3> QED BY <1>4, <3>1 DEF Calm, GraphInv, GraphType, Uncontested
  <2>2. \A e \in triples : <<e.subject, e>> \in subjectIdx /\ (HasNode(e) => <<e.object.name, e>> \in objectIdx)
    BY <2>1 DEF Agree, SubjectEntry, ObjectEntry
  <2> QED BY <2>2 DEF NodesOut, NodesIn, Outgoing, Incoming, NodesAfter, NodesBefore
<1> QED BY <1>3, <1>4

LEMMA FoundFinite ==
    ASSUME GraphInv, WalkInv, NEW n
    PROVE  /\ IsFiniteSet(NodesOut(n)) /\ NodesOut(n) \subseteq Iris
           /\ IsFiniteSet(NodesIn(n)) /\ NodesIn(n) \subseteq Iris
<1> DEFINE S == {d \in Outgoing(n) : HasNode(d)}
           f == [e \in S |-> e.object.name]
           T == Incoming(n)
           g == [e \in T |-> e.subject]
<1>1. IsFiniteSet(S) /\ IsFiniteSet(T)
  <2>1. IsFiniteSet(triples) /\ S \in SUBSET triples /\ T \in SUBSET triples
    BY DEF WalkInv, Outgoing, Incoming
  <2> HIDE DEF S, T
  <2> QED BY <2>1, FS_Subset
<1>2. NodesOut(n) = {f[e] : e \in S} /\ DOMAIN f = S
  BY DEF NodesOut
<1>3. NodesIn(n) = {g[e] : e \in T} /\ DOMAIN g = T
  BY DEF NodesIn
<1>4. IsFiniteSet(NodesOut(n)) /\ IsFiniteSet(NodesIn(n))
  <2> HIDE DEF S, T, f, g
  <2> QED BY <1>1, <1>2, <1>3, ImageFinite
<1>5. NodesOut(n) \subseteq Iris /\ NodesIn(n) \subseteq Iris
  BY EdgeParts DEF NodesOut, NodesIn, Outgoing, Incoming, GraphInv, GraphType
<1> QED BY <1>4, <1>5

LEMMA WalkNextNode ==
    ASSUME GraphInv, WalkInv, WalkVisits
    PROVE  WalkInv'
<1> DEFINE h == Hops - walk.left
           n == walk.frontier[1]
           out == walk.turn = "out"
           all == IF out THEN NodesOut(n) ELSE NodesIn(n)
           found == all \ walk.visited
           more == walk.next \o SetToSeq(found)
           rest == IF out THEN walk.frontier ELSE Tail(walk.frontier)
<1>1. /\ walk.active /\ walk.left > 0 /\ walk.frontier # <<>>
      /\ walk' = [walk EXCEPT !.frontier = IF walk.turn = "out" THEN @ ELSE Tail(@),
                              !.turn = IF @ = "out" THEN "in" ELSE "out",
                              !.next = @ \o SetToSeq(found), !.visited = @ \cup found]
      /\ UNCHANGED <<backend, triples, calls, contested, during>>
  BY DEF WalkVisits
<1>2. walk' = [active |-> walk.active, from |-> walk.from, left |-> walk.left, frontier |-> rest,
               next |-> more, visited |-> walk.visited \cup found,
               turn |-> IF out THEN "in" ELSE "out", still |-> walk.still]
  BY <1>1 DEF WalkInv, WalkType
<1>3. IsFiniteSet(found) /\ found \subseteq Iris
  <2>1. IsFiniteSet(all) /\ all \subseteq Iris
    BY FoundFinite
  <2> HIDE DEF all
  <2> QED BY <2>1, FS_Difference
<1>4. SetToSeq(found) \in Seq(found) /\ ToSet(SetToSeq(found)) = found
  <2> HIDE DEF found
  <2> QED BY <1>3, SetToSeqIs
<1>5. all \subseteq Near(triples, {n})
  BY IndexesLead DEF Near, NodesAfter, NodesBefore
<1>6. n \in ToSet(walk.frontier) /\ walk.frontier \in Seq(Iris)
  <2>1. walk.frontier \in Seq(Iris) /\ 1 \in DOMAIN walk.frontier
    BY <1>1 DEF WalkInv, WalkType
  <2> QED BY <2>1 DEF ToSet
<1>7. more \in Seq(Iris) /\ ToSet(more) = ToSet(walk.next) \cup found
  <2>1. SetToSeq(found) \in Seq(Iris)
    <3> DEFINE s == SetToSeq(found)
    <3>1. Len(s) \in Nat /\ s \in [1..Len(s) -> found]
      <4> HIDE DEF s, found
      <4> QED BY <1>4 DEF s
    <3>2. s \in [1..Len(s) -> Iris]
      <4> HIDE DEF s, found
      <4> QED BY <1>3, <3>1, Zenon
    <3> HIDE DEF s
    <3>3. s \in Seq(Iris)
      BY <3>1, <3>2, FunctionIsSeq
    <3> QED BY <3>3 DEF s
  <2>2. walk.next \in Seq(Iris)
    BY DEF WalkInv, WalkType
  <2> HIDE DEF found
  <2> QED BY <1>4, <2>1, <2>2, ConcatMembers
<1>8. rest \in Seq(Iris) /\ ToSet(rest) \subseteq ToSet(walk.frontier) /\ ToSet(walk.frontier) \subseteq ToSet(rest) \cup {n}
  <2>1. CASE out
    BY <1>6, <2>1
  <2>2. CASE ~out
    <3> DEFINE s == walk.frontier
    <3>1. s \in Seq(Iris) /\ Len(s) \in Nat /\ DOMAIN s = 1..Len(s) /\ Len(s) # 0
      BY <1>1, <1>6
    <3>2. Tail(s) \in Seq(Iris) /\ DOMAIN Tail(s) = 1..(Len(s) - 1) /\ \A i \in 1..(Len(s) - 1) : Tail(s)[i] = s[i + 1]
      BY <1>1, <3>1
    <3>3. ASSUME NEW i \in DOMAIN Tail(s) PROVE Tail(s)[i] \in ToSet(s)
      <4>1. i + 1 \in DOMAIN s /\ Tail(s)[i] = s[i + 1]
        BY <3>1, <3>2
      <4> QED BY <4>1, Zenon DEF ToSet
    <3>4. ASSUME NEW i \in DOMAIN s PROVE s[i] \in ToSet(Tail(s)) \cup {n}
      <4>1. CASE i = 1
        BY <4>1
      <4>2. CASE i # 1
        <5>1. i - 1 \in DOMAIN Tail(s) /\ Tail(s)[i - 1] = s[i]
          BY <3>1, <3>2, <4>2
        <5> QED BY <5>1 DEF ToSet
      <4> QED BY <4>1, <4>2
    <3>5. ToSet(Tail(s)) \subseteq ToSet(s) /\ ToSet(s) \subseteq ToSet(Tail(s)) \cup {n}
      BY <3>3, <3>4 DEF ToSet
    <3> QED BY <2>2, <3>2, <3>5
  <2> QED BY <2>1, <2>2
<1>9. WalkType'
  BY <1>2, <1>7, <1>8 DEF WalkInv, WalkType
<1>10. WalkReaches /\ h \in Nat
  BY <1>1, HopsAssumption DEF WalkInv, WalkType
<1>11. out => NodesOut(n) \subseteq walk.visited \cup found
  OBVIOUS
<1>12. ~out => NodesIn(n) \subseteq walk.visited \cup found
  OBVIOUS
<1> HIDE DEF rest, more
<1>13. /\ walk'.from = walk.from /\ walk'.left = walk.left /\ walk'.frontier = rest /\ walk'.next = more
       /\ walk'.visited = walk.visited \cup found /\ walk'.turn = (IF out THEN "in" ELSE "out") /\ walk'.still = walk.still
  BY <1>2
<1>14. out => rest = walk.frontier
  BY DEF rest
<1> HIDE DEF found, all
<1>15. WalkReaches'
  <2>1. /\ walk.from \in Iris /\ triples \subseteq during /\ during \subseteq GraphEdges
        /\ ToSet(walk.frontier) \subseteq Ball(during, walk.from, h)
        /\ ToSet(walk.next) \subseteq Ball(during, walk.from, h + 1)
        /\ walk.visited \subseteq Ball(during, walk.from, h) \cup ToSet(walk.next)
        /\ ToSet(walk.frontier) \cup ToSet(walk.next) \subseteq walk.visited
    BY <1>10 DEF WalkReaches
  <2>2. Ball(during, walk.from, h + 1) = Near(during, Ball(during, walk.from, h))
    <3> HIDE DEF h
    <3>1. during \in SUBSET GraphEdges
      BY <2>1
    <3> QED BY <1>10, <2>1, <3>1, BallIs
  <2> HIDE DEF h
  <2>3. Near(triples, {n}) \subseteq Ball(during, walk.from, h + 1)
    BY <1>6, <2>1, <2>2 DEF Near
  <2>4. found \subseteq Ball(during, walk.from, h + 1)
    BY <1>5, <2>3 DEF found
  <2>5. Hops - walk'.left = h
    BY <1>13 DEF h
  <2>6. walk'.left # 0
    BY <1>1, <1>13 DEF WalkInv, WalkType
  <2>7. walk'.frontier = <<>> => walk'.turn = "out"
    BY <1>1, <1>13, <1>14
  <2>8. /\ walk'.from \in Iris /\ triples' \subseteq during' /\ during' \subseteq GraphEdges
        /\ ToSet(walk'.frontier) \subseteq Ball(during', walk'.from, h)
        /\ ToSet(walk'.next) \subseteq Ball(during', walk'.from, h + 1)
        /\ walk'.visited \subseteq Ball(during', walk'.from, h) \cup ToSet(walk'.next)
        /\ ToSet(walk'.frontier) \cup ToSet(walk'.next) \subseteq walk'.visited
    BY <1>1, <1>7, <1>8, <1>13, <2>1, <2>4
  <2> QED BY <2>5, <2>6, <2>7, <2>8 DEF WalkReaches
<1>16. ASSUME Calm' PROVE WalkCovers'
  <2>1. Calm /\ WalkCovers
    BY <1>1, <1>13, <1>16 DEF Calm, WalkInv
  <2> DEFINE ball == Ball(triples, walk.from, h)
  <2>2. /\ ball \subseteq walk.visited /\ ToSet(walk.next) \cap ball = {}
        /\ \A v \in walk.visited \ (ToSet(walk.frontier) \cup ToSet(walk.next)) : Near(triples, {v}) \subseteq walk.visited
        /\ ~out => NodesAfter(n) \subseteq walk.visited
        /\ \A c \in GraphCallers : calls[c] = NoCall
    BY <2>1 DEF WalkCovers, WalkInv, WalkType
  <2>3. Ball(triples', walk'.from, Hops - walk'.left) = ball
    BY <1>1, <1>13
  <2> HIDE DEF ball
  <2>4. found \cap ball = {}
    BY <2>2 DEF found
  <2>5. NodesAfter(n) \subseteq NodesOut(n) /\ NodesBefore(n) \subseteq NodesIn(n)
    BY <2>1, <2>2, IndexesLead
  <2>6. ~out => Near(triples, {n}) \subseteq walk.visited \cup found
    <3>1. Near(triples, {n}) = {n} \cup NodesAfter(n) \cup NodesBefore(n)
      BY DEF Near, NodesAfter, NodesBefore
    <3>2. n \in walk.visited
      BY <1>6, <1>10 DEF WalkReaches
    <3> QED BY <1>12, <2>2, <2>5, <3>1, <3>2
  <2>7. ASSUME NEW v \in (walk.visited \cup found) \ (ToSet(rest) \cup ToSet(more))
        PROVE  Near(triples, {v}) \subseteq walk.visited \cup found
    <3>1. v \in walk.visited /\ v \notin ToSet(walk.next)
      BY <1>7
    <3>2. CASE v \notin ToSet(walk.frontier)
      BY <2>2, <3>1, <3>2
    <3>3. CASE v \in ToSet(walk.frontier)
      <4>1. v = n /\ ~out
        BY <1>8, <1>14, <3>3
      <4> QED BY <2>6, <4>1
    <3> QED BY <3>2, <3>3
  <2>8. walk'.turn = "in" => NodesAfter(walk'.frontier[1]) \subseteq walk'.visited
    BY <1>11, <1>13, <1>14, <2>5
  <2>9. NodesAfter(walk.frontier[1])' = NodesAfter(walk'.frontier[1])
    BY <1>1 DEF NodesAfter
  <2>10. /\ ball \subseteq walk'.visited /\ ToSet(walk'.next) \cap ball = {}
         /\ \A v \in walk'.visited \ (ToSet(walk'.frontier) \cup ToSet(walk'.next)) : Near(triples', {v}) \subseteq walk'.visited
    BY <1>1, <1>7, <1>13, <2>2, <2>4, <2>7
  <2> QED BY <1>1, <2>2, <2>3, <2>8, <2>9, <2>10 DEF WalkCovers
<1> QED BY <1>1, <1>9, <1>15, <1>16 DEF WalkInv

LEMMA WalkInvNext == ASSUME GraphInv, WalkInv, GraphNext PROVE WalkInv'
<1>0. GraphInv'
  BY GraphInvNext
<1>1. ASSUME NEW c \in GraphCallers, NEW op \in {"insert", "delete"}, NEW e \in GraphEdges, Start(c, op, e) PROVE WalkInv'
  <2>1. walk' = [walk EXCEPT !.still = @ /\ ~walk.active] /\ UNCHANGED <<triples, during>>
    BY <1>1 DEF Start
  <2>2. walk' = [active |-> walk.active, from |-> walk.from, left |-> walk.left, frontier |-> walk.frontier,
                 next |-> walk.next, visited |-> walk.visited, turn |-> walk.turn, still |-> walk.still /\ ~walk.active]
    BY <2>1 DEF WalkInv, WalkType
  <2>3. /\ walk'.active = walk.active /\ walk'.from = walk.from /\ walk'.left = walk.left /\ walk'.frontier = walk.frontier
        /\ walk'.next = walk.next /\ walk'.visited = walk.visited /\ walk'.turn = walk.turn
        /\ walk'.still = (walk.still /\ ~walk.active)
    BY <2>2
  <2>4. WalkType'
    BY <2>2 DEF WalkInv, WalkType
  <2>5. walk'.active => WalkReaches' /\ ~Calm'
    BY <2>1, <2>3 DEF WalkInv, WalkReaches, Calm
  <2> QED BY <2>1, <2>4, <2>5 DEF WalkInv
<1>2. ASSUME NEW c \in GraphCallers, SubjectStep(c) \/ ObjectStep(c) PROVE WalkInv'
  <2>1. calls[c] # NoCall /\ UNCHANGED <<walk, backend, contested, triples, during>>
    BY <1>2 DEF SubjectStep, ObjectStep, NoCall
  <2> QED BY <1>0, <2>1, WalkWrite DEF WalkInv
<1>3. ASSUME NEW c \in GraphCallers, EdgesStep(c) \/ CommitTables(c) PROVE WalkInv'
  <2>1. /\ calls[c] # NoCall /\ UNCHANGED <<walk, backend, contested>>
        /\ triples' = Put(calls[c].op, triples, calls[c].edge)
        /\ during' = IF walk.active THEN during \cup triples' ELSE during
    BY <1>3 DEF EdgesStep, CommitTables, NoCall, Written
  <2>2. IsFiniteSet(triples')
    <3>1. IsFiniteSet(triples \cup {calls[c].edge}) /\ IsFiniteSet(triples \ {calls[c].edge})
      BY FS_AddElement, FS_RemoveElement DEF WalkInv
    <3> QED BY <2>1, <3>1 DEF Put
  <2> QED BY <1>0, <2>1, <2>2, WalkWrite
<1>4. ASSUME WalkReturns PROVE WalkInv'
  <2>1. walk' = NoWalk /\ UNCHANGED triples
    BY <1>4 DEF WalkReturns
  <2>2. <<>> \in Seq(Iris)
    BY EmptySeq
  <2> QED BY <2>1, <2>2, HopsAssumption DEF WalkInv, WalkType, NoWalk
<1> QED BY <1>1, <1>2, <1>3, <1>4, WalkBegins, WalkNextNode, WalkNextHop DEF GraphNext

-----------------------------------------------------------------------------
(* Keys in order                                                           *)

(* a comes before b by what they have at i.                                *)
Splits(a, b, i) ==
    /\ \A j \in 1..(i - 1) : j <= Len(a) /\ j <= Len(b) /\ a[j] = b[j]
    /\ i <= Len(b)
    /\ i = Len(a) + 1 \/ (i <= Len(a) /\ a[i] < b[i])

LEMMA IsPrefixIs ==
    ASSUME NEW a \in Seq(Nat), NEW b \in Seq(Nat)
    PROVE  IsPrefix(a, b) <=> Len(a) <= Len(b) /\ \A j \in 1..Len(a) : a[j] = b[j]
<1>0. Len(a) \in Nat /\ Len(b) \in Nat
  BY LenProperties
<1>1. ASSUME Len(a) <= Len(b)
      PROVE  SubSeq(a, 1, Len(a)) = SubSeq(b, 1, Len(a)) <=> \A j \in 1..Len(a) : a[j] = b[j]
  <2> DEFINE s == SubSeq(a, 1, Len(a))
             t == SubSeq(b, 1, Len(a))
  <2>1. /\ 1 \in 1..(Len(a) + 1) /\ Len(a) \in (1 - 1)..Len(a)
        /\ 1 \in 1..(Len(b) + 1) /\ Len(a) \in (1 - 1)..Len(b) /\ Len(a) - 1 + 1 = Len(a)
    BY <1>0, <1>1
  <2>2. s \in Seq(Nat) /\ Len(s) = Len(a) - 1 + 1 /\ \A i \in 1..(Len(a) - 1 + 1) : s[i] = a[1 + i - 1]
    BY <2>1, SubSeqIs
  <2>3. t \in Seq(Nat) /\ Len(t) = Len(a) - 1 + 1 /\ \A i \in 1..(Len(a) - 1 + 1) : t[i] = b[1 + i - 1]
    BY <2>1, SubSeqIs
  <2>4. \A i \in 1..Len(a) : 1 + i - 1 = i
    BY <1>0
  <2> HIDE DEF s, t
  <2>5. Len(s) = Len(a) /\ Len(t) = Len(a) /\ \A i \in 1..Len(a) : s[i] = a[i] /\ t[i] = b[i]
    BY <2>1, <2>2, <2>3, <2>4
  <2>6. s = t <=> \A j \in 1..Len(a) : s[j] = t[j]
    BY <2>2, <2>3, <2>5, SeqEqual
  <2>7. s = t <=> \A j \in 1..Len(a) : a[j] = b[j]
    BY <2>5, <2>6
  <2> QED BY <2>7 DEF s, t
<1> QED BY <1>1 DEF IsPrefix

LEMMA JustAfter ==
    ASSUME NEW n \in Nat, NEW m \in Nat
    PROVE  /\ n + 1 \in Nat \ {0} /\ (n + 1) - 1 = n /\ n < n + 1
           /\ n <= m /\ n # m <=> n + 1 <= m
OBVIOUS

LEMMA KeyBeforeIs ==
    ASSUME NEW a \in Seq(Nat), NEW b \in Seq(Nat)
    PROVE  KeyBefore(a, b) <=> \E i \in Nat \ {0} : Splits(a, b, i)
<1>0. Len(a) \in Nat /\ Len(b) \in Nat /\ DOMAIN a = 1..Len(a) /\ DOMAIN b = 1..Len(b)
  BY LenProperties
<1>1. ASSUME IsStrictPrefix(a, b) PROVE \E i \in Nat \ {0} : Splits(a, b, i)
  <2>1. Len(a) <= Len(b) /\ (\A j \in 1..Len(a) : a[j] = b[j]) /\ a # b
    BY <1>1, IsPrefixIs DEF IsStrictPrefix
  <2>2. Len(a) # Len(b)
    BY <2>1, SeqEqual
  <2> DEFINE i == Len(a) + 1
  <2>3. i \in Nat \ {0} /\ i - 1 = Len(a) /\ i = Len(a) + 1 /\ i <= Len(b)
    BY <1>0, <2>1, <2>2, JustAfter, Zenon
  <2> HIDE DEF i
  <2>4. \A j \in 1..(i - 1) : j <= Len(a) /\ j <= Len(b) /\ a[j] = b[j]
    BY <1>0, <2>1, <2>3
  <2> QED BY <2>3, <2>4 DEF Splits
<1>2. ASSUME NEW i \in DOMAIN a \cap DOMAIN b, a[i] < b[i], \A j \in 1 .. i - 1 : a[j] = b[j]
      PROVE  \E k \in Nat \ {0} : Splits(a, b, k)
  <2>1. i \in Nat \ {0} /\ i <= Len(a) /\ i <= Len(b) /\ \A j \in 1..(i - 1) : j <= Len(a) /\ j <= Len(b) /\ a[j] = b[j]
    BY <1>0, <1>2
  <2>2. Splits(a, b, i)
    BY <1>2, <2>1 DEF Splits
  <2> QED BY <2>1, <2>2
<1>3. ASSUME NEW i \in Nat \ {0}, Splits(a, b, i) PROVE KeyBefore(a, b)
  <2>1. CASE i = Len(a) + 1
    <3>1. Len(a) <= Len(b) /\ Len(a) # Len(b) /\ \A j \in 1..Len(a) : a[j] = b[j]
      <4>1. /\ i <= Len(b) /\ \A j \in 1..(i - 1) : a[j] = b[j]
        BY <1>3 DEF Splits
      <4>2. i - 1 = Len(a) /\ Len(a) < i
        BY <1>0, <2>1, JustAfter, Zenon
      <4>3. Len(a) <= Len(b) /\ Len(a) # Len(b)
        BY <1>0, <2>1, <4>1, JustAfter, Zenon
      <4> QED BY <4>1, <4>2, <4>3, Zenon
    <3>2. IsPrefix(a, b) /\ a # b
      BY <3>1, IsPrefixIs
    <3> QED BY <3>2 DEF KeyBefore, IsStrictPrefix
  <2>2. CASE i # Len(a) + 1
    <3>1. i \in DOMAIN a \cap DOMAIN b /\ a[i] < b[i] /\ \A j \in 1 .. i - 1 : a[j] = b[j]
      BY <1>0, <1>3, <2>2 DEF Splits
    <3> QED BY <3>1 DEF KeyBefore
  <2> QED BY <2>1, <2>2
<1> QED BY <1>1, <1>2, <1>3 DEF KeyBefore

(* The order of keys is irreflexive, transitive and total.                 *)
LEMMA KeyOrderStrict ==
    ASSUME NEW a \in Seq(Nat)
    PROVE  ~KeyBefore(a, a)
<1>0. Len(a) \in Nat /\ \A i \in 1..Len(a) : a[i] \in Nat
  BY LenProperties, ElementOfSeq
<1>1. ASSUME NEW i \in Nat \ {0}, Splits(a, a, i) PROVE FALSE
  <2>1. i <= Len(a) /\ a[i] < a[i] /\ i \in 1..Len(a)
    BY <1>0, <1>1 DEF Splits
  <2>2. a[i] \in Nat
    BY <1>0, <2>1
  <2> QED BY <2>1, <2>2
<1> QED BY <1>1, KeyBeforeIs

LEMMA KeyOrderTransitive ==
    ASSUME NEW a \in Seq(Nat), NEW b \in Seq(Nat), NEW c \in Seq(Nat), KeyBefore(a, b), KeyBefore(b, c)
    PROVE  KeyBefore(a, c)
<1>0. /\ Len(a) \in Nat /\ Len(b) \in Nat /\ Len(c) \in Nat
      /\ \A i \in 1..Len(a) : a[i] \in Nat
      /\ \A i \in 1..Len(b) : b[i] \in Nat
      /\ \A i \in 1..Len(c) : c[i] \in Nat
  BY LenProperties, ElementOfSeq
<1>1. PICK i \in Nat \ {0} : Splits(a, b, i)
  BY KeyBeforeIs
<1>2. PICK j \in Nat \ {0} : Splits(b, c, j)
  BY KeyBeforeIs
<1>3. CASE i < j
  <2>1. \A m \in 1..(i - 1) : m <= Len(a) /\ m <= Len(c) /\ a[m] = c[m]
    <3> SUFFICES ASSUME NEW m \in 1..(i - 1) PROVE m <= Len(a) /\ m <= Len(c) /\ a[m] = c[m]
      OBVIOUS
    <3>1. m \in 1..(j - 1)
      BY <1>3
    <3> QED BY <1>1, <1>2, <3>1 DEF Splits
  <2>2. i <= Len(c) /\ b[i] = c[i]
    BY <1>0, <1>1, <1>2, <1>3 DEF Splits
  <2>3. Splits(a, c, i)
    BY <1>1, <2>1, <2>2 DEF Splits
  <2> QED BY <2>3, KeyBeforeIs
<1>4. CASE i = j
  <2>1. \A m \in 1..(i - 1) : m <= Len(a) /\ m <= Len(c) /\ a[m] = c[m]
    BY <1>0, <1>1, <1>2, <1>4 DEF Splits
  <2>2. i <= Len(c) /\ i <= Len(b) /\ b[i] < c[i]
    BY <1>0, <1>1, <1>2, <1>4 DEF Splits
  <2>3. i <= Len(a) => a[i] < c[i]
    <3> SUFFICES ASSUME i <= Len(a) PROVE a[i] < c[i]
      OBVIOUS
    <3>1. i \in 1..Len(a) /\ i \in 1..Len(b) /\ i \in 1..Len(c) /\ a[i] < b[i]
      BY <1>0, <1>1, <2>2 DEF Splits
    <3>2. a[i] \in Nat /\ b[i] \in Nat /\ c[i] \in Nat
      BY <1>0, <3>1
    <3> QED BY <2>2, <3>1, <3>2
  <2>4. Splits(a, c, i)
    BY <1>1, <2>1, <2>2, <2>3 DEF Splits
  <2> QED BY <2>4, KeyBeforeIs
<1>5. CASE j < i
  <2>1. \A m \in 1..(j - 1) : m <= Len(a) /\ m <= Len(c) /\ a[m] = c[m]
    <3> SUFFICES ASSUME NEW m \in 1..(j - 1) PROVE m <= Len(a) /\ m <= Len(c) /\ a[m] = c[m]
      OBVIOUS
    <3>1. m \in 1..(i - 1)
      BY <1>5
    <3> QED BY <1>1, <1>2, <3>1 DEF Splits
  <2>2. j <= Len(a) /\ j <= Len(c) /\ a[j] = b[j] /\ b[j] < c[j]
    BY <1>0, <1>1, <1>2, <1>5 DEF Splits
  <2>3. Splits(a, c, j)
    BY <2>1, <2>2 DEF Splits
  <2> QED BY <2>3, KeyBeforeIs
<1> QED BY <1>3, <1>4, <1>5

LEMMA KeyOrderTotal ==
    ASSUME NEW a \in Seq(Nat), NEW b \in Seq(Nat), a # b
    PROVE  KeyBefore(a, b) \/ KeyBefore(b, a)
<1>0. /\ Len(a) \in Nat /\ Len(b) \in Nat
      /\ \A i \in 1..Len(a) : a[i] \in Nat
      /\ \A i \in 1..Len(b) : b[i] \in Nat
  BY LenProperties, ElementOfSeq
<1> DEFINE T == {i \in Nat \ {0} : i > Len(a) \/ i > Len(b) \/ a[i] # b[i]}
<1>1. PICK i \in T : \A y \in T : i <= y
  <2>1. Len(a) + 1 \in T
    BY <1>0
  <2>2. T \in SUBSET Nat /\ T # {}
    BY <2>1
  <2> HIDE DEF T
  <2> QED BY <2>2, LeastOf
<1>2. i \in Nat \ {0} /\ (i > Len(a) \/ i > Len(b) \/ a[i] # b[i])
  BY <1>1
<1>3. \A j \in 1..(i - 1) : j <= Len(a) /\ j <= Len(b) /\ a[j] = b[j]
  <2> SUFFICES ASSUME NEW j \in 1..(i - 1) PROVE j <= Len(a) /\ j <= Len(b) /\ a[j] = b[j]
    OBVIOUS
  <2>1. j \in Nat \ {0} /\ ~(i <= j)
    BY <1>2
  <2>2. j \notin T
    BY <1>1, <2>1
  <2> QED BY <1>0, <2>1, <2>2
<1>4. CASE i > Len(a) /\ i > Len(b)
  <2>1. Len(a) = i - 1 /\ Len(b) = i - 1
    <3>1. i - 1 = 0 \/ i - 1 \in 1..(i - 1)
      BY <1>2
    <3> QED BY <1>0, <1>2, <1>3, <1>4, <3>1
  <2> QED BY <1>3, <2>1, SeqEqual
<1>5. CASE i > Len(a) /\ i <= Len(b)
  <2>1. i = Len(a) + 1
    <3>1. i - 1 = 0 \/ i - 1 \in 1..(i - 1)
      BY <1>2
    <3> QED BY <1>0, <1>2, <1>3, <1>5, <3>1
  <2>2. Splits(a, b, i)
    BY <1>3, <1>5, <2>1 DEF Splits
  <2> QED BY <1>2, <2>2, KeyBeforeIs
<1>6. CASE i <= Len(a) /\ i > Len(b)
  <2>1. i = Len(b) + 1
    <3>1. i - 1 = 0 \/ i - 1 \in 1..(i - 1)
      BY <1>2
    <3> QED BY <1>0, <1>2, <1>3, <1>6, <3>1
  <2>2. Splits(b, a, i)
    BY <1>3, <1>6, <2>1 DEF Splits
  <2> QED BY <1>2, <2>2, KeyBeforeIs
<1>7. CASE i <= Len(a) /\ i <= Len(b)
  <2>1. a[i] \in Nat /\ b[i] \in Nat /\ a[i] # b[i]
    BY <1>0, <1>2, <1>7
  <2>2. CASE a[i] < b[i]
    <3>1. Splits(a, b, i)
      BY <1>3, <1>7, <2>2 DEF Splits
    <3> QED BY <1>2, <3>1, KeyBeforeIs
  <2>3. CASE b[i] < a[i]
    <3>1. Splits(b, a, i)
      BY <1>3, <1>7, <2>3 DEF Splits
    <3> QED BY <1>2, <3>1, KeyBeforeIs
  <2> QED BY <2>1, <2>2, <2>3
<1> QED BY <1>0, <1>2, <1>4, <1>5, <1>6, <1>7

(* A sequence and what follows it.                                         *)
LEMMA ConcatIs ==
    ASSUME NEW p \in Seq(Nat), NEW x \in Seq(Nat)
    PROVE  /\ p \o x \in Seq(Nat) /\ Len(p \o x) = Len(p) + Len(x)
           /\ \A i \in 1..Len(p) : (p \o x)[i] = p[i]
           /\ \A i \in 1..Len(x) : (p \o x)[Len(p) + i] = x[i]
<1>0. Len(p) \in Nat /\ Len(x) \in Nat
  BY LenProperties
<1>1. /\ p \o x \in Seq(Nat) /\ Len(p \o x) = Len(p) + Len(x)
      /\ \A i \in 1..(Len(p) + Len(x)) : (p \o x)[i] = IF i <= Len(p) THEN p[i] ELSE x[i - Len(p)]
  BY ConcatProperties
<1> DEFINE n == Len(p)
           m == Len(x)
           s == p \o x
<1>2. n \in Nat /\ m \in Nat /\ \A i \in 1..(n + m) : s[i] = IF i <= n THEN p[i] ELSE x[i - n]
  BY <1>0, <1>1
<1> HIDE DEF n, m, s
<1>3. \A i \in 1..n : i \in 1..(n + m) /\ i <= n
  BY <1>2
<1>4. \A i \in 1..m : n + i \in 1..(n + m) /\ ~(n + i <= n) /\ (n + i) - n = i
  BY <1>2
<1>5. (\A i \in 1..n : s[i] = p[i]) /\ \A i \in 1..m : s[n + i] = x[i]
  BY <1>2, <1>3, <1>4, Zenon
<1> QED BY <1>1, <1>5 DEF n, m, s

(* What a common beginning does to two keys: nothing.                      *)
LEMMA ConcatPrefix ==
    ASSUME NEW p \in Seq(Nat), NEW x \in Seq(Nat), NEW y \in Seq(Nat)
    PROVE  IsPrefix(p \o x, p \o y) <=> IsPrefix(x, y)
<1> DEFINE n == Len(p)
           a == p \o x
           b == p \o y
<1>1. /\ a \in Seq(Nat) /\ b \in Seq(Nat) /\ Len(a) = n + Len(x) /\ Len(b) = n + Len(y)
      /\ \A i \in 1..n : a[i] = p[i] /\ b[i] = p[i]
      /\ \A i \in 1..Len(x) : a[n + i] = x[i]
      /\ \A i \in 1..Len(y) : b[n + i] = y[i]
  BY ConcatIs
<1>2. n \in Nat /\ Len(x) \in Nat /\ Len(y) \in Nat
  BY LenProperties
<1> HIDE DEF n, a, b
<1>3. Len(a) <= Len(b) <=> Len(x) <= Len(y)
  BY <1>1, <1>2
<1>4. ASSUME Len(x) <= Len(y)
      PROVE  (\A j \in 1..Len(a) : a[j] = b[j]) <=> \A j \in 1..Len(x) : x[j] = y[j]
  <2>1. \A j \in 1..Len(x) : n + j \in 1..Len(a) /\ j \in 1..Len(y)
    BY <1>1, <1>2, <1>4
  <2>2. \A j \in 1..Len(a) : j \in 1..n \/ \E i \in 1..Len(x) : j = n + i
    <3> SUFFICES ASSUME NEW j \in 1..Len(a), j \notin 1..n PROVE \E i \in 1..Len(x) : j = n + i
      OBVIOUS
    <3>1. j - n \in 1..Len(x) /\ j = n + (j - n)
      BY <1>1, <1>2
    <3> QED BY <3>1, Zenon
  <2>3. ASSUME \A j \in 1..Len(a) : a[j] = b[j], NEW j \in 1..Len(x) PROVE x[j] = y[j]
    <3>1. a[n + j] = x[j] /\ b[n + j] = y[j] /\ a[n + j] = b[n + j]
      BY <1>1, <2>1, <2>3, Zenon
    <3> QED BY <3>1
  <2>4. ASSUME \A j \in 1..Len(x) : x[j] = y[j], NEW j \in 1..Len(a) PROVE a[j] = b[j]
    <3>1. CASE j \in 1..n
      BY <1>1, <3>1
    <3>2. ASSUME NEW i \in 1..Len(x), j = n + i PROVE a[j] = b[j]
      <4>1. a[n + i] = x[i] /\ b[n + i] = y[i] /\ x[i] = y[i]
        BY <1>1, <2>1, <2>4, Zenon
      <4> QED BY <3>2, <4>1, Zenon
    <3> QED BY <2>2, <3>1, <3>2
  <2> QED BY <2>3, <2>4
<1>5. IsPrefix(a, b) <=> Len(a) <= Len(b) /\ \A j \in 1..Len(a) : a[j] = b[j]
  BY <1>1, IsPrefixIs
<1>6. IsPrefix(x, y) <=> Len(x) <= Len(y) /\ \A j \in 1..Len(x) : x[j] = y[j]
  BY IsPrefixIs
<1>7. IsPrefix(a, b) <=> IsPrefix(x, y)
  BY <1>3, <1>4, <1>5, <1>6
<1> QED BY <1>7 DEF a, b

LEMMA ConcatOrder ==
    ASSUME NEW p \in Seq(Nat), NEW x \in Seq(Nat), NEW y \in Seq(Nat), KeyBefore(x, y)
    PROVE  KeyBefore(p \o x, p \o y)
<1> DEFINE n == Len(p)
           a == p \o x
           b == p \o y
<1>1. /\ a \in Seq(Nat) /\ b \in Seq(Nat) /\ Len(a) = n + Len(x) /\ Len(b) = n + Len(y)
      /\ \A i \in 1..n : a[i] = p[i] /\ b[i] = p[i]
      /\ \A i \in 1..Len(x) : a[n + i] = x[i]
      /\ \A i \in 1..Len(y) : b[n + i] = y[i]
  BY ConcatIs
<1>2. n \in Nat /\ Len(x) \in Nat /\ Len(y) \in Nat
  BY LenProperties
<1> HIDE DEF n, a, b
<1>3. PICK i \in Nat \ {0} : Splits(x, y, i)
  BY KeyBeforeIs
<1>4. n + i \in Nat \ {0} /\ n + i <= Len(b)
  BY <1>1, <1>2, <1>3 DEF Splits
<1>5. ASSUME NEW j \in 1..((n + i) - 1) PROVE j <= Len(a) /\ j <= Len(b) /\ a[j] = b[j]
  <2>1. CASE j <= n
    <3>1. j \in 1..n /\ j <= Len(a) /\ j <= Len(b)
      BY <1>1, <1>2, <1>3, <2>1
    <3> QED BY <1>1, <3>1
  <2>2. CASE n < j
    <3> DEFINE m == j - n
    <3>1. m \in 1..(i - 1) /\ j = n + m /\ m \in Nat
      BY <1>2, <1>3, <2>2
    <3> HIDE DEF m
    <3>2. m <= Len(x) /\ m <= Len(y) /\ x[m] = y[m]
      BY <1>3, <3>1 DEF Splits
    <3>3. m \in 1..Len(x) /\ m \in 1..Len(y) /\ j <= Len(a) /\ j <= Len(b)
      BY <1>1, <1>2, <3>1, <3>2
    <3>4. a[n + m] = x[m] /\ b[n + m] = y[m]
      BY <1>1, <3>3, Zenon
    <3> QED BY <3>1, <3>2, <3>3, <3>4, Zenon
  <2> QED BY <1>2, <2>1, <2>2
<1>6. n + i = Len(a) + 1 \/ (n + i <= Len(a) /\ a[n + i] < b[n + i])
  <2>1. CASE i <= Len(x) /\ x[i] < y[i]
    <3>1. i \in 1..Len(x) /\ i \in 1..Len(y) /\ n + i <= Len(a)
      BY <1>1, <1>2, <1>3, <2>1 DEF Splits
    <3>2. a[n + i] = x[i] /\ b[n + i] = y[i]
      BY <1>1, <3>1, Zenon
    <3>3. a[n + i] < b[n + i]
      BY <2>1, <3>2, Zenon
    <3> QED BY <3>1, <3>3, Zenon
  <2>2. CASE i = Len(x) + 1
    BY <1>1, <1>2, <2>2
  <2> QED BY <1>3, <2>1, <2>2 DEF Splits
<1>7. Splits(a, b, n + i)
  <2> DEFINE k == n + i
  <2>1. \A j \in 1..(k - 1) : j <= Len(a) /\ j <= Len(b) /\ a[j] = b[j]
    BY <1>5, Zenon
  <2>2. k <= Len(b) /\ (k = Len(a) + 1 \/ (k <= Len(a) /\ a[k] < b[k]))
    BY <1>4, <1>6, Zenon
  <2> HIDE DEF k
  <2>3. Splits(a, b, k)
    BY <2>1, <2>2 DEF Splits
  <2> QED BY <2>3 DEF k
<1>8. KeyBefore(a, b)
  BY <1>1, <1>4, <1>7, KeyBeforeIs
<1> QED BY <1>8 DEF a, b

(* How many keys come before a key.                                        *)
Rank(K, k) == Cardinality({x \in K : KeyBefore(x, k)})

LEMMA RankIs ==
    ASSUME NEW K \in SUBSET Seq(Nat), IsFiniteSet(K)
    PROVE  /\ \A i \in 1..Cardinality(K) : \E k \in K : Rank(K, k) = i - 1
           /\ \A k, l \in K : Rank(K, k) = Rank(K, l) => k = l
<1> DEFINE n == Cardinality(K)
           Below(k) == {x \in K : KeyBefore(x, k)}
           f == [k \in K |-> Rank(K, k)]
<1>0. n \in Nat
  BY FS_CardinalityType
<1>1. ASSUME NEW k \in K PROVE Below(k) \in SUBSET (K \ {k}) /\ IsFiniteSet(Below(k)) /\ Rank(K, k) \in 0..(n - 1)
  <2>1. Below(k) \in SUBSET (K \ {k})
    BY KeyOrderStrict
  <2>2. IsFiniteSet(K \ {k}) /\ Cardinality(K \ {k}) = n - 1
    BY FS_RemoveElement
  <2>3. IsFiniteSet(Below(k)) /\ Cardinality(Below(k)) <= Cardinality(K \ {k})
    BY <2>1, <2>2, FS_Subset
  <2>4. Cardinality(Below(k)) \in Nat
    BY <2>3, FS_CardinalityType
  <2> QED BY <1>0, <2>1, <2>2, <2>3, <2>4 DEF Rank
<1>2. ASSUME NEW k \in K, NEW l \in K, KeyBefore(k, l) PROVE Rank(K, k) < Rank(K, l)
  <2>1. Below(k) \in SUBSET Below(l)
    BY <1>2, KeyOrderTransitive
  <2>2. k \in Below(l) /\ k \notin Below(k)
    BY <1>2, KeyOrderStrict
  <2>3. Below(k) # Below(l)
    BY <2>2
  <2>4. Cardinality(Below(k)) <= Cardinality(Below(l)) /\ Cardinality(Below(l)) # Cardinality(Below(k))
    BY <1>1, <2>1, <2>3, FS_Subset
  <2>5. Cardinality(Below(k)) \in Nat /\ Cardinality(Below(l)) \in Nat
    BY <1>1, FS_CardinalityType
  <2> QED BY <2>4, <2>5 DEF Rank
<1>3. ASSUME NEW k \in K, NEW l \in K, k # l PROVE Rank(K, k) # Rank(K, l)
  <2>1. KeyBefore(k, l) \/ KeyBefore(l, k)
    BY <1>3, KeyOrderTotal
  <2>2. Rank(K, k) < Rank(K, l) \/ Rank(K, l) < Rank(K, k)
    BY <1>2, <2>1
  <2>3. Rank(K, k) \in 0..(n - 1) /\ Rank(K, l) \in 0..(n - 1)
    BY <1>1, Zenon
  <2> HIDE DEF n
  <2> QED BY <1>0, <2>2, <2>3
<1>4. f \in Injection(K, 0..(n - 1))
  <2>1. f \in [K -> 0..(n - 1)]
    BY <1>1
  <2>2. \A k, l \in K : f[k] = f[l] => k = l
    BY <1>3
  <2> HIDE DEF f
  <2> QED BY <2>1, <2>2 DEF Injection, IsInjective
<1>5. IsFiniteSet(0..(n - 1)) /\ Cardinality(0..(n - 1)) = n
  <2>1. n - 1 \in Int /\ (IF 0 > n - 1 THEN 0 ELSE n - 1 - 0 + 1) = n
    BY <1>0
  <2> QED BY <2>1, FS_Interval
<1>6. f \in Surjection(K, 0..(n - 1))
  BY <1>4, <1>5, FS_Injection
<1>7. ASSUME NEW i \in 1..n PROVE \E k \in K : Rank(K, k) = i - 1
  <2>1. i - 1 \in 0..(n - 1)
    BY <1>0
  <2>2. PICK k \in K : f[k] = i - 1
    BY <1>6, <2>1 DEF Surjection
  <2> QED BY <2>2
<1> QED BY <1>3, <1>7

(* Sorting keys that were mapped in order is mapping the sorted keys.      *)
LEMMA SortedMap ==
    ASSUME NEW K \in SUBSET Seq(Nat), IsFiniteSet(K), NEW M \in SUBSET Seq(Nat), NEW f \in [K -> M],
           \A m \in M : \E k \in K : f[k] = m,
           \A k, l \in K : KeyBefore(k, l) => KeyBefore(f[k], f[l])
    PROVE  /\ Cardinality(M) = Cardinality(K) /\ Cardinality(K) \in Nat
           /\ \A i \in 1..Cardinality(K) : Sorted(K)[i] \in K /\ Sorted(M)[i] = f[Sorted(K)[i]]
<1>1. ASSUME NEW k \in K, NEW l \in K, k # l PROVE f[k] # f[l]
  <2>1. KeyBefore(k, l) \/ KeyBefore(l, k)
    BY <1>1, KeyOrderTotal
  <2>2. f[k] \in Seq(Nat) /\ f[l] \in Seq(Nat)
    OBVIOUS
  <2> QED BY <2>1, <2>2, KeyOrderStrict
<1>2. ASSUME NEW k \in K, NEW l \in K PROVE KeyBefore(f[k], f[l]) <=> KeyBefore(k, l)
  <2>1. f[k] \in Seq(Nat) /\ f[l] \in Seq(Nat)
    OBVIOUS
  <2>2. ASSUME KeyBefore(f[k], f[l]), ~KeyBefore(k, l) PROVE FALSE
    <3>1. k = l \/ KeyBefore(l, k)
      BY <2>2, KeyOrderTotal
    <3>2. KeyBefore(f[k], f[k])
      BY <2>1, <2>2, <3>1, KeyOrderTransitive
    <3> QED BY <2>1, <3>2, KeyOrderStrict
  <2> QED BY <2>2
<1>3. f \in Bijection(K, M)
  BY <1>1 DEF Bijection, Injection, Surjection, IsInjective
<1>4. IsFiniteSet(M) /\ Cardinality(M) = Cardinality(K)
  BY <1>3, FS_Bijection DEF ExistsBijection
<1>5. ASSUME NEW k \in K PROVE Rank(M, f[k]) = Rank(K, k)
  <2> DEFINE A == {x \in K : KeyBefore(x, k)}
             B == {y \in M : KeyBefore(y, f[k])}
             g == [x \in A |-> f[x]]
  <2>1. g \in [A -> B]
    BY <1>2
  <2>2. \A x, y \in A : g[x] = g[y] => x = y
    BY <1>1
  <2>3. \A y \in B : \E x \in A : g[x] = y
    <3> SUFFICES ASSUME NEW y \in B PROVE \E x \in A : g[x] = y
      OBVIOUS
    <3>1. PICK x \in K : f[x] = y
      OBVIOUS
    <3>2. x \in A
      BY <1>2, <3>1
    <3> QED BY <3>1, <3>2
  <2>4. IsFiniteSet(A)
    BY FS_Subset
  <2> HIDE DEF A, B, g
  <2>5. g \in Bijection(A, B)
    BY <2>1, <2>2, <2>3 DEF Bijection, Injection, Surjection, IsInjective
  <2>6. Cardinality(B) = Cardinality(A)
    BY <2>4, <2>5, FS_Bijection DEF ExistsBijection
  <2> QED BY <2>6 DEF Rank, A, B
<1>6. Cardinality(K) \in Nat
  BY FS_CardinalityType
<1>7. ASSUME NEW i \in 1..Cardinality(K) PROVE Sorted(K)[i] \in K /\ Sorted(M)[i] = f[Sorted(K)[i]]
  <2>1. Sorted(K)[i] = CHOOSE k \in K : Rank(K, k) = i - 1
    BY DEF Sorted, Rank
  <2>2. Sorted(M)[i] = CHOOSE k \in M : Rank(M, k) = i - 1
    BY <1>4 DEF Sorted, Rank
  <2>3. Sorted(K)[i] \in K /\ Rank(K, Sorted(K)[i]) = i - 1
    BY <2>1, RankIs
  <2>4. \E k \in M : Rank(M, k) = i - 1
    BY <1>4, RankIs
  <2>5. Sorted(M)[i] \in M /\ Rank(M, Sorted(M)[i]) = i - 1
    BY <2>2, <2>4
  <2>6. f[Sorted(K)[i]] \in M /\ Rank(M, f[Sorted(K)[i]]) = i - 1
    BY <1>5, <2>3
  <2>7. \A k, l \in M : Rank(M, k) = Rank(M, l) => k = l
    BY <1>4, RankIs
  <2> QED BY <2>3, <2>5, <2>6, <2>7, Zenon
<1> QED BY <1>4, <1>6, <1>7

-----------------------------------------------------------------------------
(* The key-value layer                                                     *)

IsEntry(k) ==
    /\ raw[k].bytes \in Nat /\ raw[k].owner \in Namespaces /\ raw[k].key \in LogicalKeys
    /\ k = PrefixedKey(raw[k].owner, raw[k].key)

(* The bytes of values of these sizes: a place and a position each.        *)
Bytes(w) == UNION {{k} \X (1 .. w[k]) : k \in DOMAIN w}

(* The bytes of finished writes that wait to be counted.                   *)
PendingBytes == Cardinality(Bytes([c \in Storers |-> counting[c].bytes]))

StorageType ==
    /\ raw = [k \in DOMAIN raw |-> raw[k]] /\ IsFiniteSet(DOMAIN raw)
    /\ \A k \in DOMAIN raw : IsEntry(k)
    /\ counting = [c \in Storers |-> [busy |-> counting[c].busy, bytes |-> counting[c].bytes]]
    /\ \A c \in Storers : counting[c].bytes \in Nat /\ (~counting[c].busy => counting[c].bytes = 0)
    /\ writtenBytes \in Nat /\ sizeAtReset \in Nat

StorageInv == StorageType /\ StoredBytes <= PendingBytes + writtenBytes + sizeAtReset

(* A key leads to its namespace.                                           *)
LEMMA NamespaceOf ==
    ASSUME NEW m \in Namespaces, NEW n \in Namespaces, NEW x \in Seq(Nat), NEW y \in Seq(Nat),
           IsPrefix(PrefixedKey(m, x), PrefixedKey(n, y))
    PROVE  m = n
<1> DEFINE a == m \o <<Separator>>
           b == n \o <<Separator>>
           s == PrefixedKey(m, x)
           t == PrefixedKey(n, y)
<1>1. a \in Seq(Nat) /\ b \in Seq(Nat)
  BY StorageAssumption DEF Separator
<1>2. s = a \o x /\ t = b \o y
  BY DEF PrefixedKey
<1> HIDE DEF a, b, s, t
<1>3. /\ s \in Seq(Nat) /\ Len(s) = Len(a) + Len(x) /\ \A i \in 1..Len(a) : s[i] = a[i]
      /\ t \in Seq(Nat) /\ Len(t) = Len(b) + Len(y) /\ \A i \in 1..Len(b) : t[i] = b[i]
  BY <1>1, <1>2, ConcatIs
<1>4. Len(a) \in Nat /\ Len(b) \in Nat /\ Len(x) \in Nat /\ Len(y) \in Nat
  BY <1>1, LenProperties
<1>5. \A i \in 1..Len(s) : s[i] = t[i]
  BY <1>3, IsPrefixIs DEF s, t
<1>6. \A i \in 1..Len(a) : i \in 1..Len(s)
  BY <1>3, <1>4
<1>7. \A i \in 1..Len(a) : i \in 1..Len(b) => a[i] = b[i]
  BY <1>3, <1>5, <1>6
<1>8. CASE Len(a) <= Len(b)
  <2>1. \A i \in 1..Len(a) : i \in 1..Len(b)
    BY <1>4, <1>8
  <2>2. IsPrefix(a, b)
    BY <1>1, <1>7, <1>8, <2>1, IsPrefixIs
  <2> QED BY <2>2, NamespaceAssumption DEF a, b
<1>9. CASE Len(b) <= Len(a)
  <2>1. \A i \in 1..Len(b) : i \in 1..Len(a)
    BY <1>4, <1>9
  <2>2. IsPrefix(b, a)
    BY <1>1, <1>7, <1>9, <2>1, IsPrefixIs
  <2> QED BY <2>2, NamespaceAssumption DEF a, b
<1> QED BY <1>4, <1>8, <1>9

(* Stripping the namespace of a key gives the key back.                    *)
LEMMA StripIs ==
    ASSUME NEW p \in Seq(Nat), NEW x \in Seq(Nat)
    PROVE  SubSeq(p \o x, Len(p) + 1, Len(p \o x)) = x
<1> DEFINE a == p \o x
           n == Len(p)
           m == Len(x)
           s == SubSeq(a, n + 1, Len(a))
<1>1. a \in Seq(Nat) /\ Len(a) = n + m /\ n \in Nat /\ m \in Nat /\ \A i \in 1..m : a[n + i] = x[i]
  BY ConcatIs, LenProperties
<1> HIDE DEF a, n, m
<1>2. n + 1 \in 1..(Len(a) + 1) /\ Len(a) \in ((n + 1) - 1)..Len(a) /\ Len(a) - (n + 1) + 1 = m
  BY <1>1
<1>3. /\ s \in Seq(Nat) /\ Len(s) = Len(a) - (n + 1) + 1
      /\ \A i \in 1..(Len(a) - (n + 1) + 1) : s[i] = a[(n + 1) + i - 1]
  BY <1>1, <1>2, SubSeqIs
<1>4. \A i \in 1..m : (n + 1) + i - 1 = n + i
  BY <1>1
<1> HIDE DEF s
<1>5. Len(s) = m /\ \A i \in 1..m : s[i] = x[i]
  BY <1>1, <1>2, <1>3, <1>4, Zenon
<1>6. s = x
  BY <1>3, <1>5, SeqEqual DEF m
<1> QED BY <1>6 DEF s, a, n

LEMMA SortedIsFunction ==
    ASSUME NEW K
    PROVE  Sorted(K) = [i \in 1..Cardinality(K) |-> Sorted(K)[i]]
<1> DEFINE h(i) == CHOOSE k \in K : Cardinality({x \in K : KeyBefore(x, k)}) = i - 1
<1>1. Sorted(K) = [i \in 1..Cardinality(K) |-> h(i)]
  BY DEF Sorted
<1> HIDE DEF h
<1> QED BY <1>1

(* What a scan finds is what was put through stores of its namespace.      *)
LEMMA ScanIs ==
    ASSUME StorageInv, NEW ns \in Namespaces, NEW prefix \in Seq(Nat), NEW limit \in 1..3
    PROVE  LET found == TypedScan(ns, prefix, limit)
               due == AtMost(Sorted({k \in OwnKeys(ns) : IsPrefix(prefix, k)}), limit)
           IN  [i \in DOMAIN found |-> found[i].key] = due /\ \A i \in DOMAIN found : found[i].value.owner = ns
<1> DEFINE K == {k \in OwnKeys(ns) : IsPrefix(prefix, k)}
           M == {k \in DOMAIN raw : IsPrefix(PrefixedKey(ns, prefix), k)}
           p == ns \o <<Separator>>
           f == [k \in K |-> p \o k]
           n == Cardinality(K)
           cut == IF limit < n THEN limit ELSE n
<1>0. p \in Seq(Nat) /\ (\A k : PrefixedKey(ns, k) = p \o k) /\ LogicalKeys \subseteq Seq(Nat) /\ Namespaces \subseteq Seq(Nat)
  BY StorageAssumption DEF PrefixedKey, Separator
<1> HIDE DEF p
<1>1. OwnKeys(ns) \subseteq LogicalKeys
  BY DEF OwnKeys, StorageInv, StorageType, IsEntry
<1>2. K \in SUBSET Seq(Nat) /\ IsFiniteSet(K)
  <2>1. K \in SUBSET LogicalKeys
    BY <1>1
  <2> QED BY <1>0, <2>1, FS_Subset, StorageAssumption
<1>3. ASSUME NEW x \in DOMAIN raw
      PROVE  x \in Seq(Nat) /\ raw[x].owner \in Namespaces /\ raw[x].key \in Seq(Nat) /\ x = PrefixedKey(raw[x].owner, raw[x].key)
  <2>1. raw[x].owner \in Namespaces /\ raw[x].key \in Seq(Nat) /\ x = PrefixedKey(raw[x].owner, raw[x].key)
    BY <1>0 DEF StorageInv, StorageType, IsEntry
  <2>2. PrefixedKey(raw[x].owner, raw[x].key) \in Seq(Nat)
    BY <1>0, <2>1 DEF PrefixedKey, Separator
  <2> QED BY <2>1, <2>2
<1>4. M \in SUBSET Seq(Nat)
  BY <1>3
<1>5. ASSUME NEW k \in K PROVE p \o k \in M
  <2>1. PICK x \in DOMAIN raw : raw[x].owner = ns /\ raw[x].key = k
    BY DEF OwnKeys
  <2>2. x = p \o k /\ IsPrefix(prefix, k)
    BY <1>0, <1>3, <2>1
  <2>3. IsPrefix(p \o prefix, p \o k)
    BY <1>0, <1>2, <2>2, ConcatPrefix
  <2> QED BY <1>0, <2>1, <2>2, <2>3
<1>6. ASSUME NEW m \in M PROVE raw[m].owner = ns /\ raw[m].key \in K /\ p \o raw[m].key = m
  <2>1. raw[m].owner \in Namespaces /\ raw[m].key \in Seq(Nat) /\ m = PrefixedKey(raw[m].owner, raw[m].key)
    BY <1>3
  <2>2. raw[m].owner = ns
    BY <2>1, NamespaceOf
  <2>3. IsPrefix(p \o prefix, p \o raw[m].key)
    BY <1>0, <2>1, <2>2
  <2>4. IsPrefix(prefix, raw[m].key)
    BY <1>0, <2>1, <2>3, ConcatPrefix
  <2>5. raw[m].key \in OwnKeys(ns)
    BY <2>2 DEF OwnKeys
  <2> QED BY <1>0, <2>1, <2>2, <2>4, <2>5
<1>7. /\ f \in [K -> M] /\ \A m \in M : \E k \in K : f[k] = m
      /\ \A k, l \in K : KeyBefore(k, l) => KeyBefore(f[k], f[l])
  <2>1. f \in [K -> M]
    BY <1>5
  <2>2. \A m \in M : \E k \in K : f[k] = m
    BY <1>6
  <2>3. \A k, l \in K : KeyBefore(k, l) => KeyBefore(f[k], f[l])
    BY <1>0, <1>2, ConcatOrder
  <2> QED BY <2>1, <2>2, <2>3
<1> HIDE DEF K, M, f
<1>8. /\ Cardinality(M) = n /\ n \in Nat
      /\ \A i \in 1..n : Sorted(K)[i] \in K /\ Sorted(M)[i] = f[Sorted(K)[i]]
  BY <1>2, <1>4, <1>7, SortedMap
<1>9. \A i \in 1..n : Sorted(M)[i] = p \o Sorted(K)[i] /\ Sorted(M)[i] \in M /\ Sorted(K)[i] \in Seq(Nat)
  BY <1>2, <1>5, <1>8 DEF f
<1>10. Sorted(K) \in Seq(Seq(Nat)) /\ Len(Sorted(K)) = n /\ Sorted(M) \in Seq(Seq(Nat)) /\ Len(Sorted(M)) = n
  <2>1. Sorted(K) = [i \in 1..n |-> Sorted(K)[i]] /\ Sorted(M) = [i \in 1..n |-> Sorted(M)[i]]
    BY <1>8, SortedIsFunction, Zenon
  <2>2. \A i \in 1..n : Sorted(K)[i] \in Seq(Nat) /\ Sorted(M)[i] \in Seq(Nat)
    BY <1>4, <1>9
  <2>3. Sorted(K) \in [1..n -> Seq(Nat)] /\ Sorted(M) \in [1..n -> Seq(Nat)]
    BY <2>1, <2>2
  <2> HIDE DEF n
  <2> QED BY <1>8, <2>3, FunctionIsSeq
<1>11. cut \in Nat /\ cut <= n
  BY <1>8
<1>12. /\ AtMost(Sorted(K), limit) \in Seq(Seq(Nat)) /\ Len(AtMost(Sorted(K), limit)) = cut
       /\ AtMost(Sorted(M), limit) \in Seq(Seq(Nat)) /\ Len(AtMost(Sorted(M), limit)) = cut
       /\ \A i \in 1..cut : AtMost(Sorted(K), limit)[i] = Sorted(K)[i] /\ AtMost(Sorted(M), limit)[i] = Sorted(M)[i]
  <2>1. AtMost(Sorted(K), limit) = SubSeq(Sorted(K), 1, cut) /\ AtMost(Sorted(M), limit) = SubSeq(Sorted(M), 1, cut)
    BY <1>10 DEF AtMost
  <2> HIDE DEF cut, n
  <2>2. 1 \in 1..(n + 1) /\ cut \in (1 - 1)..n /\ cut - 1 + 1 = cut /\ \A i \in 1..cut : 1 + i - 1 = i
    BY <1>8, <1>11
  <2>3. /\ SubSeq(Sorted(K), 1, cut) \in Seq(Seq(Nat)) /\ Len(SubSeq(Sorted(K), 1, cut)) = cut - 1 + 1
        /\ \A i \in 1..(cut - 1 + 1) : SubSeq(Sorted(K), 1, cut)[i] = Sorted(K)[1 + i - 1]
    BY <1>10, <2>2, SubSeqIs
  <2>4. /\ SubSeq(Sorted(M), 1, cut) \in Seq(Seq(Nat)) /\ Len(SubSeq(Sorted(M), 1, cut)) = cut - 1 + 1
        /\ \A i \in 1..(cut - 1 + 1) : SubSeq(Sorted(M), 1, cut)[i] = Sorted(M)[1 + i - 1]
    BY <1>10, <2>2, SubSeqIs
  <2> QED BY <2>1, <2>2, <2>3, <2>4, Zenon
<1>13. ScanKeys(PrefixedKey(ns, prefix), limit) = AtMost(Sorted(M), limit)
  <2>1. (IF engine = "redb" /\ limit = 0 THEN 1 ELSE limit) = limit
    OBVIOUS
  <2> QED BY <2>1, Zenon DEF ScanKeys, M
<1> DEFINE keys == AtMost(Sorted(M), limit)
           skip == Len(PrefixedKey(ns, <<>>))
           found == TypedScan(ns, prefix, limit)
           due == AtMost(Sorted(K), limit)
<1>14. skip = Len(p)
  BY <1>0, ConcatEmptySeq
<1>15. found = [i \in DOMAIN keys |-> [key |-> SubSeq(keys[i], Len(p) + 1, Len(keys[i])), value |-> raw[keys[i]]]]
  BY <1>13, <1>14, Zenon DEF TypedScan
<1>16. DOMAIN keys = 1..cut /\ DOMAIN due = 1..cut
  BY <1>12, LenProperties
<1> HIDE DEF keys, found, due, cut, n
<1>17. ASSUME NEW i \in 1..cut PROVE found[i].key = due[i] /\ found[i].value.owner = ns
  <2>1. i \in 1..n
    BY <1>8, <1>11
  <2>2. keys[i] = p \o Sorted(K)[i] /\ keys[i] \in M /\ due[i] = Sorted(K)[i] /\ Sorted(K)[i] \in Seq(Nat)
    BY <1>9, <1>12, <2>1 DEF keys, due
  <2>3. found[i].key = SubSeq(keys[i], Len(p) + 1, Len(keys[i])) /\ found[i].value = raw[keys[i]]
    BY <1>15, <1>16
  <2>4. SubSeq(keys[i], Len(p) + 1, Len(keys[i])) = Sorted(K)[i]
    BY <1>0, <2>2, StripIs
  <2> QED BY <1>6, <2>2, <2>3, <2>4
<1>18. DOMAIN found = 1..cut
  BY <1>15, <1>16
<1>19. due = [i \in 1..cut |-> due[i]]
  BY <1>12, <1>16 DEF due
<1>20. [i \in DOMAIN found |-> found[i].key] = due /\ \A i \in DOMAIN found : found[i].value.owner = ns
  BY <1>17, <1>18, <1>19
<1> QED BY <1>20 DEF found, due, K

LEMMA UpTo ==
    ASSUME NEW n \in Nat
    PROVE  IsFiniteSet(1..n) /\ Cardinality(1..n) = n
<1>1. 1 \in Int /\ n \in Int /\ (IF 1 > n THEN 0 ELSE n - 1 + 1) = n
  OBVIOUS
<1> QED BY <1>1, FS_Interval, Zenon

LEMMA BytesAre ==
    ASSUME NEW w, IsFiniteSet(DOMAIN w), \A k \in DOMAIN w : w[k] \in Nat
    PROVE  /\ IsFiniteSet(Bytes(w)) /\ Cardinality(Bytes(w)) \in Nat
           /\ \A x : x \in Bytes(w) <=> \E k \in DOMAIN w : \E i \in 1..w[k] : x = <<k, i>>
<1> DEFINE S == DOMAIN w
           f == [k \in S |-> {k} \X (1..w[k])]
<1>1. ASSUME NEW k \in S PROVE IsFiniteSet(f[k])
  <2>1. IsFiniteSet({k}) /\ IsFiniteSet(1..w[k])
    BY FS_Singleton, UpTo
  <2>2. IsFiniteSet({k} \X (1..w[k]))
    BY <2>1, FS_Product
  <2> QED BY <2>2
<1>2. IsFiniteSet({f[k] : k \in S})
  <2>1. DOMAIN f = S
    OBVIOUS
  <2> HIDE DEF f, S
  <2> QED BY <2>1, ImageFinite DEF S
<1>3. Bytes(w) = UNION {f[k] : k \in S}
  BY DEF Bytes
<1>4. \A T \in {f[k] : k \in S} : IsFiniteSet(T)
  BY <1>1
<1> HIDE DEF f
<1>5. IsFiniteSet(Bytes(w))
  BY <1>2, <1>3, <1>4, FS_UNION
<1>6. \A x : x \in Bytes(w) <=> \E k \in DOMAIN w : \E i \in 1..w[k] : x = <<k, i>>
  BY DEF Bytes
<1> QED BY <1>5, <1>6, FS_CardinalityType

LEMMA BytesOfOne ==
    ASSUME NEW S, IsFiniteSet(S), NEW w \in [S -> Nat], NEW v \in [S -> Nat], NEW c \in S,
           w[c] = 0, \A k \in S \ {c} : v[k] = w[k]
    PROVE  Cardinality(Bytes(v)) = Cardinality(Bytes(w)) + v[c]
<1> DEFINE A == {c} \X (1..v[c])
<1>0. DOMAIN w = S /\ DOMAIN v = S /\ (\A k \in S : w[k] \in Nat) /\ \A k \in S : v[k] \in Nat
  OBVIOUS
<1>1. /\ IsFiniteSet(Bytes(w)) /\ Cardinality(Bytes(w)) \in Nat
      /\ \A x : x \in Bytes(w) <=> \E k \in S : \E i \in 1..w[k] : x = <<k, i>>
  BY <1>0, BytesAre
<1>2. \A x : x \in Bytes(v) <=> \E k \in S : \E i \in 1..v[k] : x = <<k, i>>
  BY <1>0, BytesAre
<1>3. IsFiniteSet(A) /\ Cardinality(A) = v[c]
  <2>1. IsFiniteSet(1..v[c]) /\ Cardinality(1..v[c]) = v[c]
    BY <1>0, UpTo
  <2>2. IsFiniteSet({c}) /\ Cardinality({c}) = 1
    BY FS_Singleton
  <2>3. IsFiniteSet(A) /\ Cardinality(A) = Cardinality({c}) * Cardinality(1..v[c])
    BY <2>1, <2>2, FS_Product
  <2> QED BY <1>0, <2>1, <2>2, <2>3
<1>4. \A x : x \in A <=> \E i \in 1..v[c] : x = <<c, i>>
  OBVIOUS
<1>5. \A i \in 1..w[c] : FALSE
  OBVIOUS
<1> HIDE DEF A
<1>6. Bytes(v) = Bytes(w) \cup A
  <2>1. ASSUME NEW x \in Bytes(v) PROVE x \in Bytes(w) \cup A
    <3>0. PICK k \in S : \E i \in 1..v[k] : x = <<k, i>>
      BY <1>2
    <3>1. PICK i \in 1..v[k] : x = <<k, i>>
      BY <3>0
    <3>2. CASE k = c
      BY <1>4, <3>1, <3>2
    <3>3. CASE k # c
      BY <1>1, <3>1, <3>3
    <3> QED BY <3>2, <3>3
  <2>2. ASSUME NEW x \in Bytes(w) PROVE x \in Bytes(v)
    <3>0. PICK k \in S : \E i \in 1..w[k] : x = <<k, i>>
      BY <1>1
    <3>1. PICK i \in 1..w[k] : x = <<k, i>>
      BY <3>0
    <3>2. k # c
      BY <1>5, <3>1
    <3> QED BY <1>2, <3>1, <3>2
  <2>3. ASSUME NEW x \in A PROVE x \in Bytes(v)
    BY <1>2, <1>4
  <2> QED BY <2>1, <2>2, <2>3
<1>7. Bytes(w) \cap A = {}
  <2> SUFFICES ASSUME NEW x \in Bytes(w), x \in A PROVE FALSE
    OBVIOUS
  <2>0. PICK k \in S : \E i \in 1..w[k] : x = <<k, i>>
    BY <1>1
  <2>1. PICK i \in 1..w[k] : x = <<k, i>>
    BY <2>0
  <2>2. PICK j \in 1..v[c] : x = <<c, j>>
    BY <1>4
  <2>3. k = c
    BY <2>1, <2>2
  <2> QED BY <1>5, <2>1, <2>3
<1>8. Cardinality(Bytes(v)) = Cardinality(Bytes(w)) + Cardinality(A) - Cardinality(Bytes(w) \cap A)
  BY <1>1, <1>3, <1>6, FS_Union
<1>9. Cardinality(Bytes(w) \cap A) = 0
  BY <1>7, FS_EmptySet
<1> QED BY <1>0, <1>1, <1>3, <1>8, <1>9

(* The values put under some keys of a namespace take no more bytes than   *)
(* the metrics count for them.                                             *)
LEMMA BytesPut ==
    ASSUME NEW S, IsFiniteSet(S), NEW w \in [S -> Nat], NEW T, NEW v \in [T -> Nat],
           NEW X, IsFiniteSet(X), NEW f, DOMAIN f = X, NEW b \in Nat,
           \A k \in T : (k \in S /\ v[k] = w[k]) \/ (v[k] = b /\ \E x \in X : k = f[x])
    PROVE  /\ IsFiniteSet(Bytes(v)) /\ Cardinality(Bytes(v)) \in Nat
           /\ Cardinality(Bytes(v)) <= Cardinality(Bytes(w)) + b * Cardinality(X)
<1> DEFINE I == {f[x] : x \in X}
           A == X \X (1..b)
           B == I \X (1..b)
           g == [a \in A |-> <<f[a[1]], a[2]>>]
<1>0. DOMAIN w = S /\ (\A k \in S : w[k] \in Nat) /\ DOMAIN v = T /\ \A k \in T : v[k] \in Nat
  OBVIOUS
<1>1. IsFiniteSet(T)
  <2>1. IsFiniteSet(I)
    BY ImageFinite
  <2>2. IsFiniteSet(S \cup I)
    BY <2>1, FS_Union
  <2>3. T \in SUBSET (S \cup I)
    OBVIOUS
  <2> QED BY <2>2, <2>3, FS_Subset
<1>2. /\ IsFiniteSet(Bytes(w)) /\ Cardinality(Bytes(w)) \in Nat
      /\ \A x : x \in Bytes(w) <=> \E k \in S : \E i \in 1..w[k] : x = <<k, i>>
  BY <1>0, BytesAre
<1>3. /\ IsFiniteSet(Bytes(v)) /\ Cardinality(Bytes(v)) \in Nat
      /\ \A x : x \in Bytes(v) <=> \E k \in T : \E i \in 1..v[k] : x = <<k, i>>
  BY <1>0, <1>1, BytesAre
<1>4. IsFiniteSet(A) /\ Cardinality(A) = Cardinality(X) * b /\ Cardinality(X) \in Nat
  <2>1. IsFiniteSet(1..b) /\ Cardinality(1..b) = b
    BY UpTo
  <2>2. IsFiniteSet(A) /\ Cardinality(A) = Cardinality(X) * Cardinality(1..b)
    BY <2>1, FS_Product
  <2>3. Cardinality(X) \in Nat
    BY FS_CardinalityType
  <2> HIDE DEF A
  <2> QED BY <2>1, <2>2, <2>3
<1>5. g \in Surjection(A, B)
  <2>1. g \in [A -> B]
    OBVIOUS
  <2>2. \A y \in B : \E a \in A : g[a] = y
    <3> SUFFICES ASSUME NEW y \in B PROVE \E a \in A : g[a] = y
      OBVIOUS
    <3>1. PICK x \in X, i \in 1..b : y = <<f[x], i>>
      OBVIOUS
    <3>2. <<x, i>> \in A /\ g[<<x, i>>] = y
      BY <3>1
    <3> QED BY <3>2, Zenon
  <2> HIDE DEF g, A, B
  <2> QED BY <2>1, <2>2 DEF Surjection
<1>6. IsFiniteSet(B) /\ Cardinality(B) <= Cardinality(A) /\ Cardinality(B) \in Nat
  BY <1>4, <1>5, FS_Surjection, FS_CardinalityType
<1>7. Bytes(v) \in SUBSET (Bytes(w) \cup B)
  <2> SUFFICES ASSUME NEW x \in Bytes(v) PROVE x \in Bytes(w) \cup B
    OBVIOUS
  <2>0. PICK k \in T : \E i \in 1..v[k] : x = <<k, i>>
    BY <1>3
  <2>1. PICK i \in 1..v[k] : x = <<k, i>>
    BY <2>0
  <2>2. CASE k \in S /\ v[k] = w[k]
    BY <1>2, <2>1, <2>2
  <2>3. CASE v[k] = b /\ \E z \in X : k = f[z]
    BY <2>1, <2>3
  <2> QED BY <2>2, <2>3
<1> HIDE DEF A, B
<1>8. /\ IsFiniteSet(Bytes(w) \cup B)
      /\ Cardinality(Bytes(w) \cup B) = Cardinality(Bytes(w)) + Cardinality(B) - Cardinality(Bytes(w) \cap B)
  BY <1>2, <1>6, FS_Union
<1>9. Cardinality(Bytes(w) \cap B) \in Nat
  BY <1>2, FS_Intersection, FS_CardinalityType
<1>10. Cardinality(Bytes(v)) <= Cardinality(Bytes(w) \cup B)
  BY <1>7, <1>8, FS_Subset
<1>11. Cardinality(X) * b = b * Cardinality(X) /\ b * Cardinality(X) \in Nat
  BY <1>4
<1> QED BY <1>2, <1>3, <1>4, <1>6, <1>8, <1>9, <1>10, <1>11

LEMMA StoredBytesIs ==
    ASSUME StorageInv
    PROVE  /\ StoredBytes = Cardinality(Bytes([k \in DOMAIN raw |-> raw[k].bytes])) /\ StoredBytes \in Nat
           /\ [k \in DOMAIN raw |-> raw[k].bytes] \in [DOMAIN raw -> Nat]
           /\ PendingBytes \in Nat /\ [c \in Storers |-> counting[c].bytes] \in [Storers -> Nat]
<1> DEFINE w == [k \in DOMAIN raw |-> raw[k].bytes]
           q == [c \in Storers |-> counting[c].bytes]
<1>1. IsFiniteSet(DOMAIN w) /\ (\A k \in DOMAIN w : w[k] \in Nat) /\ w \in [DOMAIN raw -> Nat]
  BY DEF StorageInv, StorageType, IsEntry
<1>2. IsFiniteSet(DOMAIN q) /\ (\A c \in DOMAIN q : q[c] \in Nat) /\ q \in [Storers -> Nat]
  BY StorageAssumption DEF StorageInv, StorageType
<1>3. StoredBytes = Cardinality(Bytes(w))
  BY DEF StoredBytes, Bytes
<1> HIDE DEF w, q
<1>4. Cardinality(Bytes(w)) \in Nat /\ Cardinality(Bytes(q)) \in Nat
  BY <1>1, <1>2, BytesAre
<1> QED BY <1>1, <1>2, <1>3, <1>4 DEF PendingBytes, w, q

LEMMA StorageInvInit == ASSUME StorageInit PROVE StorageInv
<1> DEFINE q == [c \in Storers |-> counting[c].bytes]
<1>1. /\ DOMAIN raw = {} /\ raw = [k \in DOMAIN raw |-> raw[k]]
  BY DEF StorageInit
<1>2. StorageType
  BY <1>1, FS_EmptySet DEF StorageInit, StorageType, NotCounting
<1>3. StoredBytes = 0
  <2>1. UNION {{k} \X (1 .. raw[k].bytes) : k \in DOMAIN raw} = {}
    BY <1>1
  <2> QED BY <2>1, FS_EmptySet DEF StoredBytes
<1>4. IsFiniteSet(DOMAIN q) /\ \A c \in DOMAIN q : q[c] \in Nat
  BY <1>2, StorageAssumption DEF StorageType
<1> HIDE DEF q
<1>5. Cardinality(Bytes(q)) \in Nat
  BY <1>4, BytesAre
<1>6. PendingBytes \in Nat
  BY <1>5 DEF PendingBytes, q
<1>7. writtenBytes \in Nat /\ sizeAtReset \in Nat
  BY <1>2 DEF StorageType
<1>8. StoredBytes <= PendingBytes + writtenBytes + sizeAtReset
  BY <1>3, <1>6, <1>7
<1> QED BY <1>2, <1>8 DEF StorageInv

(* A caller that was not counting starts to, or the other way round.       *)
LEMMA PendingStep ==
    ASSUME StorageType, NEW c \in Storers, ~counting[c].busy, NEW b \in Nat, NEW busy,
           counting' = [counting EXCEPT ![c] = [busy |-> busy, bytes |-> b]]
    PROVE  /\ PendingBytes' = PendingBytes + b
           /\ counting' = [d \in Storers |-> [busy |-> counting'[d].busy, bytes |-> counting'[d].bytes]]
           /\ \A d \in Storers : counting'[d].bytes \in Nat
           /\ \A d \in Storers : counting'[d] = IF d = c THEN [busy |-> busy, bytes |-> b] ELSE counting[d]
<1> DEFINE q == [d \in Storers |-> counting[d].bytes]
           r == [d \in Storers |-> counting'[d].bytes]
<1>1. \A d \in Storers : counting'[d] = IF d = c THEN [busy |-> busy, bytes |-> b] ELSE counting[d]
  BY DEF StorageType
<1>2. /\ counting' = [d \in Storers |-> [busy |-> counting'[d].busy, bytes |-> counting'[d].bytes]]
      /\ \A d \in Storers : counting'[d].bytes \in Nat
  BY <1>1 DEF StorageType
<1>3. q \in [Storers -> Nat] /\ r \in [Storers -> Nat] /\ q[c] = 0 /\ r[c] = b /\ \A d \in Storers \ {c} : r[d] = q[d]
  BY <1>1, <1>2 DEF StorageType
<1>4. PendingBytes = Cardinality(Bytes(q)) /\ PendingBytes' = Cardinality(Bytes(r))
  BY DEF PendingBytes, Bytes
<1> HIDE DEF q, r
<1>5. Cardinality(Bytes(r)) = Cardinality(Bytes(q)) + r[c]
  BY <1>3, BytesOfOne, StorageAssumption
<1> QED BY <1>1, <1>2, <1>3, <1>4, <1>5

LEMMA BatchPutKeeps ==
    ASSUME StorageInv, NEW c \in Storers, NEW ns \in Namespaces, NEW b \in Sizes,
           NEW keys \in SUBSET LogicalKeys, BatchPut(c, ns, keys, b)
    PROVE  StorageInv'
<1> DEFINE f == [x \in keys |-> PrefixedKey(ns, x)]
           new == [k \in {PrefixedKey(ns, x) : x \in keys} |->
                     [bytes |-> b, owner |-> ns, key |-> CHOOSE x \in keys : PrefixedKey(ns, x) = k]]
           w == [k \in DOMAIN raw |-> raw[k].bytes]
           v == [k \in DOMAIN raw' |-> raw'[k].bytes]
           more == b * Cardinality(keys)
<1>0. b \in Nat /\ IsFiniteSet(keys) /\ Cardinality(keys) \in Nat
  BY FS_Subset, FS_CardinalityType, StorageAssumption
<1>1. more \in Nat
  BY <1>0
<1>2. /\ raw' = [k \in DOMAIN raw \cup DOMAIN new |-> IF k \in DOMAIN new THEN new[k] ELSE raw[k]]
      /\ ~counting[c].busy /\ counting' = [counting EXCEPT ![c] = [busy |-> TRUE, bytes |-> more]]
      /\ UNCHANGED <<engine, writtenBytes, sizeAtReset>>
  BY DEF BatchPut
<1>3. \A k \in DOMAIN new : \E x \in keys : k = f[x]
  OBVIOUS
<1>4. ASSUME NEW k \in DOMAIN new
      PROVE  new[k].bytes = b /\ new[k].owner = ns /\ new[k].key \in LogicalKeys /\ k = PrefixedKey(ns, new[k].key)
  <2>1. PICK x \in keys : PrefixedKey(ns, x) = k
    BY <1>3
  <2> DEFINE y == CHOOSE z \in keys : PrefixedKey(ns, z) = k
  <2>2. y \in keys /\ PrefixedKey(ns, y) = k
    BY <2>1
  <2>3. new[k] = [bytes |-> b, owner |-> ns, key |-> y]
    OBVIOUS
  <2> HIDE DEF y, new
  <2> QED BY <2>2, <2>3
<1> HIDE DEF new, more
<1>5. DOMAIN raw' = DOMAIN raw \cup DOMAIN new /\ \A k \in DOMAIN raw' : raw'[k] = IF k \in DOMAIN new THEN new[k] ELSE raw[k]
  BY <1>2
<1>6. \A k \in DOMAIN raw' : IsEntry(k)'
  <2> SUFFICES ASSUME NEW k \in DOMAIN raw'
               PROVE  /\ raw'[k].bytes \in Nat /\ raw'[k].owner \in Namespaces /\ raw'[k].key \in LogicalKeys
                      /\ k = PrefixedKey(raw'[k].owner, raw'[k].key)
    BY DEF IsEntry, PrefixedKey
  <2>1. CASE k \in DOMAIN new
    <3>1. raw'[k] = new[k]
      BY <1>5, <2>1
    <3> QED BY <1>0, <1>4, <2>1, <3>1
  <2>2. CASE k \notin DOMAIN new
    <3>1. raw'[k] = raw[k] /\ k \in DOMAIN raw
      BY <1>5, <2>2
    <3> QED BY <3>1 DEF StorageInv, StorageType, IsEntry
  <2> QED BY <2>1, <2>2
<1>7. w \in [DOMAIN raw -> Nat] /\ StoredBytes = Cardinality(Bytes(w)) /\ StoredBytes \in Nat /\ PendingBytes \in Nat
  BY StoredBytesIs
<1>8. v \in [DOMAIN raw' -> Nat]
  BY <1>6 DEF IsEntry
<1>9. \A k \in DOMAIN raw' : (k \in DOMAIN raw /\ v[k] = w[k]) \/ (v[k] = b /\ \E x \in keys : k = f[x])
  BY <1>3, <1>4, <1>5
<1>10. DOMAIN f = keys /\ IsFiniteSet(DOMAIN raw)
  BY DEF StorageInv, StorageType
<1>11. StoredBytes' = Cardinality(Bytes(v))
  BY DEF StoredBytes, Bytes
<1> HIDE DEF f, w, v
<1>12. Cardinality(Bytes(v)) \in Nat /\ Cardinality(Bytes(v)) <= Cardinality(Bytes(w)) + b * Cardinality(keys)
  BY <1>0, <1>7, <1>8, <1>9, <1>10, BytesPut
<1>13. IsFiniteSet(DOMAIN raw')
  <2>1. IsFiniteSet({f[x] : x \in keys})
    BY <1>0, <1>10, ImageFinite
  <2>2. IsFiniteSet(DOMAIN raw \cup {f[x] : x \in keys})
    BY <1>10, <2>1, FS_Union
  <2>3. DOMAIN raw' \in SUBSET (DOMAIN raw \cup {f[x] : x \in keys})
    BY <1>3, <1>5
  <2> QED BY <2>2, <2>3, FS_Subset
<1>14. /\ PendingBytes' = PendingBytes + more
       /\ counting' = [d \in Storers |-> [busy |-> counting'[d].busy, bytes |-> counting'[d].bytes]]
       /\ \A d \in Storers : counting'[d].bytes \in Nat
       /\ \A d \in Storers : counting'[d] = IF d = c THEN [busy |-> TRUE, bytes |-> more] ELSE counting[d]
  BY <1>1, <1>2, PendingStep DEF StorageInv
<1>15. \A d \in Storers : ~counting'[d].busy => counting'[d].bytes = 0
  BY <1>14 DEF StorageInv, StorageType
<1>16. raw' = [k \in DOMAIN raw' |-> raw'[k]]
  BY <1>2
<1>17. StorageType'
  BY <1>2, <1>6, <1>13, <1>14, <1>15, <1>16 DEF StorageInv, StorageType
<1>18. StoredBytes <= PendingBytes + writtenBytes + sizeAtReset /\ writtenBytes \in Nat /\ sizeAtReset \in Nat
  BY DEF StorageInv, StorageType
<1>19. StoredBytes' <= PendingBytes' + writtenBytes' + sizeAtReset'
  BY <1>1, <1>2, <1>7, <1>11, <1>12, <1>14, <1>18 DEF more
<1> QED BY <1>17, <1>19 DEF StorageInv

LEMMA CountPutKeeps ==
    ASSUME StorageInv, NEW c \in Storers, CountPut(c)
    PROVE  StorageInv'
<1> DEFINE q == [d \in Storers |-> counting[d].bytes]
           r == [d \in Storers |-> counting'[d].bytes]
<1>1. /\ writtenBytes' = writtenBytes + counting[c].bytes /\ counting' = [counting EXCEPT ![c] = NotCounting]
      /\ UNCHANGED <<raw, sizeAtReset>>
  BY DEF CountPut
<1>2. \A d \in Storers : counting'[d] = IF d = c THEN NotCounting ELSE counting[d]
  BY <1>1 DEF StorageInv, StorageType
<1>3. /\ counting' = [d \in Storers |-> [busy |-> counting'[d].busy, bytes |-> counting'[d].bytes]]
      /\ \A d \in Storers : counting'[d].bytes \in Nat /\ (~counting'[d].busy => counting'[d].bytes = 0)
  BY <1>1, <1>2 DEF StorageInv, StorageType, NotCounting
<1>4. q \in [Storers -> Nat] /\ r \in [Storers -> Nat] /\ r[c] = 0 /\ q[c] = counting[c].bytes /\ \A d \in Storers \ {c} : q[d] = r[d]
  BY <1>2, <1>3 DEF StorageInv, StorageType, NotCounting
<1>5. PendingBytes = Cardinality(Bytes(q)) /\ PendingBytes' = Cardinality(Bytes(r)) /\ StoredBytes' = StoredBytes
  BY <1>1 DEF PendingBytes, Bytes, StoredBytes
<1>6. DOMAIN r = Storers
  OBVIOUS
<1> HIDE DEF q, r
<1>7. Cardinality(Bytes(q)) = Cardinality(Bytes(r)) + q[c]
  BY <1>4, BytesOfOne, StorageAssumption
<1>8. Cardinality(Bytes(r)) \in Nat
  BY <1>4, <1>6, BytesAre, StorageAssumption
<1>9. writtenBytes \in Nat /\ sizeAtReset \in Nat /\ counting[c].bytes \in Nat /\ StoredBytes \in Nat
      /\ StoredBytes <= PendingBytes + writtenBytes + sizeAtReset
  BY StoredBytesIs DEF StorageInv, StorageType
<1>10. StoredBytes' <= PendingBytes' + writtenBytes' + sizeAtReset'
  BY <1>1, <1>4, <1>5, <1>7, <1>8, <1>9
<1>11. StorageType'
  BY <1>1, <1>3, <1>9 DEF StorageInv, StorageType, IsEntry
<1> QED BY <1>10, <1>11 DEF StorageInv

LEMMA StorageInvNext == ASSUME StorageInv, StorageNext PROVE StorageInv'
<1>0. /\ StoredBytes \in Nat /\ PendingBytes \in Nat /\ writtenBytes \in Nat /\ sizeAtReset \in Nat
      /\ StoredBytes <= PendingBytes + writtenBytes + sizeAtReset
  BY StoredBytesIs DEF StorageInv, StorageType
<1>1. ASSUME NEW c \in Storers, PutFails(c) PROVE StorageInv'
  <2>1. /\ ~counting[c].busy /\ counting' = [counting EXCEPT ![c] = [busy |-> TRUE, bytes |-> 0]]
        /\ UNCHANGED <<raw, writtenBytes, sizeAtReset>>
    BY <1>1 DEF PutFails
  <2>2. /\ PendingBytes' = PendingBytes + 0
        /\ counting' = [d \in Storers |-> [busy |-> counting'[d].busy, bytes |-> counting'[d].bytes]]
        /\ \A d \in Storers : counting'[d].bytes \in Nat
        /\ \A d \in Storers : counting'[d] = IF d = c THEN [busy |-> TRUE, bytes |-> 0] ELSE counting[d]
    BY <2>1, PendingStep DEF StorageInv
  <2>3. \A d \in Storers : ~counting'[d].busy => counting'[d].bytes = 0
    BY <2>2 DEF StorageInv, StorageType
  <2>4. StorageType'
    BY <2>1, <2>2, <2>3 DEF StorageInv, StorageType, IsEntry
  <2>5. StoredBytes' = StoredBytes
    BY <2>1 DEF StoredBytes
  <2> QED BY <1>0, <2>1, <2>2, <2>4, <2>5 DEF StorageInv
<1>2. ASSUME NEW ns \in Namespaces, NEW key \in LogicalKeys, DeleteKey(ns, key) PROVE StorageInv'
  <2> DEFINE w == [k \in DOMAIN raw |-> raw[k].bytes]
             v == [k \in DOMAIN raw' |-> raw'[k].bytes]
  <2>1. /\ raw' = [k \in DOMAIN raw \ {PrefixedKey(ns, key)} |-> raw[k]]
        /\ UNCHANGED <<counting, writtenBytes, sizeAtReset>>
    BY <1>2 DEF DeleteKey
  <2>2. DOMAIN raw' \in SUBSET DOMAIN raw /\ (\A k \in DOMAIN raw' : raw'[k] = raw[k]) /\ raw' = [k \in DOMAIN raw' |-> raw'[k]]
    BY <2>1
  <2>3. IsFiniteSet(DOMAIN raw')
    BY <2>2, FS_Subset DEF StorageInv, StorageType
  <2>4. \A k \in DOMAIN raw' : IsEntry(k)'
    BY <2>2 DEF StorageInv, StorageType, IsEntry, PrefixedKey
  <2>5. StorageType'
    BY <2>1, <2>2, <2>3, <2>4 DEF StorageInv, StorageType
  <2>6. w \in [DOMAIN raw -> Nat] /\ StoredBytes = Cardinality(Bytes(w)) /\ IsFiniteSet(DOMAIN raw)
    BY StoredBytesIs DEF StorageInv, StorageType
  <2>7. v \in [DOMAIN raw' -> Nat] /\ \A k \in DOMAIN raw' : k \in DOMAIN raw /\ v[k] = w[k]
    BY <2>2, <2>4 DEF IsEntry
  <2>8. StoredBytes' = Cardinality(Bytes(v)) /\ PendingBytes' = PendingBytes
    BY <2>1 DEF StoredBytes, Bytes, PendingBytes
  <2>9. DOMAIN w = DOMAIN raw /\ DOMAIN v = DOMAIN raw'
    OBVIOUS
  <2> HIDE DEF w, v
  <2>10. Cardinality(Bytes(v)) <= Cardinality(Bytes(w)) /\ Cardinality(Bytes(v)) \in Nat
    <3>1. /\ IsFiniteSet(Bytes(w))
          /\ \A x : x \in Bytes(w) <=> \E k \in DOMAIN raw : \E i \in 1..w[k] : x = <<k, i>>
      BY <2>6, <2>9, BytesAre
    <3>2. /\ Cardinality(Bytes(v)) \in Nat
          /\ \A x : x \in Bytes(v) <=> \E k \in DOMAIN raw' : \E i \in 1..v[k] : x = <<k, i>>
      BY <2>3, <2>7, <2>9, BytesAre
    <3>3. Bytes(v) \in SUBSET Bytes(w)
      BY <2>7, <3>1, <3>2
    <3> QED BY <3>1, <3>2, <3>3, FS_Subset
  <2> QED BY <1>0, <2>1, <2>5, <2>6, <2>8, <2>10 DEF StorageInv
<1>3. ASSUME ResetStats PROVE StorageInv'
  <2>1. writtenBytes' = 0 /\ sizeAtReset' = StoredBytes /\ UNCHANGED <<raw, counting>>
    BY <1>3 DEF ResetStats
  <2>2. StorageType'
    BY <1>0, <2>1 DEF StorageInv, StorageType, IsEntry
  <2>3. StoredBytes' = StoredBytes /\ PendingBytes' = PendingBytes
    BY <2>1 DEF StoredBytes, PendingBytes, Bytes
  <2> QED BY <1>0, <2>1, <2>2, <2>3 DEF StorageInv
<1> QED BY <1>1, <1>2, <1>3, BatchPutKeeps, CountPutKeeps DEF StorageNext

LEMMA StorageInvImplies == ASSUME StorageInv PROVE ScanIsOwnNamespace /\ WrittenCoversStored
<1>1. ScanIsOwnNamespace
  <2>1. \A prefix \in LogicalKeys \cup {<<>>} : prefix \in Seq(Nat)
    BY StorageAssumption, EmptySeq
  <2> QED BY <2>1, ScanIs, Zenon DEF ScanIsOwnNamespace
<1>2. ASSUME \A c \in Storers : ~counting[c].busy PROVE writtenBytes + sizeAtReset >= StoredBytes
  <2> DEFINE q == [c \in Storers |-> counting[c].bytes]
  <2>1. \A c \in Storers : counting[c].bytes = 0
    BY <1>2 DEF StorageInv, StorageType
  <2>2. Bytes(q) = {}
    BY <2>1 DEF Bytes
  <2>3. PendingBytes = 0
    BY <2>2, FS_EmptySet DEF PendingBytes
  <2> QED BY <2>3, StoredBytesIs DEF StorageInv, StorageType
<1> QED BY <1>1, <1>2 DEF WrittenCoversStored

-----------------------------------------------------------------------------
(* Documents                                                               *)

DocCall == [op : {"index", "delete"}, id : DocIds, rev : Nat]

DocType ==
    /\ docOps \in Nat
    /\ written \subseteq [id : DocIds, rev : Nat]
    /\ docCalls \in [DocCallers -> DocCall \cup {DocIdle}]
    /\ documents = [d \in DOMAIN documents |-> documents[d]] /\ DOMAIN documents \subseteq DocIds

WorksOn(c, id) == docCalls[c] # DocIdle /\ docCalls[c].id = id

(* The map step a call owes will make the map agree with the index.        *)
CallAgrees(k) ==
    /\ k.op = "index" => [id |-> k.id, rev |-> k.rev] \in written
    /\ k.id \in SingleToken => {w.rev : w \in Copies(k.id)} = (IF k.op = "index" THEN {k.rev} ELSE {})

IdAgrees(id) ==
    /\ id \in DOMAIN documents => [id |-> id, rev |-> documents[id]] \in written
    /\ id \in SingleToken => {w.rev : w \in Copies(id)} = (IF id \in DOMAIN documents THEN {documents[id]} ELSE {})

DocInv ==
    /\ DocType
    /\ \A id \in DocIds \ raced :
        /\ \A c, d \in DocCallers : WorksOn(c, id) /\ WorksOn(d, id) => c = d
        /\ \A c \in DocCallers : WorksOn(c, id) => CallAgrees(docCalls[c])
        /\ (\A c \in DocCallers : ~WorksOn(c, id)) => IdAgrees(id)

LEMMA DocInvInit == ASSUME DocInit PROVE DocInv
<1>1. DocType
  BY DEF DocInit, DocType
<1>2. \A c \in DocCallers : docCalls[c] = DocIdle
  BY DEF DocInit
<1>3. \A id : IdAgrees(id)
  BY DEF DocInit, IdAgrees, Copies
<1> QED BY <1>1, <1>2, <1>3 DEF DocInv, WorksOn

LEMMA WriterKeeps ==
    ASSUME DocInv, NEW c \in DocCallers, NEW op \in {"index", "delete"}, NEW id \in DocIds, WriterStep(c, op, id)
    PROVE  DocInv'
<1> DEFINE k == [op |-> op, id |-> id, rev |-> docOps]
           new == IF op = "index" THEN {[id |-> id, rev |-> docOps]} ELSE {}
<1>1. /\ docCalls[c] = DocIdle /\ docOps' = docOps + 1 /\ written' = (written \ Deletable(id)) \cup new
      /\ docCalls' = [docCalls EXCEPT ![c] = k] /\ UNCHANGED documents
      /\ raced' = IF Races(c, id) THEN raced \cup {id} ELSE raced
  BY DEF WriterStep
<1>2. docOps \in Nat /\ k \in DocCall /\ k # DocIdle /\ k.id = id /\ k.op = op /\ k.rev = docOps
  BY DEF DocInv, DocType, DocCall, DocIdle
<1>3. new \subseteq [id : DocIds, rev : Nat] /\ (op = "index" => new = {[id |-> id, rev |-> docOps]}) /\ (op = "delete" => new = {})
  BY <1>2
<1> HIDE DEF k
<1>4. docCalls \in [DocCallers -> DocCall \cup {DocIdle}] /\ written \subseteq [id : DocIds, rev : Nat]
  BY DEF DocInv, DocType
<1>5. docCalls'[c] = k /\ \A d \in DocCallers : d # c => docCalls'[d] = docCalls[d]
  BY <1>1, <1>4
<1>6. DocType'
  <2>1. docCalls' \in [DocCallers -> DocCall \cup {DocIdle}]
    BY <1>1, <1>2, <1>4
  <2>2. written' \subseteq [id : DocIds, rev : Nat]
    BY <1>1, <1>3, <1>4
  <2> QED BY <1>1, <1>2, <2>1, <2>2 DEF DocInv, DocType, DocCall, DocIdle
<1>7. \A w \in new : w.id = id /\ w.rev = docOps
  BY <1>3
<1>8. \A w \in Deletable(id) : w.id = id /\ w \in written
  BY DEF Deletable, Copies
<1> HIDE DEF new
<1>9. ASSUME NEW i \in DocIds \ raced', i # id
      PROVE  /\ \A a, b \in DocCallers : WorksOn(a, i)' /\ WorksOn(b, i)' => a = b
             /\ \A a \in DocCallers : WorksOn(a, i)' => CallAgrees(docCalls[a])'
             /\ (\A a \in DocCallers : ~WorksOn(a, i)') => IdAgrees(i)'
  <2>1. i \in DocIds \ raced
    BY <1>1
  <2>2. \A a \in DocCallers : WorksOn(a, i)' <=> WorksOn(a, i)
    BY <1>1, <1>2, <1>5, <1>9 DEF WorksOn
  <2>3. Copies(i)' = Copies(i)
    BY <1>1, <1>7, <1>8, <1>9 DEF Copies
  <2>4. \A r : [id |-> i, rev |-> r] \in written' <=> [id |-> i, rev |-> r] \in written
    BY <1>1, <1>7, <1>8, <1>9
  <2>5. \A a \in DocCallers : WorksOn(a, i) => docCalls'[a] = docCalls[a] /\ docCalls[a].id = i
    BY <1>1, <1>5 DEF WorksOn
  <2>6. ASSUME NEW a \in DocCallers, WorksOn(a, i)' PROVE CallAgrees(docCalls[a])'
    <3>1. WorksOn(a, i)
      BY <2>2, <2>6
    <3>2. CallAgrees(docCalls[a])
      BY <2>1, <3>1 DEF DocInv
    <3> QED BY <2>3, <2>4, <2>5, <3>1, <3>2 DEF CallAgrees
  <2>7. ASSUME \A a \in DocCallers : ~WorksOn(a, i)' PROVE IdAgrees(i)'
    <3>1. IdAgrees(i)
      BY <2>1, <2>2, <2>7 DEF DocInv
    <3> QED BY <1>1, <2>3, <2>4, <3>1 DEF IdAgrees
  <2> QED BY <2>1, <2>2, <2>6, <2>7 DEF DocInv
<1>10. ASSUME id \notin raced'
       PROVE  /\ \A a, b \in DocCallers : WorksOn(a, id)' /\ WorksOn(b, id)' => a = b
              /\ \A a \in DocCallers : WorksOn(a, id)' => CallAgrees(docCalls[a])'
              /\ (\A a \in DocCallers : ~WorksOn(a, id)') => IdAgrees(id)'
  <2>1. \A d \in DocCallers \ {c} : docCalls[d].id # id
    BY <1>1, <1>10 DEF Races
  <2>2. WorksOn(c, id)' /\ \A d \in DocCallers : WorksOn(d, id)' => d = c
    BY <1>2, <1>5, <2>1 DEF WorksOn
  <2>3. CallAgrees(docCalls[c])'
    <3>1. op = "index" => [id |-> id, rev |-> docOps] \in written'
      BY <1>1, <1>3
    <3>2. ASSUME id \in SingleToken PROVE Copies(id)' = new
      <4>1. \A w \in written \ Deletable(id) : w.id # id
        BY <3>2 DEF Deletable, Copies
      <4> QED BY <1>1, <1>7, <4>1 DEF Copies
    <3>3. {w.rev : w \in new} = IF op = "index" THEN {docOps} ELSE {}
      BY <1>3, <1>7
    <3>4. Copies(docCalls[c].id)' = Copies(id)'
      BY <1>2, <1>5 DEF Copies
    <3> QED BY <1>2, <1>5, <3>1, <3>2, <3>3, <3>4 DEF CallAgrees
  <2> QED BY <2>2, <2>3
<1> QED BY <1>6, <1>9, <1>10 DEF DocInv

LEMMA MapKeeps ==
    ASSUME DocInv, NEW c \in DocCallers, MapStep(c)
    PROVE  DocInv'
<1> DEFINE k == docCalls[c]
<1>1. /\ k # DocIdle
      /\ documents' = IF k.op = "index"
                      THEN [d \in DOMAIN documents \cup {k.id} |-> IF d = k.id THEN k.rev ELSE documents[d]]
                      ELSE [d \in DOMAIN documents \ {k.id} |-> documents[d]]
      /\ docCalls' = [docCalls EXCEPT ![c] = DocIdle] /\ UNCHANGED <<written, docOps, raced>>
  BY DEF MapStep
<1>2. docCalls \in [DocCallers -> DocCall \cup {DocIdle}] /\ DOMAIN documents \subseteq DocIds
  BY DEF DocInv, DocType
<1>3. k \in DocCall /\ k.id \in DocIds
  BY <1>1, <1>2 DEF DocCall
<1>4. docCalls'[c] = DocIdle /\ \A d \in DocCallers : d # c => docCalls'[d] = docCalls[d]
  BY <1>1, <1>2
<1> HIDE DEF k
<1>5. DocType'
  <2>1. docCalls' \in [DocCallers -> DocCall \cup {DocIdle}]
    BY <1>1, <1>2
  <2>2. documents' = [d \in DOMAIN documents' |-> documents'[d]] /\ DOMAIN documents' \subseteq DocIds
    BY <1>1, <1>2, <1>3
  <2> QED BY <1>1, <2>1, <2>2 DEF DocInv, DocType, DocCall, DocIdle
<1>6. \A i : i # k.id => (i \in DOMAIN documents' <=> i \in DOMAIN documents) /\ (i \in DOMAIN documents => documents'[i] = documents[i])
  BY <1>1
<1>7. /\ k.op = "index" => k.id \in DOMAIN documents' /\ documents'[k.id] = k.rev
      /\ k.op # "index" => k.id \notin DOMAIN documents'
  BY <1>1
<1>8. \A i, a : a \in DocCallers /\ WorksOn(a, i)' => WorksOn(a, i) /\ a # c /\ docCalls'[a] = docCalls[a]
  BY <1>4 DEF WorksOn
<1>9. \A i : Copies(i)' = Copies(i)
  BY <1>1 DEF Copies
<1>10. ASSUME NEW i \in DocIds \ raced, NEW a \in DocCallers, WorksOn(a, i)' PROVE CallAgrees(docCalls[a])'
  <2>1. CallAgrees(docCalls[a]) /\ docCalls'[a] = docCalls[a]
    BY <1>8, <1>10 DEF DocInv
  <2> QED BY <1>1, <1>9, <2>1 DEF CallAgrees
<1>11. ASSUME NEW i \in DocIds \ raced, \A a \in DocCallers : ~WorksOn(a, i)' PROVE IdAgrees(i)'
  <2>1. CASE i = k.id
    <3>1. CallAgrees(k)
      BY <1>1, <2>1 DEF DocInv, WorksOn, k
    <3>2. CASE k.op = "index"
      BY <1>1, <1>7, <1>9, <2>1, <3>1, <3>2 DEF CallAgrees, IdAgrees
    <3>3. CASE k.op # "index"
      BY <1>1, <1>7, <1>9, <2>1, <3>1, <3>3 DEF CallAgrees, IdAgrees
    <3> QED BY <3>2, <3>3
  <2>2. CASE i # k.id
    <3>1. \A a \in DocCallers : ~WorksOn(a, i)
      BY <1>4, <1>11, <2>2 DEF WorksOn, k
    <3>2. IdAgrees(i)
      BY <3>1 DEF DocInv
    <3> QED BY <1>1, <1>6, <1>9, <2>2, <3>2 DEF IdAgrees
  <2> QED BY <2>1, <2>2
<1>12. \A i \in DocIds \ raced : \A a, b \in DocCallers : WorksOn(a, i)' /\ WorksOn(b, i)' => a = b
  BY <1>8 DEF DocInv
<1> QED BY <1>1, <1>5, <1>10, <1>11, <1>12 DEF DocInv

LEMMA DocInvNext == ASSUME DocInv, DocNext PROVE DocInv'
<1>1. ASSUME CommitDocs PROVE DocInv'
  BY <1>1 DEF CommitDocs, DocInv, DocType, WorksOn, CallAgrees, IdAgrees, Copies, DocCall, DocIdle
<1> QED BY <1>1, WriterKeeps, MapKeeps DEF DocNext

LEMMA DocInvImplies == ASSUME DocInv PROVE SearchAgreesWithGet /\ NothingUnsearchable
<1> SUFFICES ASSUME AllCommitted PROVE SearchAgreesWithGet /\ NothingUnsearchable
  BY DEF SearchAgreesWithGet, NothingUnsearchable
<1>1. visible = written /\ \A id, c : c \in DocCallers => ~WorksOn(c, id)
  BY DEF AllCommitted, WorksOn
<1>2. \A id \in DocIds \ raced : IdAgrees(id)
  BY <1>1 DEF DocInv
<1>3. DOMAIN documents \subseteq DocIds
  BY DEF DocInv, DocType
<1> QED BY <1>1, <1>2, <1>3 DEF SearchAgreesWithGet, NothingUnsearchable, IdAgrees, Whole

-----------------------------------------------------------------------------
(* Places                                                                  *)

SpatialInv ==
    /\ places = [e \in DOMAIN places |-> places[e]] /\ DOMAIN places \subseteq SpatialIds
    /\ \A e \in DOMAIN places : places[e] \in Int \X Int /\ Wgs84(places[e])

Away(c, e) == Haversine(c, places[e])

LEMMA SpatialInvInit == ASSUME SpatialInit PROVE SpatialInv
BY DEF SpatialInit, SpatialInv

LEMMA SpatialInvNext == ASSUME SpatialInv, SpatialNext PROVE SpatialInv'
<1>1. ASSUME NEW e \in SpatialIds, NEW p \in Places, Index(e, p) PROVE SpatialInv'
  <2>1. p \in Int \X Int
    BY SpatialAssumption
  <2>2. CASE Wgs84(p)
    <3>1. places' = [x \in DOMAIN places \cup {e} |-> IF x = e THEN p ELSE places[x]]
      BY <1>1, <2>2 DEF Index, IndexValid
    <3>2. \A x \in DOMAIN places' : places'[x] = p \/ (x \in DOMAIN places /\ places'[x] = places[x])
      BY <3>1
    <3>3. \A x \in DOMAIN places' : places'[x] \in Int \X Int /\ Wgs84(places'[x])
      BY <2>1, <2>2, <3>2 DEF SpatialInv
    <3> QED BY <3>1, <3>3 DEF SpatialInv, Wgs84
  <2>3. CASE ~Wgs84(p)
    BY <1>1, <2>3 DEF Index, IndexValid, SpatialInv, Wgs84
  <2> QED BY <2>2, <2>3
<1>2. ASSUME NEW e \in SpatialIds, DeletePlace(e) PROVE SpatialInv'
  BY <1>2 DEF DeletePlace, SpatialInv, Wgs84
<1> QED BY <1>1, <1>2 DEF SpatialNext

LEMMA AwayIs ==
    ASSUME SpatialInv, NEW c \in Int \X Int
    PROVE  \A e \in DOMAIN places : Away(c, e) \in Int
<1>1. ASSUME NEW d \in Int PROVE HalfSine(d) \in Int
  <2> DEFINE m == ((IF d < 0 THEN -d ELSE d) % 6) + 1
  <2>1. m \in 1..6
    OBVIOUS
  <2> HIDE DEF m
  <2>2. <<0, 1, 3, 4, 3, 1>>[m] \in Int
    BY <2>1
  <2> QED BY <2>2 DEF HalfSine, m
<1>2. \A d : Cosine(d) \in Int
  BY DEF Cosine
<1>3. ASSUME NEW e \in DOMAIN places PROVE Away(c, e) \in Int
  <2> DEFINE p == places[e]
  <2>1. p \in Int \X Int
    BY DEF SpatialInv
  <2> HIDE DEF p
  <2>2. p[1] - c[1] \in Int /\ p[2] - c[2] \in Int
    BY <2>1
  <2> DEFINE h == HalfSine(p[1] - c[1])
             k == HalfSine(p[2] - c[2])
             a == Cosine(c[1])
             b == Cosine(p[1])
  <2>3. h \in Int /\ k \in Int /\ a \in Int /\ b \in Int
    BY <1>1, <1>2, <2>2
  <2> HIDE DEF h, k, a, b
  <2>4. a * b \in Int
    BY <2>3
  <2>5. 4 * h + a * b * k \in Int
    BY <2>3, <2>4
  <2> QED BY <2>5 DEF Away, Haversine, h, k, a, b, p
<1> QED BY <1>3

(* An order of a finite set lists each of its members once.                *)
LEMMA OrderIs ==
    ASSUME NEW S, IsFiniteSet(S), NEW o \in Orders(S)
    PROVE  /\ Cardinality(S) \in Nat /\ o \in [1..Cardinality(S) -> S]
           /\ o \in Seq(S) /\ Len(o) = Cardinality(S)
           /\ \A i, j \in 1..Cardinality(S) : i # j => o[i] # o[j]
           /\ \A e \in S : \E i \in 1..Cardinality(S) : o[i] = e
<1> DEFINE n == Cardinality(S)
<1>1. n \in Nat /\ o \in [1..n -> S] /\ \A i, j \in 1..n : i # j => o[i] # o[j]
  BY FS_CardinalityType DEF Orders
<1> HIDE DEF n
<1>2. o \in Injection(1..n, S)
  BY <1>1 DEF Injection, IsInjective
<1>3. Cardinality(1..n) = Cardinality(S)
  BY <1>1, UpTo DEF n
<1>4. o \in Surjection(1..n, S)
  BY <1>2, <1>3, FS_Injection
<1>5. o \in Seq(S) /\ Len(o) = n
  BY <1>1, FunctionIsSeq
<1>6. \A e \in S : \E i \in 1..n : o[i] = e
  BY <1>4 DEF Surjection
<1> QED BY <1>1, <1>5, <1>6 DEF n

LEMMA SortingIs ==
    ASSUME SpatialInv, NEW c \in Int \X Int, NEW S \in SUBSET DOMAIN places, IsFiniteSet(S), NEW o \in Sortings(S, c)
    PROVE  \A i, j \in 1..Cardinality(S) : i <= j => Away(c, o[i]) <= Away(c, o[j])
<1> DEFINE n == Cardinality(S)
           f == [i \in 1..n |-> Away(c, o[i])]
<1>1. n \in Nat /\ o \in [1..n -> S] /\ \A i \in 1..n : o[i] \in DOMAIN places
  BY OrderIs DEF Sortings
<1>2. \A i \in 1..(n - 1) : Away(c, o[i]) <= Away(c, o[i + 1])
  BY DEF Sortings, Away
<1>3. \A i \in 1..n : Away(c, o[i]) \in Int
  BY <1>1, AwayIs
<1> HIDE DEF n
<1>4. f \in [1..n -> Int] /\ \A i \in 1..(n - 1) : f[i] <= f[i + 1]
  <2>1. \A i \in 1..(n - 1) : i \in 1..n /\ i + 1 \in 1..n
    BY <1>1
  <2> QED BY <1>2, <1>3, <2>1
<1>5. \A i \in 1..n : f[i] = Away(c, o[i])
  OBVIOUS
<1> HIDE DEF f
<1>6. ASSUME NEW i \in 1..n PROVE \A j \in 1..n : i <= j => f[i] <= f[j]
  <2> DEFINE Bad == {j \in i..n : ~(f[i] <= f[j])}
  <2>1. ASSUME Bad # {} PROVE FALSE
    <3>1. PICK j \in Bad : \A y \in Bad : j <= y
      <4>1. Bad \in SUBSET Nat
        BY <1>1
      <4> HIDE DEF Bad
      <4> QED BY <2>1, <4>1, LeastOf
    <3>2. j # i
      BY <1>4, <3>1
    <3>3. j - 1 \in i..n /\ ~(j <= j - 1) /\ j - 1 \in 1..(n - 1) /\ (j - 1) + 1 = j /\ j \in 1..n /\ j - 1 \in 1..n
      BY <1>1, <3>1, <3>2
    <3>4. f[i] <= f[j - 1]
      BY <3>1, <3>3
    <3>5. f[j - 1] <= f[j]
      BY <1>4, <3>3
    <3>6. f[i] \in Int /\ f[j - 1] \in Int /\ f[j] \in Int
      BY <1>4, <3>3
    <3> QED BY <3>1, <3>4, <3>5, <3>6
  <2> QED BY <1>1, <2>1
<1> QED BY <1>5, <1>6 DEF n

LEMMA CutIs ==
    ASSUME NEW S, NEW o \in Seq(S), NEW limit \in Nat
    PROVE  /\ Cut(o, limit) \in Seq(S)
           /\ Len(Cut(o, limit)) = (IF limit < Len(o) THEN limit ELSE Len(o))
           /\ \A i \in 1..(IF limit < Len(o) THEN limit ELSE Len(o)) : Cut(o, limit)[i] = o[i]
<1> DEFINE m == IF limit < Len(o) THEN limit ELSE Len(o)
<1>0. Len(o) \in Nat
  BY LenProperties
<1>1. m \in Nat /\ m <= Len(o) /\ Cut(o, limit) = SubSeq(o, 1, m)
  BY <1>0 DEF Cut
<1> HIDE DEF m
<1>2. 1 \in 1..(Len(o) + 1) /\ m \in (1 - 1)..Len(o) /\ m - 1 + 1 = m /\ \A i \in 1..m : 1 + i - 1 = i
  BY <1>0, <1>1
<1>3. /\ SubSeq(o, 1, m) \in Seq(S) /\ Len(SubSeq(o, 1, m)) = m - 1 + 1
      /\ \A i \in 1..(m - 1 + 1) : SubSeq(o, 1, m)[i] = o[1 + i - 1]
  BY <1>2, SubSeqIs
<1>4. Cut(o, limit) \in Seq(S) /\ Len(Cut(o, limit)) = m /\ \A i \in 1..m : Cut(o, limit)[i] = o[i]
  BY <1>1, <1>2, <1>3, Zenon
<1> QED BY <1>4 DEF m

(* No sorting has a nearer entity in its i-th place than another one of a  *)
(* set that holds its first i entities.                                    *)
LEMMA NoCloser ==
    ASSUME SpatialInv, NEW c \in Int \X Int,
           NEW S \in SUBSET DOMAIN places, IsFiniteSet(S), NEW o \in Sortings(S, c),
           NEW T \in SUBSET DOMAIN places, IsFiniteSet(T), NEW p \in Sortings(T, c),
           NEW i \in 1..Cardinality(S), i \in 1..Cardinality(T),
           Away(c, p[i]) < Away(c, o[i]) => \A j \in 1..i : p[j] \in S
    PROVE  Away(c, o[i]) <= Away(c, p[i])
<1> DEFINE n == Cardinality(S)
           m == Cardinality(T)
<1>1. /\ n \in Nat /\ o \in [1..n -> S] /\ (\A e \in S : \E j \in 1..n : o[j] = e)
      /\ \A a, b \in 1..n : a <= b => Away(c, o[a]) <= Away(c, o[b])
  <2>1. o \in Orders(S)
    BY DEF Sortings
  <2>2. n \in Nat /\ o \in [1..n -> S] /\ \A e \in S : \E j \in 1..n : o[j] = e
    BY <2>1, OrderIs
  <2>3. \A a, b \in 1..n : a <= b => Away(c, o[a]) <= Away(c, o[b])
    BY SortingIs
  <2> QED BY <2>2, <2>3, Zenon
<1>2. /\ m \in Nat /\ p \in [1..m -> T] /\ (\A a, b \in 1..m : a # b => p[a] # p[b])
      /\ \A a, b \in 1..m : a <= b => Away(c, p[a]) <= Away(c, p[b])
  <2>1. p \in Orders(T)
    BY DEF Sortings
  <2>2. m \in Nat /\ p \in [1..m -> T] /\ \A a, b \in 1..m : a # b => p[a] # p[b]
    BY <2>1, OrderIs
  <2>3. \A a, b \in 1..m : a <= b => Away(c, p[a]) <= Away(c, p[b])
    BY SortingIs
  <2> QED BY <2>2, <2>3, Zenon
<1> HIDE DEF n, m
<1>3. i \in 1..n /\ i \in 1..m
  BY DEF n, m
<1>4. (\A e \in S : Away(c, e) \in Int) /\ \A e \in T : Away(c, e) \in Int
  BY AwayIs
<1>5. ASSUME Away(c, p[i]) < Away(c, o[i]) PROVE FALSE
  <2>1. ASSUME NEW j \in 1..i PROVE \E k \in 1..(i - 1) : o[k] = p[j]
    <3>1. p[j] \in S /\ j \in 1..m
      BY <1>2, <1>3, <1>5
    <3>2. PICK k \in 1..n : o[k] = p[j]
      BY <1>1, <3>1
    <3>3. Away(c, o[k]) <= Away(c, p[i])
      BY <1>2, <1>3, <3>1, <3>2
    <3>4. Away(c, o[k]) \in Int /\ Away(c, p[i]) \in Int /\ Away(c, o[i]) \in Int
      BY <1>1, <1>2, <1>3, <1>4
    <3>5. ~(Away(c, o[i]) <= Away(c, o[k]))
      BY <1>5, <3>3, <3>4
    <3>6. ~(i <= k)
      BY <1>1, <1>3, <3>5
    <3>7. k \in 1..(i - 1)
      BY <1>1, <1>3, <3>6
    <3> QED BY <3>2, <3>7
  <2> DEFINE f == [j \in 1..i |-> CHOOSE k \in 1..(i - 1) : o[k] = p[j]]
  <2>2. ASSUME NEW j \in 1..i PROVE f[j] \in 1..(i - 1) /\ o[f[j]] = p[j]
    <3>1. PICK k \in 1..(i - 1) : o[k] = p[j]
      BY <2>1
    <3> QED BY <3>1
  <2>3. f \in [1..i -> 1..(i - 1)]
    <3>1. f = [j \in 1..i |-> f[j]]
      OBVIOUS
    <3> HIDE DEF f
    <3> QED BY <2>2, <3>1
  <2> HIDE DEF f
  <2>4. i \in Nat /\ i - 1 \in Nat /\ i - 1 < i
    BY <1>1, <1>3
  <2>5. IsFiniteSet(1..i) /\ Cardinality(1..i) = i /\ IsFiniteSet(1..(i - 1)) /\ Cardinality(1..(i - 1)) = i - 1
    BY <2>4, UpTo
  <2>6. PICK a, b \in 1..i : a # b /\ f[a] = f[b]
    <3> DEFINE A == 1..i
               B == 1..(i - 1)
    <3>1. IsFiniteSet(A) /\ IsFiniteSet(B) /\ Cardinality(B) < Cardinality(A) /\ f \in [A -> B]
      BY <2>3, <2>4, <2>5
    <3> HIDE DEF A, B
    <3>2. \E a, b \in A : a # b /\ f[a] = f[b]
      BY <3>1, FS_PigeonHole
    <3> QED BY <3>2 DEF A
  <2>7. p[a] = p[b]
    BY <2>2, <2>6
  <2>8. a \in 1..m /\ b \in 1..m
    BY <1>2, <1>3
  <2> QED BY <1>2, <2>6, <2>7, <2>8
<1>6. Away(c, p[i]) \in Int /\ Away(c, o[i]) \in Int
  BY <1>1, <1>2, <1>3, <1>4
<1> QED BY <1>5, <1>6

LEMMA LimitIs ==
    ASSUME NEW n \in Nat, NEW default \in Nat
    PROVE  ValidateLimit(n, default) = IF n < MaxResultLimit THEN n ELSE MaxResultLimit
BY DEF ValidateLimit, NoLimit

LEMMA RadiusIs == ASSUME SpatialInv PROVE RadiusAgreesWithNearest
<1> SUFFICES ASSUME NEW c \in Places, NEW r \in 1..16, NEW n \in Limits \ {NoLimit},
                    NEW ans \in SpatialRadiusSearch(c, r, n), ans # BadRequest
             PROVE  /\ \A o \in SpatialNearest(c, Len(ans)) : \A i \in DOMAIN ans :
                          Haversine(c, places[o[i]]) = Haversine(c, places[ans[i]])
                    /\ Len(ans) < ValidateLimit(n, DefaultLimit) =>
                          \A e \in DOMAIN places \ ToSet(ans) : Haversine(c, places[e]) > r
  BY DEF RadiusAgreesWithNearest
<1> DEFINE D == DOMAIN places
           S == {e \in D : Haversine(c, places[e]) <= r}
           limit == ValidateLimit(n, DefaultLimit)
           s == Cardinality(S)
<1>0. /\ c \in Int \X Int /\ n \in Nat /\ MaxResultLimit \in Nat
  <2>1. IsFiniteSet(SpatialIds) /\ Cardinality(SpatialIds) \in Nat
    BY SpatialAssumption, FS_CardinalityType
  <2> QED BY <2>1, SpatialAssumption DEF Limits, NoLimit
<1>1. limit \in Nat /\ limit <= MaxResultLimit
  BY <1>0, LimitIs, SpatialAssumption
<1>2. IsFiniteSet(D) /\ S \in SUBSET D /\ IsFiniteSet(S)
  BY FS_Subset, SpatialAssumption DEF SpatialInv
<1>3. Wgs84(c) /\ ans \in SearchRadius(c, r, limit)
  BY DEF SpatialRadiusSearch
<1>4. PICK o \in Sortings(S, c) : ans = Cut(o, limit)
  BY <1>3 DEF SearchRadius, Ranked
<1>5. /\ s \in Nat /\ o \in [1..s -> S] /\ o \in Seq(S) /\ Len(o) = s
      /\ \A e \in S : \E i \in 1..s : o[i] = e
  <2>1. o \in Orders(S)
    BY DEF Sortings
  <2> HIDE DEF S
  <2> QED BY <1>2, <2>1, OrderIs
<1> HIDE DEF limit, s
<1>6. /\ ans \in Seq(S) /\ Len(ans) = (IF limit < s THEN limit ELSE s)
      /\ \A i \in 1..Len(ans) : ans[i] = o[i]
  BY <1>1, <1>4, <1>5, CutIs
<1>7. /\ Len(ans) \in Nat /\ Len(ans) <= s /\ Len(ans) <= limit /\ Len(ans) <= MaxResultLimit
      /\ DOMAIN ans = 1..Len(ans)
  BY <1>0, <1>1, <1>5, <1>6, LenProperties
<1>8. ASSUME NEW q \in SpatialNearest(c, Len(ans)), NEW i \in DOMAIN ans
      PROVE  Haversine(c, places[q[i]]) = Haversine(c, places[ans[i]])
  <2> DEFINE d == Cardinality(D)
             k == Len(ans)
  <2>1. ValidateLimit(k, DefaultK) = k
    <3>1. ValidateLimit(k, DefaultK) = IF k < MaxResultLimit THEN k ELSE MaxResultLimit
      BY <1>7, LimitIs, SpatialAssumption
    <3> HIDE DEF k
    <3>2. k \in Nat /\ k <= MaxResultLimit
      BY <1>7 DEF k
    <3> QED BY <1>0, <3>1, <3>2
  <2>2. PICK p \in Sortings(D, c) : q = Cut(p, k)
    BY <1>3, <1>8, <2>1 DEF SpatialNearest, NearestPlaces, Ranked
  <2>3. d \in Nat /\ p \in [1..d -> D] /\ p \in Seq(D) /\ Len(p) = d
    <3>1. p \in Orders(D)
      BY DEF Sortings
    <3> QED BY <1>2, <3>1, OrderIs
  <2>4. s <= d
    BY <1>2, FS_Subset DEF s
  <2> HIDE DEF d
  <2>5. i \in 1..k /\ i \in 1..s /\ i \in 1..d
    BY <1>5, <1>7, <2>3, <2>4
  <2>6. (IF k < d THEN k ELSE d) = k
    <3>1. k \in Nat /\ k <= s
      BY <1>7
    <3> HIDE DEF k
    <3> QED BY <1>5, <2>3, <2>4, <3>1
  <2>7. \A j \in 1..(IF k < Len(p) THEN k ELSE Len(p)) : Cut(p, k)[j] = p[j]
    BY <1>7, <2>3, CutIs
  <2>8. q[i] = p[i] /\ ans[i] = o[i]
    BY <1>6, <2>2, <2>3, <2>5, <2>6, <2>7, Zenon
  <2>9. (\A e \in D : Away(c, e) \in Int) /\ p[i] \in D /\ o[i] \in S
    BY <1>0, <1>5, <2>3, <2>5, AwayIs
  <2>10. Away(c, o[i]) <= Away(c, p[i])
    <3>1. ASSUME Away(c, p[i]) < Away(c, o[i]), NEW j \in 1..i PROVE p[j] \in S
      <4>1. j \in 1..d /\ j <= i
        BY <2>3, <2>5
      <4>2. Away(c, p[j]) <= Away(c, p[i])
        BY <1>0, <1>2, <2>5, <4>1, SortingIs DEF d
      <4>3. Away(c, o[i]) <= r /\ p[j] \in D
        BY <2>3, <2>9, <4>1 DEF Away
      <4>4. Away(c, p[j]) <= r
        BY <2>9, <3>1, <4>2, <4>3
      <4> QED BY <4>3, <4>4 DEF Away
    <3> HIDE DEF S, D
    <3> QED BY <1>0, <1>2, <2>5, <3>1, NoCloser DEF s, d, D
  <2>11. Away(c, p[i]) <= Away(c, o[i])
    <3>1. \A j \in 1..i : o[j] \in D
      BY <1>2, <1>5, <2>5
    <3> HIDE DEF S, D
    <3> QED BY <1>0, <1>2, <2>5, <3>1, NoCloser DEF s, d, D
  <2>12. Away(c, p[i]) = Away(c, o[i])
    BY <2>9, <2>10, <2>11
  <2> QED BY <2>8, <2>12 DEF Away
<1>9. ASSUME Len(ans) < limit, NEW e \in D \ ToSet(ans) PROVE Haversine(c, places[e]) > r
  <2>1. Len(ans) = s
    BY <1>1, <1>5, <1>6, <1>9
  <2>2. S \subseteq ToSet(ans)
    BY <1>5, <1>6, <1>7, <2>1 DEF ToSet
  <2>3. ~(Haversine(c, places[e]) <= r)
    BY <1>9, <2>2
  <2>4. Haversine(c, places[e]) \in Int
    BY <1>0, AwayIs DEF Away
  <2> QED BY <2>3, <2>4
<1> QED BY <1>8, <1>9 DEF limit

LEMMA WithinIs ==
    ASSUME SpatialInv, NEW b \in [minLat : Int, minLon : Int, maxLat : Int, maxLon : Int],
           b.minLat <= b.maxLat, b.minLon <= b.maxLon, Cardinality(DOMAIN places) <= MaxResultLimit,
           NEW ans \in SpatialBoundsSearch(b, MaxResultLimit)
    PROVE  ToSet(ans) = {e \in DOMAIN places : /\ places[e][1] >= b.minLat /\ places[e][1] <= b.maxLat
                                               /\ places[e][2] >= b.minLon /\ places[e][2] <= b.maxLon}
<1> DEFINE D == DOMAIN places
           S == {e \in D : /\ places[e][1] >= b.minLat /\ places[e][1] <= b.maxLat
                           /\ places[e][2] >= b.minLon /\ places[e][2] <= b.maxLon}
           s == Cardinality(S)
           limit == ValidateLimit(MaxResultLimit, DefaultLimit)
           c == <<(b.minLat + b.maxLat) \div 2, (b.minLon + b.maxLon) \div 2>>
<1>1. IsFiniteSet(D) /\ IsFiniteSet(S) /\ s \in Nat /\ s <= Cardinality(D) /\ Cardinality(D) \in Nat
  BY FS_Subset, FS_CardinalityType, SpatialAssumption DEF SpatialInv
<1>2. limit = MaxResultLimit /\ MaxResultLimit \in Nat
  BY LimitIs, SpatialAssumption
<1>3. ans \in SearchWithin(b, limit)
  BY DEF SpatialBoundsSearch
<1>4. PICK o \in Orders(S) : ans = Cut(o, limit)
  BY <1>3 DEF SearchWithin, Ranked, Sortings
<1> HIDE DEF S, limit
<1>5. o \in Seq(S) /\ Len(o) = s /\ o \in [1..s -> S] /\ \A e \in S : \E i \in 1..s : o[i] = e
  BY <1>1, OrderIs
<1> HIDE DEF s
<1>6. (IF limit < s THEN limit ELSE s) = s /\ limit \in Nat
  BY <1>1, <1>2
<1>7. ans \in Seq(S) /\ Len(ans) = s /\ \A i \in 1..s : ans[i] = o[i]
  BY <1>4, <1>5, <1>6, CutIs
<1>8. DOMAIN ans = 1..s
  BY <1>7, LenProperties
<1>9. ToSet(ans) = S
  BY <1>5, <1>7, <1>8 DEF ToSet
<1> QED BY <1>9 DEF S

LEMMA BoxesAre == ASSUME SpatialInv PROVE BoxesCoverTheWorld
<1> SUFFICES ASSUME Cardinality(DOMAIN places) \in 1..MaxResultLimit, NEW b \in Boxes,
                    b.minLat = -1, b.maxLat = 1, b.minLon = -3, b.maxLon \in -3..2,
                    NEW west \in SpatialBoundsSearch(b, MaxResultLimit),
                    NEW east \in SpatialBoundsSearch([World EXCEPT !.minLon = b.maxLon], MaxResultLimit)
             PROVE  ToSet(west) \cup ToSet(east) = DOMAIN places
  BY DEF BoxesCoverTheWorld
<1> DEFINE rest == [minLat |-> -1, minLon |-> b.maxLon, maxLat |-> 1, maxLon |-> 3]
<1>0. Cardinality(DOMAIN places) <= MaxResultLimit
  OBVIOUS
<1>1. [World EXCEPT !.minLon = b.maxLon] = rest
  BY DEF World
<1>2. b \in [minLat : Int, minLon : Int, maxLat : Int, maxLon : Int] /\ b.minLat <= b.maxLat /\ b.minLon <= b.maxLon
  BY SpatialAssumption
<1>3. rest \in [minLat : Int, minLon : Int, maxLat : Int, maxLon : Int] /\ rest.minLat <= rest.maxLat /\ rest.minLon <= rest.maxLon
  BY <1>2
<1>4. rest.minLat = -1 /\ rest.maxLat = 1 /\ rest.minLon = b.maxLon /\ rest.maxLon = 3
  OBVIOUS
<1> HIDE DEF rest
<1>5. ToSet(west) = {e \in DOMAIN places : /\ places[e][1] >= b.minLat /\ places[e][1] <= b.maxLat
                                           /\ places[e][2] >= b.minLon /\ places[e][2] <= b.maxLon}
  BY <1>0, <1>2, WithinIs
<1>6. ToSet(east) = {e \in DOMAIN places : /\ places[e][1] >= rest.minLat /\ places[e][1] <= rest.maxLat
                                           /\ places[e][2] >= rest.minLon /\ places[e][2] <= rest.maxLon}
  BY <1>0, <1>1, <1>3, WithinIs
<1>7. ASSUME NEW e \in DOMAIN places PROVE e \in ToSet(west) \cup ToSet(east)
  <2>1. places[e][1] \in -1..1 /\ places[e][2] \in -3..3
    BY DEF SpatialInv, Wgs84
  <2> QED BY <1>2, <1>4, <1>5, <1>6, <2>1
<1> QED BY <1>5, <1>6, <1>7

-----------------------------------------------------------------------------
(* The vector index: recursion along sets of states                        *)

(* What holds of the first value of a function and goes on from each value *)
(* to the next holds of all.                                               *)
Carried(F, G, N) == \A i \in 1..N : F[i - 1] \in G[i - 1] => F[i] \in G[i]

LEMMA HoldsAlong ==
    ASSUME NEW N \in Nat, NEW F, NEW G, F[0] \in G[0], Carried(F, G, N)
    PROVE  F[N] \in G[N] /\ \A i \in 0..N : F[i] \in G[i]
<1> DEFINE Bad == {i \in 0..N : F[i] \notin G[i]}
<1>1. ASSUME Bad # {} PROVE FALSE
  <2>1. PICK k \in Bad : \A y \in Bad : k <= y
    <3>1. Bad \in SUBSET Nat
      OBVIOUS
    <3> HIDE DEF Bad
    <3> QED BY <1>1, <3>1, LeastOf
  <2>2. k \in 0..N /\ F[k] \notin G[k]
    BY <2>1, Zenon
  <2>3. k # 0
    BY <2>2
  <2>4. k - 1 \in 0..N /\ ~(k <= k - 1) /\ k \in 1..N
    BY <2>2, <2>3
  <2>5. F[k - 1] \in G[k - 1]
    BY <2>1, <2>4, Zenon
  <2> QED BY <2>2, <2>4, <2>5 DEF Carried
<1>2. \A i \in 0..N : F[i] \in G[i]
  BY <1>1, Zenon
<1>3. N \in 0..N
  OBVIOUS
<1> QED BY <1>2, <1>3

(* A function that starts in the first of a sequence of sets and is led    *)
(* from each to the next exists.                                           *)
SetsWithin(G, V, N) == \A i \in 0..N : G[i] \in SUBSET V

Leads(step, G, N) == \A i \in 1..N : \A s \in G[i - 1] : step[<<i, s>>] \in G[i]

Runs(f, G, V, a, step, N) ==
    /\ f \in [0..N -> V] /\ f[0] = a /\ \A i \in 1..N : f[i] = step[<<i, f[i - 1]>>]
    /\ \A i \in 0..N : f[i] \in G[i]

LEMMA RecursesAlong ==
    ASSUME NEW N \in Nat, NEW V, NEW G, SetsWithin(G, V, N), NEW a, a \in G[0], NEW step, Leads(step, G, N)
    PROVE  \E f : Runs(f, G, V, a, step, N)
<1> USE DEF SetsWithin, Leads
<1> DEFINE go == [p \in Nat \X V |-> IF p[1] \in 1..N /\ p[2] \in G[p[1] - 1] THEN step[p] ELSE p[2]]
<1>1. a \in V
  OBVIOUS
<1>2. go \in [Nat \X V -> V]
  <2> SUFFICES ASSUME NEW i \in Nat, NEW s \in V
               PROVE  (IF i \in 1..N /\ s \in G[i - 1] THEN step[<<i, s>>] ELSE s) \in V
    OBVIOUS
  <2>1. i \in 1..N => i \in 0..N
    OBVIOUS
  <2> QED BY <2>1
<1>3. \A i \in 1..N : \A s \in G[i - 1] : go[<<i, s>>] = step[<<i, s>>]
  <2> SUFFICES ASSUME NEW i \in 1..N, NEW s \in G[i - 1] PROVE go[<<i, s>>] = step[<<i, s>>]
    OBVIOUS
  <2>1. i - 1 \in 0..N /\ i \in Nat
    OBVIOUS
  <2>2. s \in V
    BY <2>1
  <2>3. <<i, s>> \in Nat \X V /\ <<i, s>>[1] = i /\ <<i, s>>[2] = s
    BY <2>1, <2>2
  <2> QED BY <2>3
<1> HIDE DEF go
<1>4. PICK f : Follows(f, V, a, go, N)
  BY <1>1, <1>2, Recurses
<1>5. f \in [0..N -> V] /\ f[0] = a /\ \A i \in 1..N : f[i] = go[<<i, f[i - 1]>>]
  BY <1>4 DEF Follows
<1>6. \A i \in 1..N : f[i - 1] \in G[i - 1] => f[i] \in G[i]
  BY <1>3, <1>5
<1>7. \A i \in 0..N : f[i] \in G[i]
  BY <1>5, <1>6, HoldsAlong DEF Carried
<1>8. \A i \in 1..N : f[i] = step[<<i, f[i - 1]>>]
  <2> SUFFICES ASSUME NEW i \in 1..N PROVE f[i] = step[<<i, f[i - 1]>>]
    OBVIOUS
  <2>1. i - 1 \in 0..N
    OBVIOUS
  <2>2. f[i - 1] \in G[i - 1]
    BY <1>7, <2>1
  <2> QED BY <1>3, <1>5, <2>2
<1> QED BY <1>5, <1>7, <1>8 DEF Runs
-----------------------------------------------------------------------------
(* Distances                                                               *)

NodeRecs == [id : VectorIds, point : Int, level : Nat, deleted : BOOLEAN, links : Seq(Seq(Nat))]

GraphsOf(N) == [1..N -> NodeRecs]

LEMMA CloserOrder ==
    ASSUME NEW N \in Nat, NEW g \in GraphsOf(N), NEW q \in Int
    PROVE  /\ \A i \in 1..N : ~Closer(g, q, i, i)
           /\ \A i, j \in 1..N : i # j => Closer(g, q, i, j) \/ Closer(g, q, j, i)
           /\ \A i, j, k \in 1..N : Closer(g, q, i, j) /\ Closer(g, q, j, k) => Closer(g, q, i, k)
<1>1. \A i \in 1..N : g[i].point \in Int
  BY DEF GraphsOf, NodeRecs
<1>2. \A i \in 1..N : Distance(q, g[i].point) \in Nat
  BY <1>1 DEF Distance
<1> QED BY <1>2 DEF Closer

Nearer(g, q, S, i) == {j \in S : Closer(g, q, j, i)}

LEMMA NearerRanks ==
    ASSUME NEW N \in Nat, NEW g \in GraphsOf(N), NEW q \in Int, NEW S \in SUBSET (1..N)
    PROVE  /\ IsFiniteSet(S) /\ Cardinality(S) \in Nat
           /\ \A k \in 1..Cardinality(S) : \E i \in S : Cardinality(Nearer(g, q, S, i)) = k - 1
           /\ \A i, j \in S : Closer(g, q, i, j) => Cardinality(Nearer(g, q, S, i)) < Cardinality(Nearer(g, q, S, j))
           /\ \A i \in S : Cardinality(Nearer(g, q, S, i)) \in Nat
<1> DEFINE n == Cardinality(S)
           R(i) == Cardinality(Nearer(g, q, S, i))
           f == [i \in S |-> R(i)]
<1>0. IsFiniteSet(S) /\ n \in Nat
  <2>1. IsFiniteSet(1..N)
    BY FS_Interval
  <2> QED BY <2>1, FS_Subset, FS_CardinalityType
<1>1. ASSUME NEW i \in S PROVE Nearer(g, q, S, i) \in SUBSET (S \ {i}) /\ IsFiniteSet(Nearer(g, q, S, i)) /\ R(i) \in 0..(n - 1)
  <2>1. Nearer(g, q, S, i) \in SUBSET (S \ {i})
    BY CloserOrder DEF Nearer
  <2>2. IsFiniteSet(S \ {i}) /\ Cardinality(S \ {i}) = n - 1
    BY <1>0, FS_RemoveElement
  <2>3. IsFiniteSet(Nearer(g, q, S, i)) /\ R(i) <= Cardinality(S \ {i})
    BY <2>1, <2>2, FS_Subset
  <2>4. R(i) \in Nat
    BY <2>3, FS_CardinalityType
  <2> QED BY <1>0, <2>1, <2>2, <2>3, <2>4
<1>2. ASSUME NEW i \in S, NEW j \in S, Closer(g, q, i, j) PROVE R(i) < R(j)
  <2>1. Nearer(g, q, S, i) \in SUBSET Nearer(g, q, S, j)
    BY <1>2, CloserOrder DEF Nearer
  <2>2. i \in Nearer(g, q, S, j) /\ i \notin Nearer(g, q, S, i)
    BY <1>2, CloserOrder DEF Nearer
  <2>3. Nearer(g, q, S, i) # Nearer(g, q, S, j)
    BY <2>2
  <2>4. R(i) <= R(j) /\ R(j) # R(i)
    BY <1>1, <2>1, <2>3, FS_Subset
  <2>5. R(i) \in Nat /\ R(j) \in Nat
    BY <1>1, FS_CardinalityType
  <2> QED BY <2>4, <2>5
<1>3. ASSUME NEW i \in S, NEW j \in S, i # j PROVE R(i) # R(j)
  <2>1. Closer(g, q, i, j) \/ Closer(g, q, j, i)
    BY <1>3, CloserOrder
  <2>2. R(i) < R(j) \/ R(j) < R(i)
    BY <1>2, <2>1
  <2>3. R(i) \in 0..(n - 1) /\ R(j) \in 0..(n - 1)
    BY <1>1, Zenon
  <2> HIDE DEF n, R
  <2> QED BY <1>0, <2>2, <2>3
<1>4. f \in Injection(S, 0..(n - 1))
  <2>1. f \in [S -> 0..(n - 1)]
    BY <1>1
  <2>2. \A i, j \in S : f[i] = f[j] => i = j
    BY <1>3
  <2> HIDE DEF f
  <2> QED BY <2>1, <2>2 DEF Injection, IsInjective
<1>5. IsFiniteSet(0..(n - 1)) /\ Cardinality(0..(n - 1)) = n
  <2>1. n - 1 \in Int /\ (IF 0 > n - 1 THEN 0 ELSE n - 1 - 0 + 1) = n
    BY <1>0
  <2> QED BY <2>1, FS_Interval
<1>6. f \in Surjection(S, 0..(n - 1))
  BY <1>0, <1>4, <1>5, FS_Injection
<1>7. ASSUME NEW k \in 1..n PROVE \E i \in S : R(i) = k - 1
  <2>1. k - 1 \in 0..(n - 1)
    BY <1>0
  <2>2. PICK i \in S : f[i] = k - 1
    BY <1>6, <2>1 DEF Surjection
  <2> QED BY <2>2
<1>8. \A i \in S : R(i) \in Nat
  BY <1>1
<1> QED BY <1>0, <1>2, <1>7, <1>8

(* The nodes of a set, each once, the nearer one first.                    *)
LEMMA ByDistanceIs ==
    ASSUME NEW N \in Nat, NEW g \in GraphsOf(N), NEW q \in Int, NEW S \in SUBSET (1..N)
    PROVE  /\ IsFiniteSet(S) /\ Cardinality(S) \in Nat
           /\ ByDistance(g, q, S) \in Seq(S) /\ Len(ByDistance(g, q, S)) = Cardinality(S)
           /\ \A i, j \in 1..Cardinality(S) : i < j => Closer(g, q, ByDistance(g, q, S)[i], ByDistance(g, q, S)[j])
           /\ ToSet(ByDistance(g, q, S)) = S
<1> DEFINE n == Cardinality(S)
           R(i) == Cardinality(Nearer(g, q, S, i))
           h(k) == CHOOSE i \in S : R(i) = k - 1
           t == ByDistance(g, q, S)
<1>0. IsFiniteSet(S) /\ n \in Nat
  BY NearerRanks
<1>1. t = [k \in 1..n |-> h(k)]
  BY DEF ByDistance, Nearer
<1>2. ASSUME NEW k \in 1..n PROVE h(k) \in S /\ R(h(k)) = k - 1
  <2>1. \E i \in S : R(i) = k - 1
    BY NearerRanks
  <2> QED BY <2>1
<1>3. \A k \in 1..n : t[k] = h(k)
  BY <1>1
<1>4. t \in [1..n -> S]
  BY <1>1, <1>2
<1>5. t \in Seq(S) /\ Len(t) = n
  BY <1>0, <1>4, FunctionIsSeq
<1>6. \A k \in 1..n : t[k] \in S /\ R(t[k]) = k - 1
  BY <1>2, <1>3
<1>7. \A i, j \in S : Closer(g, q, i, j) => R(i) < R(j)
  BY NearerRanks
<1>8. \A i \in S : R(i) \in Nat
  BY NearerRanks
<1> HIDE DEF t, n, h, R
<1>9. ASSUME NEW i \in 1..n, NEW j \in 1..n, i < j PROVE Closer(g, q, t[i], t[j])
  <2>1. t[i] \in 1..N /\ t[j] \in 1..N
    BY <1>6
  <2>2. R(t[i]) = i - 1 /\ R(t[j]) = j - 1
    BY <1>6
  <2>3. t[i] # t[j]
    <3>1. i - 1 # j - 1
      BY <1>9, <1>0
    <3> QED BY <2>2, <3>1
  <2>4. ~Closer(g, q, t[j], t[i])
    <3>1. ~(j - 1 < i - 1)
      BY <1>9, <1>0
    <3> QED BY <1>6, <1>7, <2>2, <3>1
  <2> QED BY <2>1, <2>3, <2>4, CloserOrder
<1>10. ToSet(t) = S
  <2>1. DOMAIN t = 1..n
    BY <1>4
  <2>2. t \in Injection(1..n, S)
    <3>1. \A i, j \in 1..n : t[i] = t[j] => i = j
      <4> SUFFICES ASSUME NEW i \in 1..n, NEW j \in 1..n, t[i] = t[j] PROVE i = j
        OBVIOUS
      <4>1. i - 1 = j - 1
        BY <1>6
      <4> QED BY <4>1, <1>0
    <3> QED BY <1>4, <3>1 DEF Injection, IsInjective
  <2>3. IsFiniteSet(1..n) /\ Cardinality(1..n) = n
    BY <1>0, FS_Interval
  <2>4. t \in Surjection(1..n, S)
    BY <1>0, <2>2, <2>3, FS_Injection DEF n
  <2> QED BY <2>1, <2>4 DEF ToSet, Surjection
<1> QED BY <1>0, <1>5, <1>9, <1>10 DEF t, n

(* A set that is not empty has a nearest and a furthest member.            *)
LEMMA EndsExist ==
    ASSUME NEW N \in Nat, NEW g \in GraphsOf(N), NEW q \in Int, NEW S \in SUBSET (1..N), S # {}
    PROVE  Nearest(g, q, S) \in S /\ Furthest(g, q, S) \in S
<1> DEFINE n == Cardinality(S)
           t == ByDistance(g, q, S)
<1>1. /\ n \in Nat /\ t \in Seq(S) /\ Len(t) = n /\ ToSet(t) = S
      /\ \A i, j \in 1..n : i < j => Closer(g, q, t[i], t[j])
  BY ByDistanceIs
<1> HIDE DEF n, t
<1>2. DOMAIN t = 1..n /\ \A k \in 1..n : t[k] \in S
  BY <1>1
<1>3. \A i \in S : \E k \in 1..n : t[k] = i
  BY <1>1, <1>2 DEF ToSet
<1>4. n # 0
  <2>1. PICK i \in S : TRUE
    OBVIOUS
  <2>2. PICK k \in 1..n : t[k] = i
    BY <1>3
  <2> QED BY <1>1, <2>2
<1>5. \A j \in S \ {t[1]} : Closer(g, q, t[1], j)
  <2> SUFFICES ASSUME NEW j \in S, j # t[1] PROVE Closer(g, q, t[1], j)
    OBVIOUS
  <2>1. PICK k \in 1..n : t[k] = j
    BY <1>3
  <2>2. 1 \in 1..n /\ 1 < k
    BY <1>1, <2>1
  <2> QED BY <1>1, <2>1, <2>2
<1>6. \A j \in S \ {t[n]} : Closer(g, q, j, t[n])
  <2> SUFFICES ASSUME NEW j \in S, j # t[n] PROVE Closer(g, q, j, t[n])
    OBVIOUS
  <2>1. PICK k \in 1..n : t[k] = j
    BY <1>3
  <2>2. n \in 1..n /\ k < n
    BY <1>1, <2>1
  <2> QED BY <1>1, <2>1, <2>2
<1>7. t[1] \in S /\ t[n] \in S
  BY <1>1, <1>2, <1>4
<1> QED BY <1>5, <1>6, <1>7 DEF Nearest, Furthest
-----------------------------------------------------------------------------
(* The search of a layer                                                   *)

(* States of a search that stays in A and returns live nodes; b if some.   *)
Safe(g, A, b) ==
    {s \in [visited : SUBSET A, candidates : SUBSET A, results : SUBSET (A \cap Live(g))] : b => s.results # {}}

LEMMA ConsiderIs ==
    ASSUME NEW N \in Nat, NEW g \in GraphsOf(N), NEW q \in Int, NEW ef \in Nat \ {0}, NEW A \in SUBSET (1..N),
           NEW b \in BOOLEAN, NEW s \in Safe(g, A, b), NEW n \in A
    PROVE  Consider(g, q, ef, s, n) \in Safe(g, A, b)
<1> DEFINE admitted == ~g[n].deleted
                       /\ (Cardinality(s.results) < ef
                           \/ Distance(q, g[n].point) < Distance(q, g[Furthest(g, q, s.results)].point))
           more == IF admitted THEN s.results \cup {n} ELSE s.results
           cut == IF Cardinality(more) > ef THEN more \ {Furthest(g, q, more)} ELSE more
<1>0. s.visited \in SUBSET A /\ s.candidates \in SUBSET A /\ s.results \in SUBSET (A \cap Live(g)) /\ (b => s.results # {})
  BY DEF Safe
<1>1. CASE n \in s.visited
  BY <1>1 DEF Consider
<1>2. CASE n \notin s.visited
  <2>1. Consider(g, q, ef, s, n) = [visited |-> s.visited \cup {n}, candidates |-> s.candidates \cup {n}, results |-> cut]
    BY <1>2 DEF Consider
  <2>2. n \in DOMAIN g
    BY DEF GraphsOf
  <2>3. more \in SUBSET (A \cap Live(g)) /\ (b => more # {})
    <3>1. CASE admitted
      <4>1. n \in Live(g)
        BY <2>2, <3>1 DEF Live
      <4>2. more = s.results \cup {n}
        BY <3>1
      <4> QED BY <1>0, <4>1, <4>2
    <3>2. CASE ~admitted
      <4>1. more = s.results
        BY <3>2
      <4> QED BY <1>0, <4>1
    <3> QED BY <3>1, <3>2
  <2> HIDE DEF admitted, more
  <2>4. cut \in SUBSET (A \cap Live(g))
    BY <2>3
  <2>5. b => cut # {}
    <3> SUFFICES ASSUME b, cut = {} PROVE FALSE
      OBVIOUS
    <3> DEFINE x == Furthest(g, q, more)
    <3>1. Cardinality(more) > ef /\ more \ {x} = {}
      BY <2>3
    <3> HIDE DEF x
    <3>2. more \in SUBSET {x}
      BY <3>1
    <3>3. IsFiniteSet({x}) /\ Cardinality({x}) = 1
      BY FS_Singleton
    <3>4. IsFiniteSet(more) /\ Cardinality(more) <= 1
      BY <3>2, <3>3, FS_Subset
    <3>5. Cardinality(more) \in Nat
      BY <3>4, FS_CardinalityType
    <3> QED BY <3>1, <3>4, <3>5
  <2> HIDE DEF cut
  <2> QED BY <1>0, <2>1, <2>4, <2>5 DEF Safe
<1> QED BY <1>1, <1>2

AfterFn(f, g, q, ef, start, list) ==
    f = [i \in 0..Len(list) |-> IF i = 0 THEN start ELSE Consider(g, q, ef, f[i - 1], list[i])]

(* Considering a list step by step, from one set of states to the next.    *)
LEMMA ConsiderAllAlong ==
    ASSUME NEW g, NEW q, NEW ef, NEW X, NEW list \in Seq(X), NEW V, NEW G, NEW start \in G[0],
           \A i \in 0..Len(list) : G[i] \in SUBSET V,
           \A i \in 1..Len(list) : \A s \in G[i - 1] : Consider(g, q, ef, s, list[i]) \in G[i]
    PROVE  ConsiderAll(g, q, ef, start, list) \in G[Len(list)]
<1> DEFINE N == Len(list)
           step == [p \in (1..N) \X V |-> Consider(g, q, ef, p[2], list[p[1]])]
           F == CHOOSE f : AfterFn(f, g, q, ef, start, list)
<1>0. N \in Nat
  BY LenProperties
<1> HIDE DEF N
<1>1. \A i \in 1..N : \A s \in G[i - 1] : step[<<i, s>>] = Consider(g, q, ef, s, list[i])
  <2> SUFFICES ASSUME NEW i \in 1..N, NEW s \in G[i - 1] PROVE step[<<i, s>>] = Consider(g, q, ef, s, list[i])
    OBVIOUS
  <2>1. i - 1 \in 0..N
    BY <1>0
  <2>2. s \in V
    BY <2>1 DEF N
  <2>3. <<i, s>> \in (1..N) \X V /\ <<i, s>>[1] = i /\ <<i, s>>[2] = s
    BY <2>2
  <2> QED BY <2>3, Zenon
<1> HIDE DEF step
<1>2. Leads(step, G, N)
  BY <1>1 DEF N, Leads
<1>3. SetsWithin(G, V, N) /\ start \in G[0]
  BY DEF N, SetsWithin
<1>4. PICK f : Runs(f, G, V, start, step, N)
  BY <1>0, <1>2, <1>3, RecursesAlong, Zenon
<1>a. /\ f \in [0..N -> V] /\ f[0] = start /\ \A i \in 1..N : f[i] = step[<<i, f[i - 1]>>]
      /\ \A i \in 0..N : f[i] \in G[i]
  BY <1>4 DEF Runs
<1>5. AfterFn(f, g, q, ef, start, list)
  <2>1. ASSUME NEW i \in 0..N PROVE f[i] = IF i = 0 THEN start ELSE Consider(g, q, ef, f[i - 1], list[i])
    <3>1. CASE i = 0
      BY <1>a, <3>1
    <3>2. CASE i # 0
      <4>1. i \in 1..N /\ i - 1 \in 0..N
        BY <1>0, <3>2
      <4> QED BY <1>1, <1>a, <3>2, <4>1
    <3> QED BY <3>1, <3>2
  <2>2. f = [i \in 0..N |-> f[i]]
    BY <1>a, Zenon
  <2>3. f = [i \in 0..N |-> IF i = 0 THEN start ELSE Consider(g, q, ef, f[i - 1], list[i])]
    BY <2>1, <2>2, Zenon
  <2> QED BY <2>3, Zenon DEF AfterFn, N
<1>6. AfterFn(F, g, q, ef, start, list) /\ ConsiderAll(g, q, ef, start, list) = F[N]
  <2>1. AfterFn(F, g, q, ef, start, list)
    BY <1>5, Zenon
  <2> QED BY <2>1, Zenon DEF ConsiderAll, AfterFn, N
<1> HIDE DEF F
<1>7. \A i \in 0..N : F[i] = IF i = 0 THEN start ELSE Consider(g, q, ef, F[i - 1], list[i])
  <2> SUFFICES ASSUME NEW i \in 0..N PROVE F[i] = IF i = 0 THEN start ELSE Consider(g, q, ef, F[i - 1], list[i])
    OBVIOUS
  <2> QED BY <1>6, Zenon DEF AfterFn, N
<1>8. F[0] \in G[0]
  BY <1>0, <1>7
<1>9. Carried(F, G, N)
  <2> SUFFICES ASSUME NEW i \in 1..N, F[i - 1] \in G[i - 1] PROVE F[i] \in G[i]
    BY DEF Carried
  <2>1. i \in 0..N /\ i # 0
    BY <1>0
  <2> QED BY <1>7, <2>1 DEF N
<1>10. F[N] \in G[N]
  BY <1>0, <1>8, <1>9, HoldsAlong, Zenon
<1> QED BY <1>6, <1>10 DEF N

LEMMA ConsiderAllIs ==
    ASSUME NEW N \in Nat, NEW g \in GraphsOf(N), NEW q \in Int, NEW ef \in Nat \ {0}, NEW A \in SUBSET (1..N),
           NEW b \in BOOLEAN, NEW start \in Safe(g, A, b), NEW list \in Seq(A)
    PROVE  ConsiderAll(g, q, ef, start, list) \in Safe(g, A, b)
<1> DEFINE G == [i \in 0..Len(list) |-> Safe(g, A, b)]
<1>1. Len(list) \in Nat /\ \A i \in 1..Len(list) : list[i] \in A
  BY LenProperties, ElementOfSeq
<1>2. \A i \in 0..Len(list) : G[i] = Safe(g, A, b)
  OBVIOUS
<1> HIDE DEF G
<1>3. \A i \in 1..Len(list) : i \in 0..Len(list) /\ i - 1 \in 0..Len(list)
  BY <1>1
<1>4. \A i \in 1..Len(list) : \A s \in G[i - 1] : Consider(g, q, ef, s, list[i]) \in G[i]
  <2> SUFFICES ASSUME NEW i \in 1..Len(list), NEW s \in G[i - 1] PROVE Consider(g, q, ef, s, list[i]) \in G[i]
    OBVIOUS
  <2>1. s \in Safe(g, A, b) /\ G[i] = Safe(g, A, b) /\ list[i] \in A
    BY <1>1, <1>2, <1>3
  <2>2. Consider(g, q, ef, s, list[i]) \in Safe(g, A, b)
    BY <2>1, ConsiderIs, Zenon
  <2> QED BY <2>1, <2>2
<1>5. \A i \in 0..Len(list) : G[i] \in SUBSET Safe(g, A, b)
  BY <1>2
<1>6. start \in G[0] /\ G[Len(list)] = Safe(g, A, b)
  BY <1>1, <1>2
<1>7. ConsiderAll(g, q, ef, start, list) \in G[Len(list)]
  BY <1>4, <1>5, <1>6, ConsiderAllAlong
<1> QED BY <1>6, <1>7

(* The nodes of layer l have their links there to nodes of layer l.        *)
AtLayer(g, l) == {i \in DOMAIN g : g[i].level >= l}

LEMMA ExpandIs ==
    ASSUME NEW N \in Nat, NEW g \in GraphsOf(N), NEW q \in Int, NEW ef \in Nat \ {0}, NEW A \in SUBSET (1..N), NEW l,
           \A i \in A : LinksAt(g, i, l) \in Seq(A), NEW b \in BOOLEAN, NEW s \in Safe(g, A, b)
    PROVE  Expand(g, q, ef, l, s) \in Safe(g, A, b)
<1> DEFINE c == Nearest(g, q, s.candidates)
           r == [s EXCEPT !.candidates = @ \ {c}]
<1>1. CASE Finished(g, q, ef, s)
  BY <1>1 DEF Expand
<1>2. CASE ~Finished(g, q, ef, s)
  <2>1. s.candidates # {} /\ s.candidates \in SUBSET A
    BY <1>2 DEF Finished, Safe
  <2>2. c \in A
    BY <2>1, EndsExist
  <2>3. r \in Safe(g, A, b)
    BY DEF Safe
  <2>4. Expand(g, q, ef, l, s) = ConsiderAll(g, q, ef, r, LinksAt(g, c, l))
    BY <1>2 DEF Expand
  <2> HIDE DEF c, r
  <2> QED BY <2>2, <2>3, <2>4, ConsiderAllIs
<1> QED BY <1>1, <1>2
RoundFn(f, g, q, ef, l, start) ==
    f = [i \in 0..Len(g) |-> IF i = 0 THEN start ELSE Expand(g, q, ef, l, f[i - 1])]

(* The rounds of a search, from one set of states to the next.             *)
ExpandLeads(g, q, ef, l, G, N) == \A i \in 1..N : \A s \in G[i - 1] : Expand(g, q, ef, l, s) \in G[i]

LEMMA ExploreAlong ==
    ASSUME NEW g, NEW q, NEW ef, NEW l, NEW N \in Nat, N = Len(g), NEW V, NEW G, NEW start, start \in G[0], SetsWithin(G, V, N),
           ExpandLeads(g, q, ef, l, G, N)
    PROVE  \E s \in G[N] : Explore(g, q, ef, l, start) = s.results
<1> DEFINE step == [p \in (1..N) \X V |-> Expand(g, q, ef, l, p[2])]
           F == CHOOSE f : RoundFn(f, g, q, ef, l, start)
<1>1. \A i \in 1..N : \A s \in G[i - 1] : step[<<i, s>>] = Expand(g, q, ef, l, s)
  <2> SUFFICES ASSUME NEW i \in 1..N, NEW s \in G[i - 1] PROVE step[<<i, s>>] = Expand(g, q, ef, l, s)
    OBVIOUS
  <2>1. i - 1 \in 0..N
    OBVIOUS
  <2>2. s \in V
    BY <2>1 DEF SetsWithin
  <2>3. <<i, s>> \in (1..N) \X V /\ <<i, s>>[1] = i /\ <<i, s>>[2] = s
    BY <2>2
  <2> QED BY <2>3, Zenon
<1> HIDE DEF step
<1>2. Leads(step, G, N)
  BY <1>1 DEF Leads, ExpandLeads
<1>3. PICK f : Runs(f, G, V, start, step, N)
  BY <1>2, RecursesAlong, Zenon
<1>4. /\ f \in [0..N -> V] /\ f[0] = start /\ \A i \in 1..N : f[i] = step[<<i, f[i - 1]>>]
      /\ \A i \in 0..N : f[i] \in G[i]
  BY <1>3 DEF Runs
<1>5. RoundFn(f, g, q, ef, l, start)
  <2>1. ASSUME NEW i \in 0..N PROVE f[i] = IF i = 0 THEN start ELSE Expand(g, q, ef, l, f[i - 1])
    <3>1. CASE i = 0
      BY <1>4, <3>1
    <3>2. CASE i # 0
      <4>1. i \in 1..N /\ i - 1 \in 0..N
        BY <3>2
      <4>2. f[i - 1] \in G[i - 1] /\ f[i] = step[<<i, f[i - 1]>>]
        BY <1>4, <4>1
      <4> QED BY <1>1, <3>2, <4>1, <4>2
    <3> QED BY <3>1, <3>2
  <2>2. f = [i \in 0..N |-> f[i]]
    BY <1>4, Zenon
  <2>3. f = [i \in 0..N |-> IF i = 0 THEN start ELSE Expand(g, q, ef, l, f[i - 1])]
    BY <2>1, <2>2, Zenon
  <2> QED BY <2>3, Zenon DEF RoundFn
<1>6. RoundFn(F, g, q, ef, l, start)
  BY <1>5, Zenon
<1>7. Explore(g, q, ef, l, start) = F[N].results
  BY <1>6, Zenon DEF Explore, RoundFn
<1> HIDE DEF F
<1>8. \A i \in 0..N : F[i] = IF i = 0 THEN start ELSE Expand(g, q, ef, l, F[i - 1])
  <2> SUFFICES ASSUME NEW i \in 0..N PROVE F[i] = IF i = 0 THEN start ELSE Expand(g, q, ef, l, F[i - 1])
    OBVIOUS
  <2> QED BY <1>6, Zenon DEF RoundFn
<1>9. F[0] \in G[0]
  BY <1>8
<1>10. Carried(F, G, N)
  <2> SUFFICES ASSUME NEW i \in 1..N, F[i - 1] \in G[i - 1] PROVE F[i] \in G[i]
    BY DEF Carried
  <2>1. i \in 0..N /\ i # 0
    OBVIOUS
  <2>2. F[i] = Expand(g, q, ef, l, F[i - 1])
    BY <1>8, <2>1
  <2> QED BY <2>2 DEF ExpandLeads
<1>11. F[N] \in G[N]
  BY <1>9, <1>10, HoldsAlong, Zenon
<1> QED BY <1>7, <1>11

EntriesFn(f, g, q, from, start) ==
    f = [i \in 0..from |-> IF i = 0 THEN start ELSE NextEntries(g, q, f[i - 1], from + 1 - i)]

(* The layers of a descent, from one set of entry points to the next.      *)
LEMMA DescendAlong ==
    ASSUME NEW g, NEW q, NEW from, NEW N \in Nat, N = from, NEW V, NEW G, NEW start \in G[0], SetsWithin(G, V, N),
           \A i \in 1..N : \A s \in G[i - 1] : NextEntries(g, q, s, from + 1 - i) \in G[i]
    PROVE  \A l \in Nat : l < from => Descend(g, q, start, from, l) \in G[from - l]
<1> DEFINE step == [p \in (1..N) \X V |-> NextEntries(g, q, p[2], from + 1 - p[1])]
           F == CHOOSE f : EntriesFn(f, g, q, from, start)
<1>1. \A i \in 1..N : \A s \in G[i - 1] : step[<<i, s>>] = NextEntries(g, q, s, from + 1 - i)
  <2> SUFFICES ASSUME NEW i \in 1..N, NEW s \in G[i - 1] PROVE step[<<i, s>>] = NextEntries(g, q, s, from + 1 - i)
    OBVIOUS
  <2>1. i - 1 \in 0..N
    OBVIOUS
  <2>2. s \in V
    BY <2>1 DEF SetsWithin
  <2>3. <<i, s>> \in (1..N) \X V /\ <<i, s>>[1] = i /\ <<i, s>>[2] = s
    BY <2>2
  <2> QED BY <2>3, Zenon
<1> HIDE DEF step
<1>2. Leads(step, G, N)
  BY <1>1 DEF Leads
<1>3. PICK f : Runs(f, G, V, start, step, N)
  BY <1>2, RecursesAlong, Zenon
<1>4. /\ f \in [0..N -> V] /\ f[0] = start /\ \A i \in 1..N : f[i] = step[<<i, f[i - 1]>>]
      /\ \A i \in 0..N : f[i] \in G[i]
  BY <1>3 DEF Runs
<1>5. EntriesFn(f, g, q, from, start)
  <2>1. ASSUME NEW i \in 0..N PROVE f[i] = IF i = 0 THEN start ELSE NextEntries(g, q, f[i - 1], from + 1 - i)
    <3>1. CASE i = 0
      BY <1>4, <3>1
    <3>2. CASE i # 0
      <4>1. i \in 1..N /\ i - 1 \in 0..N
        BY <3>2
      <4>2. f[i - 1] \in G[i - 1] /\ f[i] = step[<<i, f[i - 1]>>]
        BY <1>4, <4>1
      <4> QED BY <1>1, <3>2, <4>1, <4>2
    <3> QED BY <3>1, <3>2
  <2>2. f = [i \in 0..N |-> f[i]]
    BY <1>4, Zenon
  <2>3. f = [i \in 0..N |-> IF i = 0 THEN start ELSE NextEntries(g, q, f[i - 1], from + 1 - i)]
    BY <2>1, <2>2, Zenon
  <2> QED BY <2>3, Zenon DEF EntriesFn
<1>6. EntriesFn(F, g, q, from, start)
  BY <1>5, Zenon
<1>7. \A l \in Nat : l < from => Descend(g, q, start, from, l) = F[from - l]
  <2> SUFFICES ASSUME NEW l \in Nat, l < from PROVE Descend(g, q, start, from, l) = F[from - l]
    OBVIOUS
  <2>1. ~(from <= l)
    OBVIOUS
  <2> QED BY <1>6, <2>1, Zenon DEF Descend, EntriesFn
<1> HIDE DEF F
<1>8. \A i \in 0..N : F[i] = IF i = 0 THEN start ELSE NextEntries(g, q, F[i - 1], from + 1 - i)
  <2> SUFFICES ASSUME NEW i \in 0..N PROVE F[i] = IF i = 0 THEN start ELSE NextEntries(g, q, F[i - 1], from + 1 - i)
    OBVIOUS
  <2> QED BY <1>6, Zenon DEF EntriesFn
<1>9. F[0] \in G[0]
  BY <1>8
<1>10. Carried(F, G, N)
  <2> SUFFICES ASSUME NEW i \in 1..N, F[i - 1] \in G[i - 1] PROVE F[i] \in G[i]
    BY DEF Carried
  <2>1. i \in 0..N /\ i # 0
    OBVIOUS
  <2>2. F[i] = NextEntries(g, q, F[i - 1], from + 1 - i)
    BY <1>8, <2>1
  <2> QED BY <2>2
<1>11. \A i \in 0..N : F[i] \in G[i]
  BY <1>9, <1>10, HoldsAlong, Zenon
<1>12. \A l \in Nat : l < from => from - l \in 0..N
  OBVIOUS
<1> QED BY <1>7, <1>11, <1>12

DownFn(f, n, top, start) ==
    f = [i \in 0..(top + 1) |-> IF i = 0 THEN start ELSE InsertLayer(f[i - 1], n, top + 1 - i)]

(* The layers of an insertion, from one set of graphs to the next.         *)
InsertLeads(n, top, G, N) == \A i \in 1..N : \A s \in G[i - 1] : InsertLayer(s, n, top + 1 - i) \in G[i]

LEMMA InsertAlong ==
    ASSUME NEW n, NEW top, NEW N \in Nat, N = (top + 1), NEW V, NEW G, NEW start, start \in G[0], SetsWithin(G, V, N),
           InsertLeads(n, top, G, N)
    PROVE  \E s \in G[N] : \A graph, eps : start = [g |-> graph, eps |-> eps] => InsertLayers(graph, n, eps, top) = s.g
<1> DEFINE step == [p \in (1..N) \X V |-> InsertLayer(p[2], n, top + 1 - p[1])]
           F == CHOOSE f : DownFn(f, n, top, start)
<1>1. \A i \in 1..N : \A s \in G[i - 1] : step[<<i, s>>] = InsertLayer(s, n, top + 1 - i)
  <2> SUFFICES ASSUME NEW i \in 1..N, NEW s \in G[i - 1] PROVE step[<<i, s>>] = InsertLayer(s, n, top + 1 - i)
    OBVIOUS
  <2>1. i - 1 \in 0..N
    OBVIOUS
  <2>2. s \in V
    BY <2>1 DEF SetsWithin
  <2>3. <<i, s>> \in (1..N) \X V /\ <<i, s>>[1] = i /\ <<i, s>>[2] = s
    BY <2>2
  <2> QED BY <2>3, Zenon
<1> HIDE DEF step
<1>2. Leads(step, G, N)
  BY <1>1 DEF Leads, InsertLeads
<1>3. PICK f : Runs(f, G, V, start, step, N)
  BY <1>2, RecursesAlong, Zenon
<1>4. /\ f \in [0..N -> V] /\ f[0] = start /\ \A i \in 1..N : f[i] = step[<<i, f[i - 1]>>]
      /\ \A i \in 0..N : f[i] \in G[i]
  BY <1>3 DEF Runs
<1>5. DownFn(f, n, top, start)
  <2>1. ASSUME NEW i \in 0..N PROVE f[i] = IF i = 0 THEN start ELSE InsertLayer(f[i - 1], n, top + 1 - i)
    <3>1. CASE i = 0
      BY <1>4, <3>1
    <3>2. CASE i # 0
      <4>1. i \in 1..N /\ i - 1 \in 0..N
        BY <3>2
      <4>2. f[i - 1] \in G[i - 1] /\ f[i] = step[<<i, f[i - 1]>>]
        BY <1>4, <4>1
      <4> QED BY <1>1, <3>2, <4>1, <4>2
    <3> QED BY <3>1, <3>2
  <2>2. f = [i \in 0..N |-> f[i]]
    BY <1>4, Zenon
  <2>3. f = [i \in 0..N |-> IF i = 0 THEN start ELSE InsertLayer(f[i - 1], n, top + 1 - i)]
    BY <2>1, <2>2, Zenon
  <2> QED BY <2>3, Zenon DEF DownFn
<1>6. DownFn(F, n, top, start)
  BY <1>5, Zenon
<1>7. \A graph, eps : start = [g |-> graph, eps |-> eps] => InsertLayers(graph, n, eps, top) = F[N].g
  BY <1>6, Zenon DEF InsertLayers, DownFn
<1> HIDE DEF F
<1>8. \A i \in 0..N : F[i] = IF i = 0 THEN start ELSE InsertLayer(F[i - 1], n, top + 1 - i)
  <2> SUFFICES ASSUME NEW i \in 0..N PROVE F[i] = IF i = 0 THEN start ELSE InsertLayer(F[i - 1], n, top + 1 - i)
    OBVIOUS
  <2> QED BY <1>6, Zenon DEF DownFn
<1>9. F[0] \in G[0]
  BY <1>8
<1>10. Carried(F, G, N)
  <2> SUFFICES ASSUME NEW i \in 1..N, F[i - 1] \in G[i - 1] PROVE F[i] \in G[i]
    BY DEF Carried
  <2>1. i \in 0..N /\ i # 0
    OBVIOUS
  <2>2. F[i] = InsertLayer(F[i - 1], n, top + 1 - i)
    BY <1>8, <2>1
  <2> QED BY <2>2 DEF InsertLeads
<1>11. F[N] \in G[N]
  BY <1>9, <1>10, HoldsAlong, Zenon
<1> QED BY <1>7, <1>11

LEMMA SeqWiden ==
    ASSUME NEW S, NEW T, S \subseteq T, NEW t \in Seq(S)
    PROVE  t \in Seq(T)
<1>1. Len(t) \in Nat /\ DOMAIN t = 1..Len(t) /\ t = [i \in 1..Len(t) |-> t[i]] /\ \A i \in 1..Len(t) : t[i] \in S
  BY LenProperties, ElementOfSeq
<1>2. t \in [1..Len(t) -> T]
  BY <1>1
<1> QED BY <1>1, <1>2, FunctionIsSeq

LEMMA ExploreIs ==
    ASSUME NEW N \in Nat, NEW g \in GraphsOf(N), NEW q \in Int, NEW ef \in Nat \ {0}, NEW A \in SUBSET (1..N), NEW l,
           \A i \in A : LinksAt(g, i, l) \in Seq(A), NEW b \in BOOLEAN, NEW start \in Safe(g, A, b)
    PROVE  /\ Explore(g, q, ef, l, start) \in SUBSET (A \cap Live(g))
           /\ b => Explore(g, q, ef, l, start) # {}
<1> DEFINE G == [i \in 0..N |-> Safe(g, A, b)]
<1>1. N = Len(g)
  BY FunctionIsSeq DEF GraphsOf
<1>2. \A i \in 0..N : G[i] = Safe(g, A, b)
  OBVIOUS
<1> HIDE DEF G
<1>3. SetsWithin(G, Safe(g, A, b), N)
  BY <1>2 DEF SetsWithin
<1>4. \A s \in Safe(g, A, b) : Expand(g, q, ef, l, s) \in Safe(g, A, b)
  BY ExpandIs
<1>5. ExpandLeads(g, q, ef, l, G, N)
  <2> SUFFICES ASSUME NEW i \in 1..N, NEW s \in G[i - 1] PROVE Expand(g, q, ef, l, s) \in G[i]
    BY DEF ExpandLeads
  <2>1. i \in 0..N /\ i - 1 \in 0..N
    OBVIOUS
  <2> QED BY <1>2, <1>4, <2>1
<1>6. start \in G[0] /\ G[N] = Safe(g, A, b)
  BY <1>2
<1>7. \E s \in G[N] : Explore(g, q, ef, l, start) = s.results
  BY <1>1, <1>3, <1>5, <1>6, ExploreAlong
<1> QED BY <1>6, <1>7 DEF Safe

(* A search of a layer returns live nodes of the layer, the nearest first, *)
(* and some if it started at a live one.                                   *)
LEMMA SearchLayerIs ==
    ASSUME NEW N \in Nat, NEW g \in GraphsOf(N), NEW q \in Int, NEW ef \in Nat \ {0}, NEW A \in SUBSET (1..N), NEW l,
           \A i \in A : LinksAt(g, i, l) \in Seq(A), NEW eps \in SUBSET A
    PROVE  /\ SearchLayer(g, q, eps, ef, l) \in Seq(A \cap Live(g))
           /\ \A i, j \in 1..Len(SearchLayer(g, q, eps, ef, l)) :
                 i < j => Closer(g, q, SearchLayer(g, q, eps, ef, l)[i], SearchLayer(g, q, eps, ef, l)[j])
           /\ eps \cap Live(g) # {} => Len(SearchLayer(g, q, eps, ef, l)) # 0
<1> DEFINE b == eps \cap Live(g) # {}
           start == [visited |-> eps, candidates |-> eps, results |-> eps \cap Live(g)]
           S == Explore(g, q, ef, l, start)
           t == ByDistance(g, q, S)
<1>1. b \in BOOLEAN /\ start \in Safe(g, A, b)
  BY DEF Safe
<1>2. S \in SUBSET (A \cap Live(g)) /\ (b => S # {})
  <2> HIDE DEF b, start
  <2> QED BY <1>1, ExploreIs
<1>3. SearchLayer(g, q, eps, ef, l) = t
  BY DEF SearchLayer
<1> HIDE DEF S
<1>4. /\ Cardinality(S) \in Nat /\ t \in Seq(S) /\ Len(t) = Cardinality(S) /\ ToSet(t) = S
      /\ \A i, j \in 1..Cardinality(S) : i < j => Closer(g, q, t[i], t[j])
  <2>1. S \in SUBSET (1..N)
    BY <1>2
  <2> QED BY <2>1, ByDistanceIs
<1> HIDE DEF t
<1>5. t \in Seq(A \cap Live(g))
  BY <1>2, <1>4, SeqWiden
<1>6. b => Len(t) # 0
  <2> SUFFICES ASSUME b, Len(t) = 0 PROVE FALSE
    OBVIOUS
  <2>1. DOMAIN t = {}
    BY <1>4
  <2> QED BY <1>2, <1>4, <2>1 DEF ToSet
<1> QED BY <1>3, <1>4, <1>5, <1>6

(* Layers of nodes that their links do not leave.                          *)
Layering(g, N, A) ==
    \A l \in Nat : A[l] \in SUBSET (1..N) /\ A[l + 1] \in SUBSET A[l] /\ \A i \in A[l] : LinksAt(g, i, l) \in Seq(A[l])

LEMMA NextEntriesIs ==
    ASSUME NEW N \in Nat, NEW g \in GraphsOf(N), NEW q \in Int, NEW A, Layering(g, N, A), NEW l \in Nat,
           NEW eps \in SUBSET A[l], eps # {}
    PROVE  NextEntries(g, q, eps, l) \in SUBSET A[l] /\ NextEntries(g, q, eps, l) # {}
<1> DEFINE found == SearchLayer(g, q, eps, 1, l)
<1>1. A[l] \in SUBSET (1..N) /\ \A i \in A[l] : LinksAt(g, i, l) \in Seq(A[l])
  BY DEF Layering
<1>2. found \in Seq(A[l] \cap Live(g))
  <2> DEFINE B == A[l]
  <2>1. B \in SUBSET (1..N) /\ (\A i \in B : LinksAt(g, i, l) \in Seq(B)) /\ eps \in SUBSET B /\ 1 \in Nat \ {0}
    BY <1>1
  <2> HIDE DEF B
  <2>2. SearchLayer(g, q, eps, 1, l) \in Seq(B \cap Live(g))
    BY <2>1, SearchLayerIs
  <2> QED BY <2>2 DEF B
<1>3. NextEntries(g, q, eps, l) = IF found = <<>> THEN eps ELSE {found[1]}
  BY DEF NextEntries
<1> HIDE DEF found
<1>4. found # <<>> => found[1] \in A[l]
  BY <1>2
<1> QED BY <1>3, <1>4

LEMMA LayersDown ==
    ASSUME NEW N \in Nat, NEW g, NEW A, Layering(g, N, A), NEW m \in Nat, NEW l \in Nat, m <= l
    PROVE  A[l] \in SUBSET A[m]
<1> DEFINE F == [d \in 0..(l - m) |-> A[m + d]]
           G == [d \in 0..(l - m) |-> SUBSET A[m]]
<1>1. l - m \in Nat
  OBVIOUS
<1>2. F[0] \in G[0]
  OBVIOUS
<1>3. Carried(F, G, l - m)
  <2> SUFFICES ASSUME NEW d \in 1..(l - m), F[d - 1] \in G[d - 1] PROVE F[d] \in G[d]
    BY DEF Carried
  <2>1. d \in 0..(l - m) /\ d - 1 \in 0..(l - m) /\ m + (d - 1) \in Nat /\ (m + (d - 1)) + 1 = m + d
    OBVIOUS
  <2>2. A[(m + (d - 1)) + 1] \in SUBSET A[m + (d - 1)]
    BY <2>1 DEF Layering
  <2> QED BY <2>1, <2>2
<1>4. F[l - m] \in G[l - m]
  <2> HIDE DEF F, G
  <2> QED BY <1>1, <1>2, <1>3, HoldsAlong, Zenon
<1>5. l - m \in 0..(l - m) /\ m + (l - m) = l
  OBVIOUS
<1> QED BY <1>4, <1>5

(* A descent ends with nodes of the layer it leads to.                     *)
LEMMA DescendIs ==
    ASSUME NEW N \in Nat, NEW g \in GraphsOf(N), NEW q \in Int, NEW A, Layering(g, N, A),
           NEW from \in Nat, NEW l \in Nat, NEW eps \in SUBSET A[from], eps # {}
    PROVE  /\ Descend(g, q, eps, from, l) \in SUBSET A[IF l < from THEN l ELSE from]
           /\ Descend(g, q, eps, from, l) # {}
<1> DEFINE G == [k \in 0..from |-> {e \in SUBSET (1..N) : e \subseteq A[from - k] /\ e # {}}]
<1>1. CASE from <= l
  <2>1. Descend(g, q, eps, from, l) = eps /\ ~(l < from)
    BY <1>1 DEF Descend
  <2> QED BY <2>1
<1>2. CASE l < from
  <2>1. \A k \in 0..from : G[k] = {e \in SUBSET (1..N) : e \subseteq A[from - k] /\ e # {}}
    OBVIOUS
  <2> HIDE DEF G
  <2>2. eps \in G[0]
    <3>1. 0 \in 0..from /\ from - 0 = from
      OBVIOUS
    <3>2. A[from] \in SUBSET (1..N)
      BY DEF Layering
    <3> QED BY <2>1, <3>1, <3>2
  <2>3. SetsWithin(G, SUBSET (1..N), from)
    <3> SUFFICES ASSUME NEW k \in 0..from PROVE G[k] \in SUBSET SUBSET (1..N)
      BY DEF SetsWithin
    <3> QED BY <2>1
  <2>4. \A k \in 1..from : \A s \in G[k - 1] : NextEntries(g, q, s, from + 1 - k) \in G[k]
    <3> SUFFICES ASSUME NEW k \in 1..from, NEW s \in G[k - 1] PROVE NextEntries(g, q, s, from + 1 - k) \in G[k]
      OBVIOUS
    <3>1. /\ k - 1 \in 0..from /\ k \in 0..from /\ from - (k - 1) = from + 1 - k
          /\ from + 1 - k \in Nat /\ from - k \in Nat /\ (from - k) + 1 = from + 1 - k
      OBVIOUS
    <3> DEFINE m == from + 1 - k
    <3>2. s \in SUBSET A[m] /\ s # {}
      <4>1. G[k - 1] = {e \in SUBSET (1..N) : e \subseteq A[from - (k - 1)] /\ e # {}}
        BY <2>1, <3>1
      <4>2. s \subseteq A[from - (k - 1)] /\ s # {}
        BY <4>1
      <4> QED BY <3>1, <4>2
    <3>3. NextEntries(g, q, s, m) \in SUBSET A[m] /\ NextEntries(g, q, s, m) # {}
      <4>1. m \in Nat
        BY <3>1
      <4> HIDE DEF m
      <4> QED BY <3>2, <4>1, NextEntriesIs
    <3>4. A[(from - k) + 1] \in SUBSET A[from - k] /\ A[from - k] \in SUBSET (1..N)
      BY <3>1 DEF Layering
    <3>5. G[k] = {e \in SUBSET (1..N) : e \subseteq A[from - k] /\ e # {}}
      BY <2>1, <3>1
    <3>6. (from - k) + 1 = m
      BY <3>1
    <3> HIDE DEF m
    <3>7. NextEntries(g, q, s, m) \in G[k]
      BY <3>3, <3>4, <3>5, <3>6
    <3> QED BY <3>7 DEF m
  <2>5. Descend(g, q, eps, from, l) \in G[from - l]
    <3>1. \A m \in Nat : m < from => Descend(g, q, eps, from, m) \in G[from - m]
      BY <2>2, <2>3, <2>4, DescendAlong
    <3> QED BY <1>2, <3>1
  <2>6. from - l \in 0..from /\ from - (from - l) = l
    BY <1>2
  <2>7. G[from - l] = {e \in SUBSET (1..N) : e \subseteq A[from - (from - l)] /\ e # {}}
    BY <2>1, <2>6
  <2>8. Descend(g, q, eps, from, l) \subseteq A[l] /\ Descend(g, q, eps, from, l) # {}
    BY <2>5, <2>6, <2>7
  <2> QED BY <1>2, <2>8
<1> QED BY <1>1, <1>2

-----------------------------------------------------------------------------
(* A search with room for every node                                       *)

(* While nothing is deleted and there is room, the results are what was    *)
(* visited.                                                                *)
Roomy(v, c) == [visited |-> v, candidates |-> c, results |-> v]

LEMMA ConsiderRoomy ==
    ASSUME NEW N \in Nat, NEW g \in GraphsOf(N), Live(g) = 1..N, NEW q \in Int, NEW ef \in Nat, N <= ef,
           NEW v \in SUBSET (1..N), NEW c \in SUBSET (1..N), NEW n \in 1..N
    PROVE  Consider(g, q, ef, Roomy(v, c), n) = Roomy(v \cup {n}, c \cup ({n} \ v))
<1> DEFINE s == Roomy(v, c)
<1>0. s.visited = v /\ s.candidates = c /\ s.results = v /\ s = Roomy(v, c)
  BY DEF Roomy
<1> HIDE DEF s
<1>1. CASE n \in v
  <2>1. v \cup {n} = v /\ c \cup ({n} \ v) = c
    BY <1>1
  <2>2. Consider(g, q, ef, s, n) = s
    BY <1>0, <1>1 DEF Consider
  <2> QED BY <1>0, <2>1, <2>2
<1>2. CASE n \notin v
  <2>1. IsFiniteSet(1..N) /\ Cardinality(1..N) = N
    BY FS_Interval
  <2>2. IsFiniteSet((1..N) \ {n}) /\ Cardinality((1..N) \ {n}) = N - 1
    BY <2>1, FS_RemoveElement
  <2>3. Cardinality(v) < ef
    <3>1. v \in SUBSET ((1..N) \ {n})
      BY <1>2
    <3>2. IsFiniteSet(v) /\ Cardinality(v) <= Cardinality((1..N) \ {n})
      BY <2>2, <3>1, FS_Subset
    <3>3. Cardinality(v) \in Nat
      BY <3>2, FS_CardinalityType
    <3> QED BY <2>2, <3>2, <3>3
  <2>4. ~(Cardinality(v \cup {n}) > ef)
    <3>1. IsFiniteSet(v \cup {n}) /\ Cardinality(v \cup {n}) <= Cardinality(1..N)
      <4>1. v \cup {n} \in SUBSET (1..N)
        OBVIOUS
      <4> QED BY <2>1, <4>1, FS_Subset
    <3>2. Cardinality(v \cup {n}) \in Nat
      BY <3>1, FS_CardinalityType
    <3> QED BY <2>1, <3>1, <3>2
  <2>5. ~g[n].deleted
    <3>1. n \in Live(g)
      OBVIOUS
    <3> QED BY <3>1 DEF Live
  <2>6. Consider(g, q, ef, s, n) = [visited |-> v \cup {n}, candidates |-> c \cup {n}, results |-> v \cup {n}]
    BY <1>0, <1>2, <2>3, <2>4, <2>5, Zenon DEF Consider
  <2>7. c \cup ({n} \ v) = c \cup {n}
    BY <1>2
  <2> QED BY <1>0, <2>6, <2>7 DEF Roomy
<1> QED BY <1>1, <1>2

LEMMA ConsiderAllRoomy ==
    ASSUME NEW N \in Nat, NEW g \in GraphsOf(N), Live(g) = 1..N, NEW q \in Int, NEW ef \in Nat, N <= ef,
           NEW v \in SUBSET (1..N), NEW c \in SUBSET (1..N), NEW list \in Seq(1..N)
    PROVE  ConsiderAll(g, q, ef, Roomy(v, c), list) = Roomy(v \cup ToSet(list), c \cup (ToSet(list) \ v))
<1> DEFINE m == Len(list)
           L(i) == {list[j] : j \in 1..i}
           at(i) == Roomy(v \cup L(i), c \cup (L(i) \ v))
           G == [i \in 0..m |-> {at(i)}]
           V == {at(i) : i \in 0..m}
<1>0. m \in Nat /\ DOMAIN list = 1..m /\ \A i \in 1..m : list[i] \in 1..N
  BY LenProperties, ElementOfSeq
<1>1. \A i \in 0..m : G[i] = {at(i)} /\ at(i) \in V
  OBVIOUS
<1>2. at(0) = Roomy(v, c)
  <2>1. v \cup L(0) = v /\ c \cup (L(0) \ v) = c
    OBVIOUS
  <2> QED BY <2>1
<1>3. at(m) = Roomy(v \cup ToSet(list), c \cup (ToSet(list) \ v))
  <2>1. L(m) = ToSet(list)
    BY <1>0 DEF ToSet
  <2> QED BY <2>1
<1>4. ASSUME NEW i \in 1..m PROVE Consider(g, q, ef, at(i - 1), list[i]) = at(i)
  <2>1. L(i) = L(i - 1) \cup {list[i]}
    BY <1>0
  <2>2. L(i - 1) \in SUBSET (1..N)
    BY <1>0
  <2> DEFINE w == v \cup L(i - 1)
             d == c \cup (L(i - 1) \ v)
  <2>3. w \in SUBSET (1..N) /\ d \in SUBSET (1..N) /\ list[i] \in 1..N
    BY <1>0, <2>2
  <2>4. w \cup {list[i]} = v \cup L(i) /\ d \cup ({list[i]} \ w) = c \cup (L(i) \ v)
    BY <2>1
  <2>5. Consider(g, q, ef, Roomy(w, d), list[i]) = Roomy(w \cup {list[i]}, d \cup ({list[i]} \ w))
    <3> HIDE DEF w, d, L
    <3> QED BY <2>3, ConsiderRoomy
  <2> HIDE DEF L
  <2> QED BY <2>4, <2>5
<1> HIDE DEF G, V, at, m
<1>5. \A i \in 0..Len(list) : G[i] \in SUBSET V
  BY <1>1 DEF m
<1>6. \A i \in 1..Len(list) : \A s \in G[i - 1] : Consider(g, q, ef, s, list[i]) \in G[i]
  <2> SUFFICES ASSUME NEW i \in 1..m, NEW s \in G[i - 1] PROVE Consider(g, q, ef, s, list[i]) \in G[i]
    BY DEF m
  <2>1. i \in 0..m /\ i - 1 \in 0..m
    BY <1>0
  <2> QED BY <1>1, <1>4, <2>1
<1>7. Roomy(v, c) \in G[0]
  BY <1>0, <1>1, <1>2
<1>8. ConsiderAll(g, q, ef, Roomy(v, c), list) \in G[Len(list)]
  BY <1>5, <1>6, <1>7, ConsiderAllAlong
<1>9. Len(list) \in 0..m /\ Len(list) = m
  BY <1>0 DEF m
<1> QED BY <1>1, <1>3, <1>8, <1>9

(* Every node that is not waiting has had its links considered.            *)
Spread(g, N, l, eps, s) ==
    /\ s.results = s.visited /\ s.candidates \subseteq s.visited /\ eps \subseteq s.visited
    /\ \A i \in s.visited \ s.candidates : ToSet(LinksAt(g, i, l)) \subseteq s.visited

SearchStates(N) == [visited : SUBSET (1..N), candidates : SUBSET (1..N), results : SUBSET (1..N)]

LEMMA WithoutCandidate ==
    ASSUME NEW N, NEW s \in SearchStates(N), s.results = s.visited, NEW x
    PROVE  [s EXCEPT !.candidates = @ \ {x}] = Roomy(s.visited, s.candidates \ {x})
BY DEF Roomy, SearchStates

(* From s to t one more node has had its links considered.                 *)
Grows(g, N, l, eps, s, t) ==
    /\ t \in SearchStates(N) /\ Spread(g, N, l, eps, t)
    /\ Cardinality(t.visited \ t.candidates) = Cardinality(s.visited \ s.candidates) + 1

LEMMA ExpandRoomy ==
    ASSUME NEW N \in Nat, NEW g \in GraphsOf(N), Live(g) = 1..N, NEW q \in Int, NEW ef \in Nat, N <= ef, NEW l,
           \A i \in 1..N : LinksAt(g, i, l) \in Seq(1..N), NEW eps,
           NEW s \in SearchStates(N),
           Spread(g, N, l, eps, s), ~Finished(g, q, ef, s)
    PROVE  Grows(g, N, l, eps, s, Expand(g, q, ef, l, s))
<1> DEFINE v == s.visited
           c == s.candidates
           x == Nearest(g, q, c)
           L == ToSet(LinksAt(g, x, l))
           r == [s EXCEPT !.candidates = @ \ {x}]
           t == Expand(g, q, ef, l, s)
<1>1. v \in SUBSET (1..N) /\ c \in SUBSET v /\ s.results = v /\ c # {} /\ eps \subseteq v
  BY DEF Spread, Finished, SearchStates
<1>2. x \in c
  BY <1>1, EndsExist
<1>3. r = Roomy(v, c \ {x})
  <2>1. s.results = s.visited
    BY <1>1
  <2> HIDE DEF x
  <2> QED BY <2>1, WithoutCandidate
<1>4. LinksAt(g, x, l) \in Seq(1..N) /\ L \in SUBSET (1..N)
  <2>1. LinksAt(g, x, l) \in Seq(1..N)
    BY <1>1, <1>2
  <2>2. ToSet(LinksAt(g, x, l)) \in SUBSET (1..N)
    <3> DEFINE y == LinksAt(g, x, l)
    <3> HIDE DEF y
    <3>1. y \in Seq(1..N) => ToSet(y) \in SUBSET (1..N)
      BY DEF ToSet
    <3> QED BY <2>1, <3>1 DEF y
  <2> QED BY <2>1, <2>2
<1>5. t = ConsiderAll(g, q, ef, r, LinksAt(g, x, l))
  BY DEF Expand
<1>6. t = Roomy(v \cup L, (c \ {x}) \cup (L \ v))
  <2> DEFINE list == LinksAt(g, x, l)
             d == c \ {x}
  <2>1. d \in SUBSET (1..N) /\ list \in Seq(1..N) /\ v \in SUBSET (1..N)
    BY <1>1, <1>4
  <2>2. t = ConsiderAll(g, q, ef, Roomy(v, d), list)
    BY <1>3, <1>5
  <2> HIDE DEF list, d, v, t
  <2>3. ConsiderAll(g, q, ef, Roomy(v, d), list) = Roomy(v \cup ToSet(list), d \cup (ToSet(list) \ v))
    BY <2>1, ConsiderAllRoomy
  <2> QED BY <2>2, <2>3 DEF list, d
<1>7. t.visited = v \cup L /\ t.candidates = (c \ {x}) \cup (L \ v) /\ t.results = v \cup L
      /\ t \in SearchStates(N)
  <2> HIDE DEF t, L, x, v, c
  <2> QED BY <1>1, <1>4, <1>6 DEF Roomy, SearchStates
<1>8. t.visited \ t.candidates = (v \ c) \cup {x}
  <2> HIDE DEF t, L, x, v, c
  <2> QED BY <1>1, <1>2, <1>7
<1>9. Spread(g, N, l, eps, t)
  <2>1. t.results = t.visited /\ t.candidates \subseteq t.visited /\ eps \subseteq t.visited
    <3> HIDE DEF t, L, x, v, c
    <3> QED BY <1>1, <1>7
  <2>2. ASSUME NEW i \in t.visited \ t.candidates PROVE ToSet(LinksAt(g, i, l)) \subseteq t.visited
    <3>1. CASE i = x
      <4> HIDE DEF t, v
      <4> QED BY <1>7, <3>1
    <3>2. CASE i \in v \ c
      <4>1. ToSet(LinksAt(g, i, l)) \subseteq v
        BY <3>2 DEF Spread
      <4> HIDE DEF t, L, v
      <4> QED BY <1>7, <4>1
    <3> HIDE DEF t, L, x, v, c
    <3> QED BY <1>8, <2>2, <3>1, <3>2
  <2> HIDE DEF t
  <2> QED BY <2>1, <2>2 DEF Spread
<1>10. Cardinality((v \ c) \cup {x}) = Cardinality(v \ c) + 1
  <2>1. IsFiniteSet(1..N) /\ v \ c \in SUBSET (1..N)
    BY <1>1, FS_Interval
  <2>2. IsFiniteSet(v \ c)
    BY <2>1, FS_Subset
  <2>3. x \notin v \ c
    BY <1>2
  <2> HIDE DEF v, c, x
  <2> QED BY <2>2, <2>3, FS_AddElement
<1> HIDE DEF t, v, c
<1>11. Cardinality(t.visited \ t.candidates) = Cardinality(v \ c) + 1
  BY <1>8, <1>10
<1> QED BY <1>7, <1>9, <1>11 DEF Grows, t, v, c

(* No part of layer l is cut off.                                          *)
Connected(g, N, l) ==
    \A S \in SUBSET (1..N) : S # {} /\ (\A i \in S : ToSet(LinksAt(g, i, l)) \subseteq S) => S = 1..N

(* No link of layer l leads out of the graph.                              *)
Inside(g, N, l) == \A i \in 1..N : LinksAt(g, i, l) \in Seq(1..N)

LEMMA ExploreRoomy ==
    ASSUME NEW N \in Nat, NEW g \in GraphsOf(N), Live(g) = 1..N, NEW q \in Int, NEW ef \in Nat, N <= ef, NEW l,
           Inside(g, N, l), Connected(g, N, l), NEW eps \in SUBSET (1..N), eps # {}
    PROVE  Explore(g, q, ef, l, Roomy(eps, eps)) = 1..N
<1> DEFINE V == SearchStates(N)
           P(k, s) == Spread(g, N, l, eps, s) /\ (Finished(g, q, ef, s) \/ Cardinality(s.visited \ s.candidates) >= k)
           G == [k \in 0..N |-> {s \in V : P(k, s)}]
           start == Roomy(eps, eps)
<1>0. IsFiniteSet(1..N) /\ Cardinality(1..N) = N /\ Len(g) = N
  BY FS_Interval, FunctionIsSeq DEF GraphsOf
<1>1. \A k \in 0..N : G[k] = {s \in V : P(k, s)}
  OBVIOUS
<1> HIDE DEF G
<1>2. start \in G[0]
  <2>1. start \in V /\ Spread(g, N, l, eps, start)
    BY DEF Spread, SearchStates, Roomy
  <2>2. start.visited \ start.candidates = {}
    BY DEF Roomy
  <2>3. Cardinality(start.visited \ start.candidates) = 0
    BY <2>2, FS_EmptySet
  <2> HIDE DEF start, V
  <2>4. P(0, start)
    BY <2>1, <2>3
  <2> HIDE DEF P
  <2> QED BY <1>1, <2>1, <2>4
<1>3. SetsWithin(G, V, N)
  BY <1>1 DEF SetsWithin
<1>4. ExpandLeads(g, q, ef, l, G, N)
  <2> SUFFICES ASSUME NEW k \in 1..N, NEW s \in G[k - 1] PROVE Expand(g, q, ef, l, s) \in G[k]
    BY DEF ExpandLeads
  <2>1. k \in 0..N /\ k - 1 \in 0..N
    OBVIOUS
  <2>2. s \in V /\ P(k - 1, s)
    BY <1>1, <2>1
  <2>3. CASE Finished(g, q, ef, s)
    <3>1. Expand(g, q, ef, l, s) = s
      BY <2>3 DEF Expand
    <3>2. s \in V /\ P(k, s)
      BY <2>2, <2>3
    <3> QED BY <1>1, <2>1, <3>1, <3>2
  <2>4. CASE ~Finished(g, q, ef, s)
    <3> DEFINE t == Expand(g, q, ef, l, s)
    <3>1. /\ t \in V /\ Spread(g, N, l, eps, t)
          /\ Cardinality(t.visited \ t.candidates) = Cardinality(s.visited \ s.candidates) + 1
      <4>1. s \in SearchStates(N) /\ Spread(g, N, l, eps, s)
        BY <2>2
      <4>2. Grows(g, N, l, eps, s, Expand(g, q, ef, l, s))
        BY <2>4, <4>1, ExpandRoomy DEF Inside
      <4> QED BY <4>2 DEF Grows
    <3>2. Cardinality(s.visited \ s.candidates) >= k - 1 /\ Cardinality(s.visited \ s.candidates) \in Nat
      <4>1. s.visited \ s.candidates \in SUBSET (1..N)
        BY <2>2 DEF SearchStates
      <4>2. IsFiniteSet(s.visited \ s.candidates)
        BY <1>0, <4>1, FS_Subset
      <4> QED BY <2>2, <2>4, <4>2, FS_CardinalityType
    <3> HIDE DEF t, V
    <3>3. Cardinality(t.visited \ t.candidates) >= k
      BY <3>1, <3>2
    <3>4. t \in V /\ P(k, t)
      BY <3>1, <3>3
    <3>5. t \in G[k]
      BY <1>1, <2>1, <3>4
    <3> QED BY <3>5 DEF t
  <2> QED BY <2>3, <2>4
<1>5. PICK s \in G[N] : Explore(g, q, ef, l, start) = s.results
  <2>1. N = Len(g)
    BY <1>0
  <2> HIDE DEF V, P, start
  <2>2. ASSUME NEW st, st \in G[0] PROVE \E s \in G[N] : Explore(g, q, ef, l, st) = s.results
    BY <2>1, <2>2, <1>3, <1>4, ExploreAlong, SMTT(30)
  <2> QED BY <1>2, <2>2, Zenon
<1>6. s \in V /\ P(N, s)
  <2> HIDE DEF V, P
  <2>1. G[N] = {x \in V : P(N, x)}
    <3>1. N \in 0..N
      OBVIOUS
    <3> QED BY <1>1, <3>1
  <2> QED BY <2>1
<1>7. s.visited \in SUBSET (1..N) /\ s.candidates \in SUBSET s.visited /\ s.results = s.visited /\ eps \subseteq s.visited
  BY <1>6 DEF Spread, SearchStates
<1>8. s.candidates = {} => s.visited = 1..N
  <2> SUFFICES ASSUME s.candidates = {} PROVE s.visited = 1..N
    OBVIOUS
  <2>1. \A i \in s.visited : ToSet(LinksAt(g, i, l)) \subseteq s.visited
    BY <1>6 DEF Spread
  <2> QED BY <1>7, <2>1 DEF Connected
<1>9. ASSUME NEW S \in SUBSET (1..N), Cardinality(S) >= N PROVE S = 1..N
  <2>0. IsFiniteSet(S) /\ Cardinality(S) <= Cardinality(1..N) /\ (Cardinality(1..N) = Cardinality(S) => 1..N = S)
    BY <1>0, FS_Subset
  <2>1. Cardinality(S) \in Nat /\ Cardinality(S) <= N /\ (Cardinality(S) = N => S = 1..N)
    BY <1>0, <2>0, FS_CardinalityType
  <2> QED BY <1>9, <2>1
<1>10. s.visited = 1..N
  <2>1. CASE Finished(g, q, ef, s)
    <3>1. s.candidates = {} \/ Cardinality(s.visited) >= ef
      BY <1>7, <2>1 DEF Finished
    <3>2. Cardinality(s.visited) \in Nat
      BY <1>0, <1>7, FS_Subset, FS_CardinalityType
    <3>3. Cardinality(s.visited) >= ef => Cardinality(s.visited) >= N
      BY <3>2
    <3> QED BY <1>7, <1>8, <1>9, <3>1, <3>3
  <2>2. CASE Cardinality(s.visited \ s.candidates) >= N
    <3>1. s.visited \ s.candidates = 1..N
      BY <1>7, <1>9, <2>2
    <3>2. s.candidates = {}
      BY <1>7, <3>1
    <3> QED BY <1>8, <3>2
  <2> QED BY <1>6, <2>1, <2>2
<1> QED BY <1>5, <1>7, <1>10

-----------------------------------------------------------------------------
(* Links                                                                   *)

LEMMA TruncatedIs ==
    ASSUME NEW S, NEW s \in Seq(S), NEW k \in Nat
    PROVE  /\ Truncated(s, k) \in Seq(S) /\ Len(Truncated(s, k)) = (IF Len(s) < k THEN Len(s) ELSE k)
           /\ \A i \in 1..Len(Truncated(s, k)) : i \in 1..Len(s) /\ Truncated(s, k)[i] = s[i]
<1> DEFINE m == IF Len(s) < k THEN Len(s) ELSE k
<1>0. Len(s) \in Nat /\ m \in Nat /\ m <= Len(s)
  BY LenProperties
<1>1. Truncated(s, k) = SubSeq(s, 1, m)
  BY DEF Truncated
<1> HIDE DEF m
<1>2. 1 \in 1..(Len(s) + 1) /\ m \in (1 - 1)..Len(s)
  BY <1>0
<1>3. SubSeq(s, 1, m) \in Seq(S) /\ Len(SubSeq(s, 1, m)) = m - 1 + 1 /\ \A i \in 1..(m - 1 + 1) : SubSeq(s, 1, m)[i] = s[1 + i - 1]
  BY <1>2, SubSeqIs
<1>4. m - 1 + 1 = m /\ \A i \in 1..m : 1 + i - 1 = i /\ i \in 1..Len(s)
  BY <1>0
<1> QED BY <1>1, <1>3, <1>4 DEF m

LEMMA SortedOnce ==
    ASSUME NEW N \in Nat, NEW g \in GraphsOf(N), NEW q \in Int, NEW s \in Seq(1..N),
           \A i, j \in 1..Len(s) : i < j => Closer(g, q, s[i], s[j])
    PROVE  IsInjective(s)
<1>1. Len(s) \in Nat /\ DOMAIN s = 1..Len(s) /\ \A i \in 1..Len(s) : s[i] \in 1..N
  BY LenProperties, ElementOfSeq
<1> SUFFICES ASSUME NEW i \in 1..Len(s), NEW j \in 1..Len(s), s[i] = s[j] PROVE i = j
  BY <1>1 DEF IsInjective
<1>2. ~(i < j) /\ ~(j < i)
  BY <1>1, CloserOrder
<1> QED BY <1>1, <1>2

(* A list of links of node i at layer l.                                   *)
ListOK(g, i, l, list) ==
    list \in Seq(AtLayer(g, l) \ {i}) /\ Len(list) <= CapacityAt(l) /\ IsInjective(list)

WellLinked(g, N) ==
    \A i \in 1..N : /\ Len(g[i].links) = g[i].level + 1
                    /\ \A l \in 0..g[i].level : ListOK(g, i, l, LinksAt(g, i, l))

LEMMA CapacityIs == ASSUME NEW l \in Nat PROVE CapacityAt(l) \in Nat /\ CapacityAt(0) # 0
BY VectorAssumption DEF CapacityAt

LEMMA LinkedIs ==
    ASSUME NEW N \in Nat, NEW g \in GraphsOf(N), NEW l \in Nat, NEW i \in 1..N, ListOK(g, i, l, LinksAt(g, i, l)),
           NEW n \in AtLayer(g, l), n # i, n \notin ToSet(LinksAt(g, i, l))
    PROVE  /\ ListOK(g, i, l, Linked(g, i, n, l))
           /\ Len(LinksAt(g, i, l)) < CapacityAt(l) =>
                /\ ToSet(LinksAt(g, i, l)) \subseteq ToSet(Linked(g, i, n, l)) /\ n \in ToSet(Linked(g, i, n, l))
                /\ ToSet(Linked(g, i, n, l)) \subseteq ToSet(LinksAt(g, i, l)) \cup {n}
<1> DEFINE old == LinksAt(g, i, l)
           A == AtLayer(g, l) \ {i}
           list == Append(old, n)
           C == CapacityAt(l)
<1>0. C \in Nat
  BY CapacityIs
<1>1. A \in SUBSET (1..N) /\ n \in A /\ old \in Seq(A) /\ Len(old) <= C /\ IsInjective(old) /\ n \notin ToSet(old)
  BY DEF AtLayer, GraphsOf, ListOK
<1>2. Linked(g, i, n, l) = IF Len(list) <= C THEN list ELSE Truncated(ByDistance(g, g[i].point, ToSet(list)), C)
  BY DEF Linked
<1>3. g[i].point \in Int
  BY DEF GraphsOf, NodeRecs
<1> HIDE DEF old, A, C
<1>4. Len(old) \in Nat /\ DOMAIN old = 1..Len(old) /\ \A j \in 1..Len(old) : old[j] \in A
  BY <1>1, LenProperties, ElementOfSeq
<1>5. list \in Seq(A) /\ Len(list) = Len(old) + 1
  BY <1>1, <1>4, AppendProperties
<1>6. DOMAIN list = 1..(Len(old) + 1) /\ (\A j \in 1..Len(old) : list[j] = old[j]) /\ list[Len(old) + 1] = n
  BY <1>1, <1>4, <1>5, AppendProperties
<1> HIDE DEF list
<1>7. ToSet(list) = ToSet(old) \cup {n}
  <2>1. ToSet(list) = {list[j] : j \in 1..(Len(old) + 1)} /\ ToSet(old) = {old[j] : j \in 1..Len(old)}
    BY <1>4, <1>6 DEF ToSet
  <2>2. 1..(Len(old) + 1) = 1..Len(old) \cup {Len(old) + 1}
    BY <1>4
  <2> QED BY <1>6, <2>1, <2>2
<1>8. CASE Len(list) <= C
  <2>1. IsInjective(list)
    <3> SUFFICES ASSUME NEW j \in 1..(Len(old) + 1), NEW k \in 1..(Len(old) + 1), list[j] = list[k] PROVE j = k
      BY <1>6 DEF IsInjective
    <3>1. \A m \in 1..Len(old) : old[m] # n
      BY <1>1, <1>4 DEF ToSet
    <3>2. CASE j \in 1..Len(old) /\ k \in 1..Len(old)
      BY <1>1, <1>4, <1>6, <3>2 DEF IsInjective
    <3>3. CASE ~(j \in 1..Len(old) /\ k \in 1..Len(old))
      <4>1. j = Len(old) + 1 \/ k = Len(old) + 1
        BY <1>4, <3>3
      <4>2. j # k => (j \in 1..Len(old) /\ k = Len(old) + 1) \/ (k \in 1..Len(old) /\ j = Len(old) + 1)
        BY <1>4, <4>1
      <4> QED BY <1>6, <3>1, <4>2
    <3> QED BY <3>2, <3>3
  <2>2. Linked(g, i, n, l) = list
    BY <1>2, <1>8
  <2> QED BY <1>5, <1>7, <1>8, <2>1, <2>2 DEF ListOK, A, C, old
<1>9. CASE ~(Len(list) <= C)
  <2> DEFINE D == ToSet(list)
             t == ByDistance(g, g[i].point, D)
             r == Truncated(t, C)
  <2>1. D \in SUBSET (1..N) /\ D \in SUBSET A
    BY <1>1, <1>4, <1>7 DEF ToSet
  <2>2. /\ Cardinality(D) \in Nat /\ t \in Seq(D) /\ Len(t) = Cardinality(D)
        /\ \A j, k \in 1..Cardinality(D) : j < k => Closer(g, g[i].point, t[j], t[k])
    <3> HIDE DEF D
    <3> QED BY <1>3, <2>1, ByDistanceIs
  <2>3. Linked(g, i, n, l) = r
    BY <1>2, <1>9
  <2> HIDE DEF D, t
  <2>4. r \in Seq(D) /\ Len(r) = (IF Len(t) < C THEN Len(t) ELSE C) /\ \A j \in 1..Len(r) : j \in 1..Len(t) /\ r[j] = t[j]
    BY <1>0, <2>2, TruncatedIs
  <2> HIDE DEF r
  <2>5. Len(r) <= C
    BY <1>0, <2>2, <2>4
  <2>6. r \in Seq(A) /\ r \in Seq(1..N)
    BY <2>1, <2>4, SeqWiden
  <2>7. IsInjective(r)
    <3>1. \A j, k \in 1..Len(r) : j < k => Closer(g, g[i].point, r[j], r[k])
      BY <2>2, <2>4
    <3> QED BY <1>3, <2>6, <3>1, SortedOnce
  <2>8. ~(Len(old) < C)
    BY <1>0, <1>4, <1>5, <1>9
  <2> QED BY <2>3, <2>5, <2>6, <2>7, <2>8 DEF ListOK, A, C, old
<1> QED BY <1>8, <1>9

LEMMA WithLinksIs ==
    ASSUME NEW node \in NodeRecs, NEW l \in Nat, l < Len(node.links), NEW list \in Seq(Nat)
    PROVE  LET w == WithLinks(node, l, list) IN
           /\ w \in NodeRecs
           /\ w.id = node.id /\ w.point = node.point /\ w.level = node.level /\ w.deleted = node.deleted
           /\ Len(w.links) = Len(node.links)
           /\ \A k \in 1..Len(node.links) : w.links[k] = IF k = l + 1 THEN list ELSE node.links[k]
<1> DEFINE m == Len(node.links)
           new == [k \in 1..m |-> IF k = l + 1 THEN list ELSE node.links[k]]
<1>1. m \in Nat /\ \A k \in 1..m : node.links[k] \in Seq(Nat)
  BY LenProperties, ElementOfSeq DEF NodeRecs
<1>2. new \in [1..m -> Seq(Nat)]
  BY <1>1
<1>3. new \in Seq(Seq(Nat)) /\ Len(new) = m
  <2> HIDE DEF new, m
  <2> QED BY <1>1, <1>2, FunctionIsSeq
<1>4. WithLinks(node, l, list) = [node EXCEPT !.links = new]
  <2>1. (IF Len(node.links) > l THEN Len(node.links) ELSE l + 1) = m
    BY <1>1
  <2>2. new = [k \in 1..m |-> IF k = l + 1 THEN list ELSE IF k <= Len(node.links) THEN node.links[k] ELSE <<>>]
    BY <1>1
  <2> HIDE DEF new, m
  <2> QED BY <2>1, <2>2, Zenon DEF WithLinks
<1>5. \A k \in 1..m : new[k] = IF k = l + 1 THEN list ELSE node.links[k]
  OBVIOUS
<1> HIDE DEF new
<1> QED BY <1>3, <1>4, <1>5 DEF NodeRecs

(* A node of h that has got a new list at layer l.                         *)
Relinked(node, new, l, list) ==
    /\ new \in NodeRecs
    /\ new.id = node.id /\ new.point = node.point /\ new.level = node.level /\ new.deleted = node.deleted
    /\ Len(new.links) = Len(node.links)
    /\ \A k \in 1..Len(node.links) : new.links[k] = IF k = l + 1 THEN list ELSE node.links[k]

SameNodes(g, h, N) ==
    \A i \in 1..N : g[i].id = h[i].id /\ g[i].point = h[i].point /\ g[i].level = h[i].level /\ g[i].deleted = h[i].deleted

(* The lists of layer l once n has been connected to the selected nodes.   *)
NewList(h, n, selected, l, i) ==
    IF i = n THEN selected ELSE IF i \in ToSet(selected) THEN Linked(h, i, n, l) ELSE LinksAt(h, i, l)

LEMMA ConnectIs ==
    ASSUME NEW N \in Nat, NEW h \in GraphsOf(N), WellLinked(h, N), NEW l \in Nat, NEW n \in AtLayer(h, l),
           NEW selected, ListOK(h, n, l, selected), \A i \in 1..N : n \notin ToSet(LinksAt(h, i, l))
    PROVE  LET c == Connect(h, n, selected, l) IN
           /\ c \in GraphsOf(N) /\ SameNodes(h, c, N) /\ WellLinked(c, N)
           /\ \A i \in 1..N : \A m \in Nat : LinksAt(c, i, m) = IF m = l THEN NewList(h, n, selected, l, i) ELSE LinksAt(h, i, m)
<1> DEFINE c == Connect(h, n, selected, l)
           touched == {n} \cup ToSet(selected)
           new(i) == NewList(h, n, selected, l, i)
<1>1. DOMAIN h = 1..N /\ n \in 1..N /\ l <= h[n].level
  BY DEF GraphsOf, AtLayer
<1>2. selected \in Seq(AtLayer(h, l) \ {n}) /\ ToSet(selected) \in SUBSET (AtLayer(h, l) \ {n})
  <2>1. selected \in Seq(AtLayer(h, l) \ {n})
    BY DEF ListOK
  <2>2. \A A : selected \in Seq(A) => ToSet(selected) \in SUBSET A
    BY DEF ToSet
  <2> QED BY <2>1, <2>2
<1>3. touched \in SUBSET (1..N) /\ \A i \in touched : l \in 0..h[i].level /\ h[i].level \in Nat
  <2>1. \A i \in AtLayer(h, l) : i \in 1..N /\ h[i].level >= l
    BY <1>1 DEF AtLayer
  <2>2. \A i \in 1..N : h[i].level \in Nat
    BY DEF GraphsOf, NodeRecs
  <2> QED BY <1>2, <2>1, <2>2
<1>4. ASSUME NEW i \in 1..N PROVE h[i] \in NodeRecs /\ Len(h[i].links) = h[i].level + 1 /\ h[i].level \in Nat
  BY DEF GraphsOf, NodeRecs, WellLinked
<1>5. ASSUME NEW i \in touched PROVE ListOK(h, i, l, new(i))
  <2>1. CASE i = n
    BY <2>1 DEF NewList
  <2>2. CASE i # n
    <3>1. i \in ToSet(selected) /\ i \in 1..N /\ l \in 0..h[i].level
      BY <1>3, <2>2
    <3>2. ListOK(h, i, l, LinksAt(h, i, l))
      BY <3>1 DEF WellLinked
    <3>3. n \in AtLayer(h, l) /\ n # i /\ n \notin ToSet(LinksAt(h, i, l))
      BY <2>2, <3>1
    <3>4. ListOK(h, i, l, Linked(h, i, n, l))
      BY <3>1, <3>2, <3>3, LinkedIs
    <3> QED BY <2>2, <3>1, <3>4 DEF NewList
  <2> QED BY <2>1, <2>2
<1>6. ASSUME NEW i \in touched PROVE c[i] = WithLinks(h[i], l, new(i)) /\ Relinked(h[i], c[i], l, new(i))
  <2>1. i \in 1..N
    BY <1>3
  <2>2. c[i] = WithLinks(h[i], l, new(i))
    BY <1>1, <2>1, Zenon DEF Connect, NewList
  <2>3. new(i) \in Seq(Nat)
    <3>1. new(i) \in Seq(AtLayer(h, l) \ {i})
      BY <1>5 DEF ListOK
    <3>2. AtLayer(h, l) \ {i} \subseteq Nat
      BY <1>1 DEF AtLayer
    <3> HIDE DEF new
    <3> QED BY <3>1, <3>2, SeqWiden
  <2>4. h[i] \in NodeRecs /\ l < Len(h[i].links)
    BY <1>3, <1>4, <2>1
  <2> HIDE DEF new, c
  <2> QED BY <2>2, <2>3, <2>4, WithLinksIs DEF Relinked
<1>7. ASSUME NEW i \in 1..N, i \notin touched PROVE c[i] = h[i] /\ new(i) = LinksAt(h, i, l)
  <2>1. i # n /\ i \notin ToSet(selected)
    BY <1>7
  <2> QED BY <1>1, <2>1, Zenon DEF Connect, NewList
<1>8. \A i \in 1..N : c[i] \in NodeRecs
  BY <1>4, <1>6, <1>7 DEF Relinked
<1>9. c \in GraphsOf(N)
  <2>1. c = [i \in 1..N |-> c[i]]
    BY <1>1 DEF Connect
  <2> HIDE DEF c
  <2> QED BY <1>8, <2>1 DEF GraphsOf
<1>10. SameNodes(h, c, N)
  BY <1>6, <1>7 DEF Relinked, SameNodes
<1>11. ASSUME NEW i \in 1..N, NEW m \in Nat PROVE LinksAt(c, i, m) = IF m = l THEN new(i) ELSE LinksAt(h, i, m)
  <2>1. CASE i \in touched
    <3>1. l < Len(h[i].links)
      BY <1>3, <1>4, <2>1
    <3>2. h[i] \in NodeRecs /\ Relinked(h[i], c[i], l, new(i))
      BY <1>4, <1>6, <2>1
    <3> HIDE DEF new, c
    <3>3. CASE m < Len(h[i].links)
      <4>1. m + 1 \in 1..Len(h[i].links) /\ (m + 1 = l + 1 <=> m = l)
        BY <1>4, <3>3
      <4>2. LinksAt(c, i, m) = c[i].links[m + 1] /\ LinksAt(h, i, m) = h[i].links[m + 1]
        BY <3>2, <3>3 DEF LinksAt, Relinked
      <4> QED BY <3>2, <4>1, <4>2 DEF Relinked
    <3>4. CASE ~(m < Len(h[i].links))
      <4>1. m # l
        BY <3>1, <3>4
      <4> QED BY <3>2, <3>4, <4>1 DEF LinksAt, Relinked
    <3> QED BY <3>3, <3>4
  <2>2. CASE i \notin touched
    BY <1>7, <2>2 DEF LinksAt
  <2> QED BY <2>1, <2>2
<1>12. \A m \in Nat : AtLayer(c, m) = AtLayer(h, m)
  BY <1>1, <1>9, <1>10 DEF AtLayer, SameNodes, GraphsOf
<1>13. WellLinked(c, N)
  <2> SUFFICES ASSUME NEW i \in 1..N
               PROVE  Len(c[i].links) = c[i].level + 1 /\ \A m \in 0..c[i].level : ListOK(c, i, m, LinksAt(c, i, m))
    BY DEF WellLinked
  <2>1. Len(c[i].links) = Len(h[i].links) /\ c[i].level = h[i].level
    BY <1>6, <1>7 DEF Relinked
  <2>2. ASSUME NEW m \in 0..c[i].level PROVE ListOK(c, i, m, LinksAt(c, i, m))
    <3>0. m \in Nat /\ m \in 0..h[i].level
      BY <1>4, <2>1
    <3>1. ListOK(h, i, m, LinksAt(h, i, m))
      BY <3>0 DEF WellLinked
    <3>2. ListOK(h, i, m, LinksAt(c, i, m))
      <4>1. LinksAt(c, i, m) = IF m = l THEN new(i) ELSE LinksAt(h, i, m)
        BY <1>11, <3>0
      <4>2. i \notin touched => new(i) = LinksAt(h, i, l)
        BY <1>7
      <4>3. i \in touched => ListOK(h, i, l, new(i))
        BY <1>5
      <4> HIDE DEF new, c, touched
      <4> QED BY <3>1, <4>1, <4>2, <4>3
    <3>3. AtLayer(c, m) = AtLayer(h, m)
      BY <1>12, <3>0
    <3> HIDE DEF new, c
    <3> QED BY <3>2, <3>3, Zenon DEF ListOK
  <2> QED BY <1>4, <2>1, <2>2
<1> HIDE DEF c
<1>14. \A i \in 1..N : \A m \in Nat : LinksAt(c, i, m) = IF m = l THEN NewList(h, n, selected, l, i) ELSE LinksAt(h, i, m)
  BY <1>11
<1> QED BY <1>9, <1>10, <1>13, <1>14 DEF c

-----------------------------------------------------------------------------
(* Insertion                                                               *)

(* A graph whose last node has no links and that no link leads to.         *)
Fresh(g, N) ==
    /\ g \in GraphsOf(N) /\ WellLinked(g, N)
    /\ \A l \in Nat : LinksAt(g, N, l) = <<>> /\ \A i \in 1..N : N \notin ToSet(LinksAt(g, i, l))

Older(g, N, l) == AtLayer(g, l) \ {N}

LEMMA FreshLayers ==
    ASSUME NEW N \in Nat \ {0}, NEW g, Fresh(g, N)
    PROVE  Layering(g, N, [l \in Nat |-> Older(g, N, l)])
<1> DEFINE A == [l \in Nat |-> Older(g, N, l)]
<1>0. g \in GraphsOf(N) /\ DOMAIN g = 1..N /\ \A i \in 1..N : g[i].level \in Nat
  BY DEF Fresh, GraphsOf, NodeRecs
<1>1. \A l \in Nat : A[l] = {i \in 1..N : g[i].level >= l} \ {N}
  BY <1>0 DEF Older, AtLayer
<1>2. ASSUME NEW l \in Nat, NEW i \in A[l] PROVE LinksAt(g, i, l) \in Seq(A[l])
  <2>1. i \in 1..N /\ l \in 0..g[i].level /\ g[i].level \in Nat
    BY <1>0, <1>1, <1>2
  <2> DEFINE list == LinksAt(g, i, l)
  <2>2. list \in Seq(AtLayer(g, l) \ {i}) /\ N \notin ToSet(list)
    BY <2>1 DEF Fresh, WellLinked, ListOK
  <2> HIDE DEF list
  <2>3. Len(list) \in Nat /\ DOMAIN list = 1..Len(list) /\ \A k \in 1..Len(list) : list[k] \in AtLayer(g, l) \ {i}
    BY <2>2, LenProperties, ElementOfSeq
  <2>4. \A k \in 1..Len(list) : list[k] \in Older(g, N, l)
    BY <2>2, <2>3 DEF Older, ToSet
  <2>5. list \in [1..Len(list) -> Older(g, N, l)]
    BY <2>2, <2>3, <2>4
  <2>6. list \in Seq(Older(g, N, l))
    BY <2>3, <2>5, FunctionIsSeq
  <2> QED BY <2>6 DEF list
<1>3. \A l \in Nat : A[l] \in SUBSET (1..N) /\ A[l + 1] \in SUBSET A[l]
  <2> SUFFICES ASSUME NEW l \in Nat PROVE A[l] \in SUBSET (1..N) /\ A[l + 1] \in SUBSET A[l]
    OBVIOUS
  <2>1. l + 1 \in Nat
    OBVIOUS
  <2>2. \A i \in 1..N : g[i].level >= l + 1 => g[i].level >= l
    BY <1>0
  <2> HIDE DEF A
  <2> QED BY <1>1, <2>1, <2>2
<1> HIDE DEF A
<1>4. Layering(g, N, A)
  BY <1>2, <1>3 DEF Layering
<1> QED BY <1>4 DEF A

(* Layer 0 once N has been inserted: N is linked, both ways where nothing  *)
(* was pruned, and the other lists are as they were.                       *)
NodeJoined(g, h, N) ==
    /\ LinksAt(h, N, 0) \in Seq(1..(N - 1))
    /\ Live(g) = 1..N => ToSet(LinksAt(h, N, 0)) # {}
    /\ \A i \in 1..(N - 1) : i \notin ToSet(LinksAt(h, N, 0)) => LinksAt(h, i, 0) = LinksAt(g, i, 0)
    /\ \A i \in ToSet(LinksAt(h, N, 0)) : Len(LinksAt(g, i, 0)) < CapacityAt(0) =>
           ToSet(LinksAt(h, i, 0)) = ToSet(LinksAt(g, i, 0)) \cup {N}

(* The insertion once k layers from top down are done.                     *)
HalfWay(g, N, top, k, s) ==
    /\ SameNodes(g, s.g, N) /\ WellLinked(s.g, N)
    /\ \A i \in 1..N : \A l \in Nat : l <= top - k => LinksAt(s.g, i, l) = LinksAt(g, i, l)
    /\ s.eps # {} /\ \A e \in s.eps : g[e].level >= top - k
    /\ k = top + 1 => NodeJoined(g, s.g, N)

InsertStates(N) == [g : GraphsOf(N), eps : SUBSET (1..(N - 1))]

LEMMA SameLayers ==
    ASSUME NEW N \in Nat, NEW g \in GraphsOf(N), NEW h \in GraphsOf(N), SameNodes(g, h, N)
    PROVE  Live(h) = Live(g) /\ \A l : AtLayer(h, l) = AtLayer(g, l)
<1>1. DOMAIN g = 1..N /\ DOMAIN h = 1..N
  BY DEF GraphsOf
<1> QED BY <1>1 DEF SameNodes, Live, AtLayer

LEMMA InsertLayerIs ==
    ASSUME NEW N \in Nat \ {0}, NEW g, Fresh(g, N), NEW top \in Nat, top <= g[N].level,
           entry \in 1..(N - 1), g[entry].level >= top,
           NEW k \in 1..(top + 1), NEW s \in InsertStates(N), HalfWay(g, N, top, k - 1, s)
    PROVE  LET t == InsertLayer(s, N, top + 1 - k) IN t \in InsertStates(N) /\ HalfWay(g, N, top, k, t)
<1> DEFINE l == top + 1 - k
           A == [j \in Nat |-> Older(g, N, j)]
           B == Older(g, N, l)
           h == s.g
           q == h[N].point
           found == SearchLayer(h, q, s.eps, EfConstruction, l)
           C == CapacityAt(l)
           sel == Truncated(found, C)
           c == Connect(h, N, sel, l)
           eps == IF found = <<>> THEN {entry} ELSE ToSet(found)
<1>0. l \in Nat /\ l <= top /\ N \in 1..N /\ top - (k - 1) = l /\ top - k = l - 1 /\ (k = top + 1 <=> l = 0)
  OBVIOUS
<1>1. /\ g \in GraphsOf(N) /\ h \in GraphsOf(N) /\ SameNodes(g, h, N) /\ WellLinked(h, N)
      /\ s.eps \in SUBSET (1..(N - 1)) /\ s.eps # {} /\ (\A e \in s.eps : g[e].level >= l)
      /\ \A i \in 1..N : \A m \in Nat : m <= l => LinksAt(h, i, m) = LinksAt(g, i, m)
  BY <1>0 DEF Fresh, InsertStates, HalfWay
<1>2. Live(h) = Live(g) /\ \A m : AtLayer(h, m) = AtLayer(g, m)
  BY <1>1, SameLayers
<1>3. B \in SUBSET (1..(N - 1)) /\ B \in SUBSET (1..N) /\ B = AtLayer(h, l) \ {N} /\ (\A i \in B : LinksAt(g, i, l) \in Seq(B))
  <2>1. Layering(g, N, A)
    BY FreshLayers
  <2>2. A[l] = B
    BY <1>0
  <2>3. B \in SUBSET (1..N) /\ \A i \in B : LinksAt(g, i, l) \in Seq(B)
    <3> HIDE DEF l, A, B
    <3> QED BY <1>0, <2>1, <2>2 DEF Layering
  <2>4. N \notin B /\ B = AtLayer(h, l) \ {N}
    BY <1>2 DEF Older
  <2> HIDE DEF B
  <2> QED BY <2>3, <2>4
<1> HIDE DEF l
<1>4. \A i \in B : LinksAt(h, i, l) \in Seq(B)
  BY <1>0, <1>1, <1>3
<1>5. s.eps \in SUBSET B
  <2>1. DOMAIN g = 1..N
    BY <1>1 DEF GraphsOf
  <2> QED BY <1>1, <2>1 DEF Older, AtLayer
<1>6. q \in Int /\ EfConstruction \in Nat \ {0} /\ C \in Nat
  BY <1>0, <1>1, VectorAssumption, CapacityIs DEF GraphsOf, NodeRecs
<1>7. /\ found \in Seq(B \cap Live(h))
      /\ \A i, j \in 1..Len(found) : i < j => Closer(h, q, found[i], found[j])
      /\ s.eps \cap Live(h) # {} => Len(found) # 0
  <2> HIDE DEF B, q, h
  <2> QED BY <1>1, <1>3, <1>4, <1>5, <1>6, SearchLayerIs
<1> HIDE DEF found, B, q, h, C
<1>8. /\ sel \in Seq(B \cap Live(h)) /\ Len(sel) = (IF Len(found) < C THEN Len(found) ELSE C)
      /\ \A i \in 1..Len(sel) : i \in 1..Len(found) /\ sel[i] = found[i]
  BY <1>6, <1>7, TruncatedIs
<1> HIDE DEF sel
<1>9. ListOK(h, N, l, sel)
  <2>1. sel \in Seq(B) /\ sel \in Seq(1..N)
    BY <1>3, <1>8, SeqWiden
  <2>2. Len(sel) <= C
    BY <1>6, <1>7, <1>8
  <2>3. IsInjective(sel)
    <3>1. \A i, j \in 1..Len(sel) : i < j => Closer(h, q, sel[i], sel[j])
      BY <1>7, <1>8
    <3> QED BY <1>1, <1>6, <2>1, <3>1, SortedOnce
  <2> QED BY <1>3, <2>1, <2>2, <2>3 DEF ListOK, C
<1>10. N \in AtLayer(h, l)
  <2>1. DOMAIN g = 1..N /\ g[N].level \in Nat
    BY <1>0, <1>1 DEF GraphsOf, NodeRecs
  <2>2. N \in AtLayer(g, l)
    BY <1>0, <2>1 DEF AtLayer
  <2> QED BY <1>2, <2>2
<1>11. \A i \in 1..N : N \notin ToSet(LinksAt(h, i, l))
  <2>1. \A i \in 1..N : LinksAt(h, i, l) = LinksAt(g, i, l)
    BY <1>0, <1>1
  <2> QED BY <1>0, <2>1 DEF Fresh
<1>12. /\ c \in GraphsOf(N) /\ SameNodes(h, c, N) /\ WellLinked(c, N)
       /\ \A i \in 1..N : \A m \in Nat : LinksAt(c, i, m) = IF m = l THEN NewList(h, N, sel, l, i) ELSE LinksAt(h, i, m)
  BY <1>0, <1>1, <1>9, <1>10, <1>11, ConnectIs
<1>13. InsertLayer(s, N, l) = [g |-> c, eps |-> eps]
  BY DEF InsertLayer, h, q, found, sel, C
<1> HIDE DEF c
<1>14. eps \in SUBSET (1..(N - 1)) /\ eps # {} /\ \A e \in eps : g[e].level >= l
  <2>1. CASE found = <<>>
    <3>1. eps = {entry}
      BY <2>1
    <3>2. g[entry].level \in Nat
      BY <1>1 DEF GraphsOf, NodeRecs
    <3>3. g[entry].level >= l
      BY <1>0, <3>2
    <3> HIDE DEF eps
    <3> QED BY <3>1, <3>3
  <2>2. CASE found # <<>>
    <3>1. eps = ToSet(found)
      BY <2>2
    <3>2. ToSet(found) \in SUBSET B
      BY <1>7 DEF ToSet
    <3>3. ToSet(found) # {}
      <4>1. Len(found) \in Nat /\ Len(found) # 0 /\ DOMAIN found = 1..Len(found)
        BY <1>7, <2>2, LenProperties, EmptySeq
      <4>2. 1 \in DOMAIN found
        BY <4>1
      <4> QED BY <4>2 DEF ToSet
    <3>4. \A e \in B : e \in 1..(N - 1) /\ g[e].level >= l
      BY <1>3 DEF B, Older, AtLayer
    <3> QED BY <3>1, <3>2, <3>3, <3>4
  <2> QED BY <2>1, <2>2
<1> HIDE DEF eps
<1>15. SameNodes(g, c, N)
  BY <1>1, <1>12 DEF SameNodes
<1>16. \A i \in 1..N : \A m \in Nat : m <= top - k => LinksAt(c, i, m) = LinksAt(g, i, m)
  <2> SUFFICES ASSUME NEW i \in 1..N, NEW m \in Nat, m <= l - 1 PROVE LinksAt(c, i, m) = LinksAt(g, i, m)
    BY <1>0
  <2>1. m # l /\ m <= l
    BY <1>0
  <2> QED BY <1>1, <1>12, <2>1
<1>17. ASSUME l = 0 PROVE NodeJoined(g, c, N)
  <2>1. \A i \in 1..N : LinksAt(c, i, 0) = NewList(h, N, sel, 0, i) /\ LinksAt(h, i, 0) = LinksAt(g, i, 0)
    BY <1>1, <1>12, <1>17
  <2>2. LinksAt(c, N, 0) = sel
    BY <1>0, <2>1 DEF NewList
  <2>3. sel \in Seq(1..(N - 1))
    BY <1>3, <1>8, SeqWiden
  <2>4. ToSet(sel) \in SUBSET (1..(N - 1))
    BY <2>3 DEF ToSet
  <2>5. Live(g) = 1..N => ToSet(sel) # {}
    <3> SUFFICES ASSUME Live(g) = 1..N PROVE ToSet(sel) # {}
      OBVIOUS
    <3>1. s.eps \cap Live(h) # {}
      BY <1>1, <1>2
    <3>2. Len(found) \in Nat /\ Len(found) # 0
      BY <1>7, <3>1, LenProperties
    <3>3. C # 0
      BY <1>17, CapacityIs DEF C
    <3>4. Len(sel) \in Nat /\ Len(sel) # 0 /\ DOMAIN sel = 1..Len(sel)
      BY <1>6, <1>8, <3>2, <3>3, LenProperties
    <3>5. 1 \in DOMAIN sel
      BY <3>4
    <3> QED BY <3>5 DEF ToSet
  <2>6. ASSUME NEW i \in 1..(N - 1), i \notin ToSet(sel) PROVE LinksAt(c, i, 0) = LinksAt(g, i, 0)
    <3>1. i \in 1..N /\ i # N
      OBVIOUS
    <3> QED BY <2>1, <2>6, <3>1 DEF NewList
  <2>7. ASSUME NEW i \in ToSet(sel), Len(LinksAt(g, i, 0)) < CapacityAt(0)
        PROVE  ToSet(LinksAt(c, i, 0)) = ToSet(LinksAt(g, i, 0)) \cup {N}
    <3>1. i \in 1..N /\ i # N
      BY <2>4
    <3>2. LinksAt(c, i, 0) = Linked(h, i, N, 0) /\ LinksAt(h, i, 0) = LinksAt(g, i, 0)
      BY <2>1, <2>7, <3>1 DEF NewList
    <3>3. ListOK(h, i, 0, LinksAt(h, i, 0))
      <4>1. 0 \in 0..h[i].level
        BY <1>1, <3>1 DEF GraphsOf, NodeRecs
      <4> QED BY <1>1, <3>1, <4>1 DEF WellLinked
    <3>4. N \in AtLayer(h, 0) /\ N \notin ToSet(LinksAt(h, i, 0))
      BY <1>10, <1>11, <1>17, <3>1
    <3>5. /\ ToSet(LinksAt(h, i, 0)) \subseteq ToSet(Linked(h, i, N, 0)) /\ N \in ToSet(Linked(h, i, N, 0))
          /\ ToSet(Linked(h, i, N, 0)) \subseteq ToSet(LinksAt(h, i, 0)) \cup {N}
      <4>1. Len(LinksAt(h, i, 0)) < CapacityAt(0) /\ 0 \in Nat
        BY <2>7, <3>2
      <4> QED BY <1>1, <3>1, <3>3, <3>4, <4>1, LinkedIs
    <3> QED BY <3>2, <3>5
  <2> QED BY <2>2, <2>3, <2>5, <2>6, <2>7 DEF NodeJoined
<1>18. HalfWay(g, N, top, k, [g |-> c, eps |-> eps])
  <2>1. \A e \in eps : g[e].level >= top - k
    <3> SUFFICES ASSUME NEW e \in eps PROVE g[e].level >= l - 1
      BY <1>0
    <3>1. e \in 1..N
      BY <1>14
    <3>2. g[e].level \in Nat
      BY <1>1, <3>1 DEF GraphsOf, NodeRecs
    <3> QED BY <1>0, <1>14, <3>2
  <2>2. k = top + 1 => NodeJoined(g, c, N)
    BY <1>0, <1>17
  <2> QED BY <1>12, <1>14, <1>15, <1>16, <2>1, <2>2 DEF HalfWay
<1>19. [g |-> c, eps |-> eps] \in InsertStates(N)
  BY <1>12, <1>14 DEF InsertStates
<1> QED BY <1>13, <1>18, <1>19 DEF l

LEMMA InsertIs ==
    ASSUME NEW N \in Nat \ {0}, NEW g, Fresh(g, N), NEW top \in Nat, top <= g[N].level,
           entry \in 1..(N - 1), g[entry].level >= top,
           NEW eps \in SUBSET (1..(N - 1)), eps # {}, \A e \in eps : g[e].level >= top
    PROVE  LET h == InsertLayers(g, N, eps, top) IN
           h \in GraphsOf(N) /\ SameNodes(g, h, N) /\ WellLinked(h, N) /\ NodeJoined(g, h, N)
<1> DEFINE G == [k \in 0..(top + 1) |-> {s \in InsertStates(N) : HalfWay(g, N, top, k, s)}]
           start == [g |-> g, eps |-> eps]
           m == top + 1
           h == InsertLayers(g, N, eps, top)
<1>0. m \in Nat /\ m # 0 /\ g \in GraphsOf(N)
  BY DEF Fresh
<1>1. \A k \in 0..m : G[k] = {s \in InsertStates(N) : HalfWay(g, N, top, k, s)}
  OBVIOUS
<1> HIDE DEF G
<1>2. start \in G[0]
  <2>1. start \in InsertStates(N)
    BY <1>0 DEF InsertStates
  <2>2. SameNodes(g, g, N) /\ WellLinked(g, N) /\ top - 0 = top
    BY DEF SameNodes, Fresh
  <2>3. HalfWay(g, N, top, 0, start)
    BY <1>0, <2>2 DEF HalfWay
  <2>4. 0 \in 0..m
    BY <1>0
  <2> HIDE DEF start
  <2> QED BY <1>1, <2>1, <2>3, <2>4
<1>3. SetsWithin(G, InsertStates(N), m)
  <2> SUFFICES ASSUME NEW k \in 0..m PROVE G[k] \in SUBSET InsertStates(N)
    BY DEF SetsWithin
  <2> QED BY <1>1
<1>4. ASSUME NEW k \in 1..m, NEW s \in G[k - 1] PROVE InsertLayer(s, N, top + 1 - k) \in G[k]
  <2>1. k \in 0..m /\ k - 1 \in 0..m /\ k \in 1..(top + 1)
    BY <1>0
  <2>2. G[k - 1] = {x \in InsertStates(N) : HalfWay(g, N, top, k - 1, x)} /\ G[k] = {x \in InsertStates(N) : HalfWay(g, N, top, k, x)}
    BY <1>1, <2>1
  <2>3. s \in InsertStates(N) /\ HalfWay(g, N, top, k - 1, s)
    BY <2>2
  <2>4. InsertLayer(s, N, top + 1 - k) \in InsertStates(N) /\ HalfWay(g, N, top, k, InsertLayer(s, N, top + 1 - k))
    BY <2>1, <2>3, InsertLayerIs
  <2> QED BY <2>2, <2>4
<1>a. InsertLeads(N, top, G, m)
  BY <1>4 DEF InsertLeads
<1>5. PICK s \in G[m] : \A graph, e : start = [g |-> graph, eps |-> e] => InsertLayers(graph, N, e, top) = s.g
  <2> HIDE DEF start
  <2>1. m = top + 1
    OBVIOUS
  <2> HIDE DEF m
  <2>2. ASSUME NEW st, st \in G[0]
        PROVE  \E s \in G[m] : \A graph, e : st = [g |-> graph, eps |-> e] => InsertLayers(graph, N, e, top) = s.g
    BY <1>0, <1>3, <1>a, <2>1, <2>2, InsertAlong, SMTT(30)
  <2> QED BY <1>2, <2>2, Zenon
<1>6. h = s.g
  BY <1>5
<1>7. s \in InsertStates(N) /\ HalfWay(g, N, top, top + 1, s)
  <2>1. m \in 0..m
    BY <1>0
  <2> QED BY <1>1, <1>5, <2>1
<1> HIDE DEF h
<1>8. h \in GraphsOf(N) /\ SameNodes(g, h, N) /\ WellLinked(h, N) /\ NodeJoined(g, h, N)
  BY <1>6, <1>7 DEF HalfWay, InsertStates
<1> QED BY <1>8 DEF h

(* The graph with a new node and the same links as before.                 *)
LEMMA PushedIs ==
    ASSUME nodes \in Seq(NodeRecs), WellLinked(nodes, Len(nodes)), NEW id \in VectorIds, NEW p \in Int, NEW level \in Nat
    PROVE  LET g == Pushed(id, p, level)  N == Len(nodes) + 1 IN
           /\ Len(nodes) \in Nat /\ nodes \in GraphsOf(Len(nodes))
           /\ Fresh(g, N) /\ (\A i \in 1..Len(nodes) : g[i] = nodes[i]) /\ g[N].level = level
           /\ Live(g) = Live(nodes) \cup {N}
           /\ g[N].point = p
<1> DEFINE M == Len(nodes)
           N == M + 1
           new == [id |-> id, point |-> p, level |-> level, deleted |-> FALSE, links |-> [k \in 1..(level + 1) |-> <<>>]]
           g == Pushed(id, p, level)
<1>1. M \in Nat /\ nodes \in GraphsOf(M) /\ DOMAIN nodes = 1..M
  BY LenProperties DEF GraphsOf
<1>2. new.links \in Seq(Seq(Nat)) /\ Len(new.links) = level + 1 /\ \A k \in 1..(level + 1) : new.links[k] = <<>>
  <2> DEFINE ls == [k \in 1..(level + 1) |-> <<>>]
  <2>1. ls \in [1..(level + 1) -> Seq(Nat)] /\ level + 1 \in Nat /\ \A k \in 1..(level + 1) : ls[k] = <<>>
    OBVIOUS
  <2>2. new.links = ls
    OBVIOUS
  <2> HIDE DEF ls, new
  <2>3. ls \in Seq(Seq(Nat)) /\ Len(ls) = level + 1
    BY <2>1, FunctionIsSeq
  <2> QED BY <2>1, <2>2, <2>3
<1>3. new.id = id /\ new.point = p /\ new.level = level /\ new.deleted = FALSE
  OBVIOUS
<1>4. new \in NodeRecs
  <2> DEFINE ls == [k \in 1..(level + 1) |-> <<>>]
  <2>1. ls \in Seq(Seq(Nat))
    BY <1>2
  <2>2. new = [id |-> id, point |-> p, level |-> level, deleted |-> FALSE, links |-> ls]
    OBVIOUS
  <2> HIDE DEF ls, new
  <2> QED BY <2>1, <2>2 DEF NodeRecs
<1>5. g = Append(nodes, new)
  BY DEF Pushed
<1> HIDE DEF new
<1>6. g \in Seq(NodeRecs) /\ Len(g) = N /\ (\A i \in 1..M : g[i] = nodes[i]) /\ g[N] = new
  BY <1>1, <1>4, <1>5, AppendProperties
<1> HIDE DEF g
<1>7. g \in GraphsOf(N) /\ DOMAIN g = 1..N /\ 1..N = 1..M \cup {N} /\ N \in 1..N /\ N \notin 1..M
  BY <1>1, <1>6, LenProperties DEF GraphsOf
<1>8. \A l \in Nat : AtLayer(nodes, l) \subseteq AtLayer(g, l)
  BY <1>1, <1>6, <1>7 DEF AtLayer
<1>9. \A i \in 1..M : \A l \in Nat : LinksAt(g, i, l) = LinksAt(nodes, i, l)
  BY <1>6 DEF LinksAt
<1>10. \A l \in Nat : LinksAt(g, N, l) = <<>>
  <2> SUFFICES ASSUME NEW l \in Nat PROVE LinksAt(g, N, l) = <<>>
    OBVIOUS
  <2>1. l < level + 1 => l + 1 \in 1..(level + 1)
    OBVIOUS
  <2> QED BY <1>2, <1>6, <2>1 DEF LinksAt
<1>11. ASSUME NEW i \in 1..M, NEW l \in 0..nodes[i].level PROVE ListOK(nodes, i, l, LinksAt(nodes, i, l))
  BY DEF WellLinked
<1>12. \A i \in 1..M : nodes[i].level \in Nat /\ Len(nodes[i].links) = nodes[i].level + 1
  BY <1>1 DEF WellLinked, GraphsOf, NodeRecs
<1>13. WellLinked(g, N)
  <2> SUFFICES ASSUME NEW i \in 1..N
               PROVE  Len(g[i].links) = g[i].level + 1 /\ \A l \in 0..g[i].level : ListOK(g, i, l, LinksAt(g, i, l))
    BY DEF WellLinked
  <2>1. CASE i = N
    <3>1. Len(g[i].links) = g[i].level + 1
      BY <1>2, <1>3, <1>6, <2>1
    <3>2. ASSUME NEW l \in 0..g[i].level PROVE ListOK(g, i, l, LinksAt(g, i, l))
      <4>1. l \in Nat
        BY <1>3, <1>6, <2>1
      <4>2. LinksAt(g, i, l) = <<>> /\ CapacityAt(l) \in Nat
        BY <1>10, <2>1, <4>1, CapacityIs
      <4>3. \A A : <<>> \in Seq(A) /\ Len(<<>>) = 0 /\ IsInjective(<<>>)
        BY DEF IsInjective
      <4> QED BY <4>2, <4>3 DEF ListOK
    <3> QED BY <3>1, <3>2
  <2>2. CASE i \in 1..M
    <3>1. Len(g[i].links) = g[i].level + 1
      BY <1>6, <1>12, <2>2
    <3>2. ASSUME NEW l \in 0..g[i].level PROVE ListOK(g, i, l, LinksAt(g, i, l))
      <4>1. l \in Nat /\ l \in 0..nodes[i].level
        BY <1>6, <1>12, <2>2
      <4>2. ListOK(nodes, i, l, LinksAt(nodes, i, l)) /\ LinksAt(g, i, l) = LinksAt(nodes, i, l)
        BY <1>9, <1>11, <2>2, <4>1
      <4>3. LinksAt(g, i, l) \in Seq(AtLayer(nodes, l) \ {i})
        BY <4>2 DEF ListOK
      <4>4. AtLayer(nodes, l) \ {i} \subseteq AtLayer(g, l) \ {i}
        BY <1>8, <4>1
      <4>5. LinksAt(g, i, l) \in Seq(AtLayer(g, l) \ {i})
        BY <4>3, <4>4, SeqWiden
      <4> QED BY <4>2, <4>5 DEF ListOK
    <3> QED BY <3>1, <3>2
  <2> QED BY <1>7, <2>1, <2>2
<1>14. ASSUME NEW l \in Nat, NEW i \in 1..N PROVE N \notin ToSet(LinksAt(g, i, l))
  <2>1. CASE i = N \/ nodes[i].level < l
    <3>1. LinksAt(g, i, l) = <<>>
      <4>1. CASE i = N
        BY <1>10, <4>1
      <4>2. CASE i # N
        <5>1. i \in 1..M /\ nodes[i].level < l
          BY <1>7, <2>1, <4>2
        <5>2. ~(l < Len(nodes[i].links))
          BY <1>12, <5>1
        <5> QED BY <1>9, <5>1, <5>2 DEF LinksAt
      <4> QED BY <4>1, <4>2
    <3>2. ToSet(<<>>) = {}
      BY DEF ToSet
    <3> QED BY <3>1, <3>2
  <2>2. CASE i # N /\ ~(nodes[i].level < l)
    <3>1. i \in 1..M
      BY <1>7, <2>2
    <3>2. l \in 0..nodes[i].level
      BY <1>12, <2>2, <3>1
    <3>3. LinksAt(g, i, l) \in Seq(AtLayer(nodes, l) \ {i})
      BY <1>9, <1>11, <3>1, <3>2 DEF ListOK
    <3>4. AtLayer(nodes, l) \ {i} \subseteq 1..M
      BY <1>1 DEF AtLayer
    <3>5. LinksAt(g, i, l) \in Seq(1..M)
      BY <3>3, <3>4, SeqWiden
    <3>6. ToSet(LinksAt(g, i, l)) \subseteq 1..M
      BY <3>5 DEF ToSet
    <3> QED BY <1>7, <3>6
  <2> QED BY <2>1, <2>2
<1>15. Fresh(g, N)
  BY <1>7, <1>10, <1>13, <1>14 DEF Fresh
<1>16. Live(g) = Live(nodes) \cup {N}
  BY <1>1, <1>3, <1>6, <1>7 DEF Live
<1> QED BY <1>1, <1>3, <1>6, <1>15, <1>16 DEF g

(* Inserting a node where nothing is pruned cuts off no part of layer 0.   *)
LEMMA JoinedConnected ==
    ASSUME NEW N \in Nat \ {0}, NEW g, NEW h, NodeJoined(g, h, N), Live(g) = 1..N, Connected(g, N - 1, 0),
           \A i \in ToSet(LinksAt(h, N, 0)) : Len(LinksAt(g, i, 0)) < CapacityAt(0),
           \A i \in 1..(N - 1) : ToSet(LinksAt(g, i, 0)) \subseteq 1..(N - 1)
    PROVE  Connected(h, N, 0)
<1> DEFINE L(i) == ToSet(LinksAt(g, i, 0))
           K(i) == ToSet(LinksAt(h, i, 0))
<1>1. K(N) \in SUBSET (1..(N - 1)) /\ K(N) # {}
  BY DEF NodeJoined, ToSet
<1>2. \A i \in 1..(N - 1) : i \in K(N) => K(i) = L(i) \cup {N}
  BY DEF NodeJoined
<1>3. \A i \in 1..(N - 1) : L(i) \subseteq K(i)
  BY <1>2 DEF NodeJoined
<1>4. 1..N = 1..(N - 1) \cup {N} /\ N \notin 1..(N - 1)
  OBVIOUS
<1>5. ASSUME NEW S \in SUBSET (1..N), S # {}, \A i \in S : K(i) \subseteq S PROVE S = 1..N
  <2> DEFINE T == S \ {N}
  <2>1. T \in SUBSET (1..(N - 1))
    BY <1>4
  <2>2. T # {}
    BY <1>1, <1>4, <1>5
  <2>3. \A i \in T : L(i) \subseteq T
    BY <1>3, <1>4, <1>5, <2>1
  <2>4. T = 1..(N - 1)
    <3> HIDE DEF T
    <3> QED BY <2>1, <2>2, <2>3 DEF Connected
  <2>5. PICK m \in 1..(N - 1) : m \in K(N)
    BY <1>1
  <2>6. N \in K(m) /\ m \in S
    BY <1>2, <2>4, <2>5
  <2>7. N \in S
    BY <1>5, <2>6
  <2> QED BY <1>4, <2>4, <2>7
<1> QED BY <1>5 DEF Connected

(* Nodes that keep their level and their links.                            *)
LEMMA SameLinks ==
    ASSUME NEW N \in Nat, NEW g \in GraphsOf(N), NEW h \in GraphsOf(N),
           \A i \in 1..N : h[i].level = g[i].level /\ h[i].links = g[i].links
    PROVE  (WellLinked(g, N) => WellLinked(h, N)) /\ \A l : Connected(g, N, l) => Connected(h, N, l)
<1>1. \A l : AtLayer(h, l) = AtLayer(g, l)
  <2>1. DOMAIN g = 1..N /\ DOMAIN h = 1..N
    BY DEF GraphsOf
  <2> QED BY <2>1 DEF AtLayer
<1>2. \A i \in 1..N : \A l : LinksAt(h, i, l) = LinksAt(g, i, l)
  BY DEF LinksAt
<1>3. ASSUME NEW i \in 1..N, NEW l, ListOK(g, i, l, LinksAt(g, i, l)) PROVE ListOK(h, i, l, LinksAt(h, i, l))
  <2>1. AtLayer(h, l) = AtLayer(g, l) /\ LinksAt(h, i, l) = LinksAt(g, i, l)
    BY <1>1, <1>2
  <2> QED BY <1>3, <2>1, Zenon DEF ListOK
<1>4. WellLinked(g, N) => WellLinked(h, N)
  BY <1>3 DEF WellLinked
<1>5. \A l : Connected(g, N, l) => Connected(h, N, l)
  BY <1>2 DEF Connected
<1> QED BY <1>4, <1>5

-----------------------------------------------------------------------------
(* The index                                                               *)

VectorOK(g, e, t, r) ==
    /\ g \in Seq(NodeRecs) /\ e \in 0..Len(g) /\ (e = 0 <=> Len(g) = 0) /\ t \in Nat
    /\ WellLinked(g, Len(g))
    /\ e # 0 => t = g[e].level /\ \A i \in 1..Len(g) : g[i].level <= t
    /\ r \in BOOLEAN /\ (r => Live(g) = 1..Len(g) /\ Connected(g, Len(g), 0))

VectorInv == VectorOK(nodes, entry, topLevel, roomy)

LEMMA GraphIsSeq ==
    ASSUME NEW N \in Nat, NEW g
    PROVE  g \in GraphsOf(N) <=> g \in Seq(NodeRecs) /\ Len(g) = N
BY FunctionIsSeq, LenProperties DEF GraphsOf

LEMMA VectorInvInit == ASSUME VectorInit PROVE VectorInv
<1>1. nodes = <<>> /\ Len(nodes) = 0 /\ nodes \in Seq(NodeRecs)
  BY DEF VectorInit
<1>2. WellLinked(nodes, 0)
  BY DEF WellLinked
<1>3. Live(nodes) = 1..0 /\ Connected(nodes, 0, 0)
  BY <1>1 DEF Live, Connected
<1> QED BY <1>1, <1>2, <1>3 DEF VectorInit, VectorInv, VectorOK

LEMMA IndexOfIs ==
    ASSUME NEW id, IndexOf(id) # 0
    PROVE  IndexOf(id) \in DOMAIN nodes
BY DEF IndexOf

LEMMA VectorUpsertKnown ==
    ASSUME VectorInv, NEW id \in VectorIds, NEW p \in Points[id], UpsertKnown(id, p)
    PROVE  VectorInv'
<1> DEFINE x == IndexOf(id)
           N == Len(nodes)
<1>1. /\ N \in Nat /\ nodes \in GraphsOf(N) /\ x \in 1..N /\ p \in Int
      /\ nodes' = [nodes EXCEPT ![x].point = p, ![x].deleted = FALSE] /\ UNCHANGED <<entry, topLevel, roomy>>
  BY GraphIsSeq, LenProperties, IndexOfIs, VectorAssumption DEF VectorInv, VectorOK, UpsertKnown
<1> HIDE DEF x
<1>2. nodes' \in GraphsOf(N) /\ \A i \in 1..N : nodes'[i].level = nodes[i].level /\ nodes'[i].links = nodes[i].links
  BY <1>1 DEF GraphsOf, NodeRecs
<1>3. nodes' \in Seq(NodeRecs) /\ Len(nodes') = N
  BY <1>1, <1>2, GraphIsSeq
<1>4. WellLinked(nodes', N) /\ (Connected(nodes, N, 0) => Connected(nodes', N, 0))
  BY <1>1, <1>2, SameLinks DEF VectorInv, VectorOK
<1>5. Live(nodes) = 1..N => Live(nodes') = 1..N
  BY <1>1 DEF Live, GraphsOf, NodeRecs
<1> HIDE DEF N
<1>6. VectorOK(nodes, entry, topLevel, roomy) /\ Len(nodes) = N
  BY DEF VectorInv, N
<1>7. VectorOK(nodes', entry', topLevel', roomy')
  BY <1>1, <1>2, <1>3, <1>4, <1>5, <1>6 DEF VectorOK
<1> QED BY <1>7 DEF VectorInv, VectorOK

LEMMA VectorDelete ==
    ASSUME VectorInv, NEW id \in VectorIds, DeleteVector(id)
    PROVE  VectorInv'
<1> DEFINE x == IndexOf(id)
           N == Len(nodes)
<1>1. CASE x = 0
  <2>1. nodes' = nodes /\ roomy' = roomy /\ UNCHANGED <<entry, topLevel>>
    BY <1>1 DEF DeleteVector, VectorInv, VectorOK
  <2> QED BY <2>1 DEF VectorInv
<1>2. CASE x # 0
  <2>a. /\ N \in Nat /\ nodes \in GraphsOf(N) /\ x \in 1..N
    BY <1>2, GraphIsSeq, LenProperties, IndexOfIs DEF VectorInv, VectorOK
  <2>b. nodes' = [nodes EXCEPT ![x].deleted = TRUE] /\ UNCHANGED <<entry, topLevel>>
    BY <1>2 DEF DeleteVector
  <2>c. ~roomy' /\ roomy' \in BOOLEAN
    BY <1>2, Zenon DEF DeleteVector
  <2>1. /\ N \in Nat /\ nodes \in GraphsOf(N) /\ x \in 1..N
        /\ nodes' = [nodes EXCEPT ![x].deleted = TRUE] /\ entry' = entry /\ topLevel' = topLevel
    BY <2>a, <2>b
  <2> HIDE DEF x
  <2>2. nodes' \in GraphsOf(N) /\ \A i \in 1..N : nodes'[i].level = nodes[i].level /\ nodes'[i].links = nodes[i].links
    BY <2>1 DEF GraphsOf, NodeRecs
  <2>3. nodes' \in Seq(NodeRecs) /\ Len(nodes') = N
    BY <2>1, <2>2, GraphIsSeq
  <2>4. WellLinked(nodes', N)
    BY <2>1, <2>2, SameLinks DEF VectorInv, VectorOK
  <2> HIDE DEF N
  <2>5. VectorOK(nodes, entry, topLevel, roomy) /\ Len(nodes) = N
    BY DEF VectorInv, N
  <2>6. VectorOK(nodes', entry', topLevel', roomy')
    <3>1. /\ entry \in 0..N /\ (entry = 0 <=> N = 0) /\ topLevel \in Nat
          /\ (entry # 0 => topLevel = nodes[entry].level /\ \A i \in 1..N : nodes[i].level <= topLevel)
      BY <2>5 DEF VectorOK
    <3>2. entry # 0 => topLevel = nodes'[entry].level /\ \A i \in 1..N : nodes'[i].level <= topLevel
      BY <2>1, <2>2, <3>1
    <3> QED BY <2>c, <2>1, <2>3, <2>4, <3>1, <3>2 DEF VectorOK
  <2> QED BY <2>6 DEF VectorInv, VectorOK
<1> QED BY <1>1, <1>2

LEMMA VectorUpsertFirst ==
    ASSUME VectorInv, NEW id \in VectorIds, NEW level \in Levels, NEW p \in Points[id], UpsertFirst(id, p, level)
    PROVE  VectorInv'
<1> DEFINE g == Pushed(id, p, level)
<1>1. level \in Nat /\ p \in Int /\ Len(nodes) = 0 /\ nodes \in Seq(NodeRecs) /\ WellLinked(nodes, Len(nodes)) /\ roomy \in BOOLEAN
  BY VectorAssumption DEF VectorInv, VectorOK, UpsertFirst
<1>2. nodes' = g /\ entry' = 1 /\ topLevel' = level /\ roomy' = roomy
  BY DEF UpsertFirst
<1>3. Fresh(g, 1) /\ g[1].level = level /\ Live(g) = Live(nodes) \cup {1}
  <2>1. Len(nodes) + 1 = 1
    BY <1>1
  <2>2. Fresh(g, Len(nodes) + 1) /\ g[Len(nodes) + 1].level = level /\ Live(g) = Live(nodes) \cup {Len(nodes) + 1}
    BY <1>1, PushedIs
  <2> QED BY <2>1, <2>2
<1>4. Live(nodes) = {}
  BY <1>1, LenProperties DEF Live
<1> HIDE DEF g
<1>5. g \in Seq(NodeRecs) /\ Len(g) = 1 /\ WellLinked(g, 1)
  BY <1>3, GraphIsSeq DEF Fresh
<1>6. Live(g) = 1..1 /\ Connected(g, 1, 0)
  <2>1. 1..1 = {1}
    OBVIOUS
  <2>2. \A S \in SUBSET {1} : S # {} => S = {1}
    OBVIOUS
  <2> QED BY <1>3, <1>4, <2>1, <2>2, Zenon DEF Connected
<1>7. VectorOK(g, 1, level, roomy)
  BY <1>1, <1>3, <1>5, <1>6 DEF VectorOK
<1> QED BY <1>2, <1>7 DEF VectorInv, VectorOK

LEMMA VectorUpsertNew ==
    ASSUME VectorInv, NEW id \in VectorIds, NEW level \in Levels, NEW p \in Points[id], UpsertNew(id, p, level)
    PROVE  VectorInv'
<1> DEFINE M == Len(nodes)
           N == M + 1
           g == Pushed(id, p, level)
           A == [l \in Nat |-> Older(g, N, l)]
           top == IF level < topLevel THEN level ELSE topLevel
           eps == Descend(g, p, {entry}, topLevel, level)
           h == InsertLayers(g, N, eps, top)
<1>1. /\ level \in Nat /\ p \in Int /\ nodes \in Seq(NodeRecs) /\ WellLinked(nodes, M) /\ roomy \in BOOLEAN
      /\ entry \in 1..M /\ topLevel \in Nat /\ topLevel = nodes[entry].level /\ (\A i \in 1..M : nodes[i].level <= topLevel)
      /\ (roomy => Live(nodes) = 1..M /\ Connected(nodes, M, 0))
  <2>1. entry # 0
    BY DEF UpsertNew
  <2> QED BY <2>1, VectorAssumption DEF VectorInv, VectorOK
<1>2. /\ nodes' = h
      /\ entry' = (IF level > topLevel THEN N ELSE entry)
      /\ topLevel' = (IF level > topLevel THEN level ELSE topLevel)
      /\ roomy' = (roomy /\ \A l \in 0..level : \A i \in ToSet(LinksAt(h, N, l)) : Len(LinksAt(nodes, i, l)) < CapacityAt(l))
  BY DEF UpsertNew
<1>3. /\ M \in Nat /\ nodes \in GraphsOf(M) /\ Fresh(g, N) /\ (\A i \in 1..M : g[i] = nodes[i]) /\ g[N].level = level
      /\ Live(g) = Live(nodes) \cup {N}
  BY <1>1, PushedIs
<1> HIDE DEF g
<1>4. N \in Nat \ {0} /\ N - 1 = M /\ N \in 1..N /\ g \in GraphsOf(N) /\ DOMAIN g = 1..N /\ entry \in 1..N /\ entry # N
  BY <1>1, <1>3 DEF Fresh, GraphsOf
<1>5. Layering(g, N, A)
  BY <1>3, <1>4, FreshLayers
<1>6. \A l \in Nat : \A i \in A[l] : i \in 1..M /\ g[i].level >= l
  BY <1>3, <1>4 DEF Older, AtLayer
<1>7. {entry} \in SUBSET A[topLevel] /\ {entry} # {}
  <2>1. g[entry].level >= topLevel
    BY <1>1, <1>3
  <2> QED BY <1>1, <1>4, <2>1 DEF Older, AtLayer
<1>8. top \in Nat /\ top <= level /\ top <= topLevel
  BY <1>1
<1> HIDE DEF A
<1>9. eps \in SUBSET A[top] /\ eps # {}
  <2>1. g \in GraphsOf(N) /\ N \in Nat
    BY <1>4
  <2> HIDE DEF N
  <2> QED BY <1>1, <1>5, <1>7, <2>1, DescendIs
<1> HIDE DEF top, eps
<1>10. eps \in SUBSET (1..(N - 1)) /\ \A e \in eps : g[e].level >= top
  BY <1>4, <1>6, <1>8, <1>9
<1>11. entry \in 1..(N - 1) /\ g[entry].level >= top /\ top <= g[N].level
  BY <1>1, <1>3, <1>4, <1>8
<1>12. h \in GraphsOf(N) /\ SameNodes(g, h, N) /\ WellLinked(h, N) /\ NodeJoined(g, h, N)
  <2> HIDE DEF N
  <2> QED BY <1>3, <1>4, <1>8, <1>9, <1>10, <1>11, InsertIs
<1> HIDE DEF h
<1>13. h \in Seq(NodeRecs) /\ Len(h) = N
  BY <1>4, <1>12, GraphIsSeq
<1>14. \A i \in 1..M : h[i].level = nodes[i].level /\ i \in 1..N
  BY <1>3, <1>4, <1>12 DEF SameNodes
<1>15. h[N].level = level
  BY <1>3, <1>4, <1>12 DEF SameNodes
<1>16. ASSUME roomy' PROVE Live(h) = 1..N /\ Connected(h, N, 0)
  <2>1. roomy /\ \A i \in ToSet(LinksAt(h, N, 0)) : Len(LinksAt(nodes, i, 0)) < CapacityAt(0)
    <3>1. roomy /\ \A l \in 0..level : \A i \in ToSet(LinksAt(h, N, l)) : Len(LinksAt(nodes, i, l)) < CapacityAt(l)
      BY <1>2, <1>16, Zenon
    <3>2. 0 \in 0..level
      BY <1>1
    <3> QED BY <3>1, <3>2, Zenon
  <2>2. Live(nodes) = 1..M /\ Connected(nodes, M, 0) /\ 1..N = 1..M \cup {N}
    BY <1>1, <1>3, <2>1
  <2>3. Live(g) = 1..N
    BY <1>3, <2>2
  <2>4. Live(h) = 1..N
    <3> HIDE DEF N
    <3> QED BY <1>4, <1>12, <2>3, SameLayers
  <2>5. \A i \in 1..M : LinksAt(g, i, 0) = LinksAt(nodes, i, 0)
    BY <1>3 DEF LinksAt
  <2>6. Connected(g, N - 1, 0)
    BY <1>4, <2>2, <2>5 DEF Connected
  <2>7. ToSet(LinksAt(h, N, 0)) \in SUBSET (1..M)
    BY <1>4, <1>12 DEF NodeJoined, ToSet
  <2>8. \A i \in ToSet(LinksAt(h, N, 0)) : Len(LinksAt(g, i, 0)) < CapacityAt(0)
    BY <2>1, <2>5, <2>7
  <2>9. \A i \in 1..(N - 1) : ToSet(LinksAt(g, i, 0)) \subseteq 1..(N - 1)
    <3> SUFFICES ASSUME NEW i \in 1..M PROVE ToSet(LinksAt(g, i, 0)) \subseteq 1..M
      BY <1>4
    <3>1. 0 \in 0..nodes[i].level
      BY <1>3 DEF GraphsOf, NodeRecs
    <3>2. LinksAt(nodes, i, 0) \in Seq(AtLayer(nodes, 0) \ {i})
      BY <1>1, <3>1 DEF WellLinked, ListOK
    <3>3. AtLayer(nodes, 0) \ {i} \subseteq 1..M
      BY <1>3 DEF AtLayer, GraphsOf
    <3>4. LinksAt(nodes, i, 0) \in Seq(1..M)
      BY <3>2, <3>3, SeqWiden
    <3> QED BY <2>5, <3>4 DEF ToSet
  <2>10. Connected(h, N, 0)
    <3> HIDE DEF N
    <3> QED BY <1>4, <1>12, <2>3, <2>6, <2>8, <2>9, JoinedConnected
  <2> QED BY <2>4, <2>10
<1>17. roomy' \in BOOLEAN
  BY <1>1, <1>2
<1>18. entry' \in 1..N /\ topLevel' \in Nat /\ topLevel' = h[entry'].level /\ \A i \in 1..N : h[i].level <= topLevel'
  <2>1. \A i \in 1..M : h[i].level <= topLevel /\ h[i].level \in Nat
    BY <1>1, <1>3, <1>14 DEF GraphsOf, NodeRecs
  <2>2. 1..N = 1..M \cup {N} /\ h[entry].level = topLevel
    <3>1. 1..N = 1..M \cup {N}
      BY <1>3
    <3> HIDE DEF N, M
    <3> QED BY <1>1, <1>14, <3>1
  <2>3. CASE level > topLevel
    BY <1>1, <1>2, <1>4, <1>15, <2>1, <2>2, <2>3
  <2>4. CASE ~(level > topLevel)
    BY <1>1, <1>2, <1>4, <1>15, <2>1, <2>2, <2>4
  <2> QED BY <2>3, <2>4
<1> HIDE DEF N
<1>19. VectorOK(h, entry', topLevel', roomy')
  BY <1>4, <1>12, <1>13, <1>16, <1>17, <1>18 DEF VectorOK
<1> QED BY <1>2, <1>19 DEF VectorInv, VectorOK

LEMMA VectorInvNext == ASSUME VectorInv, VectorNext PROVE VectorInv'
BY VectorUpsertKnown, VectorUpsertFirst, VectorUpsertNew, VectorDelete DEF VectorNext

LEMMA VectorLayersNested == ASSUME VectorInv PROVE LayersNested
<1> DEFINE N == Len(nodes)
<1>1. N \in Nat /\ nodes \in GraphsOf(N) /\ WellLinked(nodes, N) /\ DOMAIN nodes = 1..N
  BY GraphIsSeq, LenProperties DEF VectorInv, VectorOK
<1> HIDE DEF N
<1>2. ASSUME NEW i \in 1..N, NEW l \in 0..nodes[i].level
      PROVE  /\ Len(LinksAt(nodes, i, l)) <= CapacityAt(l)
             /\ IsInjective(LinksAt(nodes, i, l))
             /\ \A j \in ToSet(LinksAt(nodes, i, l)) : j # i /\ j \in DOMAIN nodes /\ nodes[j].level >= l
  <2> DEFINE list == LinksAt(nodes, i, l)
  <2>1. ListOK(nodes, i, l, list)
    BY <1>1 DEF WellLinked
  <2> HIDE DEF list
  <2>2. list \in Seq(AtLayer(nodes, l) \ {i}) /\ Len(list) <= CapacityAt(l) /\ IsInjective(list)
    BY <2>1 DEF ListOK
  <2>3. \A A : list \in Seq(A) => ToSet(list) \in SUBSET A
    BY DEF ToSet
  <2>4. \A j \in ToSet(list) : j # i /\ j \in DOMAIN nodes /\ nodes[j].level >= l
    BY <2>2, <2>3 DEF AtLayer
  <2> QED BY <2>2, <2>4 DEF list
<1>3. \A i \in 1..N : Len(nodes[i].links) = nodes[i].level + 1
  BY <1>1 DEF WellLinked
<1>4. entry # 0 => \A i \in DOMAIN nodes : nodes[i].level <= nodes[entry].level /\ topLevel = nodes[entry].level
  BY <1>1 DEF VectorInv, VectorOK, N
<1> QED BY <1>1, <1>2, <1>3, <1>4 DEF LayersNested

(* Where the search of layer 0 starts.                                     *)
LEMMA SearchBegins ==
    ASSUME VectorInv, entry # 0, NEW q \in Int
    PROVE  LET N == Len(nodes)  eps == Descend(nodes, q, {entry}, topLevel, 0) IN
           /\ N \in Nat /\ nodes \in GraphsOf(N)
           /\ \A i \in 1..N : LinksAt(nodes, i, 0) \in Seq(1..N)
           /\ eps \in SUBSET (1..N) /\ eps # {}
<1> DEFINE N == Len(nodes)
           A == [l \in Nat |-> AtLayer(nodes, l)]
           eps == Descend(nodes, q, {entry}, topLevel, 0)
<1>1. /\ N \in Nat /\ nodes \in GraphsOf(N) /\ WellLinked(nodes, N) /\ DOMAIN nodes = 1..N
      /\ topLevel \in Nat /\ entry \in 1..N /\ nodes[entry].level = topLevel
  BY GraphIsSeq, LenProperties DEF VectorInv, VectorOK
<1> HIDE DEF N
<1>2. \A i \in 1..N : nodes[i].level \in Nat
  BY <1>1 DEF GraphsOf, NodeRecs
<1>3. \A l \in Nat : A[l] = {i \in 1..N : nodes[i].level >= l}
  BY <1>1 DEF AtLayer
<1>4. ASSUME NEW l \in Nat, NEW i \in A[l] PROVE LinksAt(nodes, i, l) \in Seq(A[l])
  <2>1. i \in 1..N /\ l \in 0..nodes[i].level
    BY <1>2, <1>3, <1>4
  <2>2. LinksAt(nodes, i, l) \in Seq(AtLayer(nodes, l) \ {i})
    BY <1>1, <2>1 DEF WellLinked, ListOK
  <2>3. AtLayer(nodes, l) \ {i} \subseteq A[l]
    OBVIOUS
  <2> HIDE DEF A
  <2> QED BY <2>2, <2>3, SeqWiden
<1>5. \A l \in Nat : A[l] \in SUBSET (1..N) /\ A[l + 1] \in SUBSET A[l]
  <2> SUFFICES ASSUME NEW l \in Nat PROVE A[l] \in SUBSET (1..N) /\ A[l + 1] \in SUBSET A[l]
    OBVIOUS
  <2>1. l + 1 \in Nat
    OBVIOUS
  <2>2. \A i \in 1..N : nodes[i].level >= l + 1 => nodes[i].level >= l
    BY <1>2
  <2> HIDE DEF A
  <2> QED BY <1>3, <2>1, <2>2
<1> HIDE DEF A
<1>6. Layering(nodes, N, A)
  BY <1>4, <1>5 DEF Layering
<1>7. {entry} \in SUBSET A[topLevel] /\ {entry} # {}
  BY <1>1, <1>2, <1>3
<1>8. A[0] = 1..N /\ (IF 0 < topLevel THEN 0 ELSE topLevel) = 0
  <2>1. \A i \in 1..N : nodes[i].level >= 0
    BY <1>2
  <2>2. A[0] = {i \in 1..N : nodes[i].level >= 0}
    BY <1>3
  <2>3. A[0] = 1..N
    BY <2>1, <2>2, Zenon
  <2>4. (IF 0 < topLevel THEN 0 ELSE topLevel) = 0
    BY <1>1
  <2> QED BY <2>3, <2>4
<1>9. eps \in SUBSET A[IF 0 < topLevel THEN 0 ELSE topLevel] /\ eps # {}
  <2>1. 0 \in Nat
    OBVIOUS
  <2> QED BY <1>1, <1>6, <1>7, <2>1, DescendIs
<1>10. \A i \in 1..N : LinksAt(nodes, i, 0) \in Seq(1..N)
  BY <1>4, <1>8
<1> QED BY <1>1, <1>8, <1>9, <1>10 DEF N

LEMMA VectorResultsLive == ASSUME VectorInv PROVE ResultsLive
<1> SUFFICES ASSUME NEW q \in Probes, NEW k \in 1..2
             PROVE  /\ Len(Search(q, k)) <= k
                    /\ ToSet(Search(q, k)) \subseteq Live(nodes)
                    /\ \A i, j \in DOMAIN Search(q, k) : i < j => Closer(nodes, q, Search(q, k)[i], Search(q, k)[j])
  BY Zenon DEF ResultsLive
<1>0. q \in Int /\ k \in Nat \ {0} /\ EfSearch \in Nat
  BY VectorAssumption
<1>1. CASE entry = 0
  <2>1. Search(q, k) = <<>> /\ Len(<<>>) = 0 /\ DOMAIN <<>> = {} /\ ToSet(<<>>) = {}
    BY <1>1 DEF Search, ToSet
  <2> QED BY <1>0, <2>1
<1>2. CASE entry # 0
  <2> DEFINE N == Len(nodes)
             eps == Descend(nodes, q, {entry}, topLevel, 0)
             ef == IF EfSearch > k THEN EfSearch ELSE k
             found == SearchLayer(nodes, q, eps, ef, 0)
             r == Truncated(found, k)
  <2>1. /\ N \in Nat /\ nodes \in GraphsOf(N) /\ eps \in SUBSET (1..N)
        /\ \A i \in 1..N : LinksAt(nodes, i, 0) \in Seq(1..N)
    BY <1>0, <1>2, SearchBegins
  <2>2. ef \in Nat \ {0} /\ 1..N \in SUBSET (1..N)
    BY <1>0
  <2>3. Search(q, k) = r
    BY <1>2 DEF Search
  <2> HIDE DEF N, eps, ef
  <2>4. found \in Seq((1..N) \cap Live(nodes)) /\ \A i, j \in 1..Len(found) : i < j => Closer(nodes, q, found[i], found[j])
    BY <1>0, <2>1, <2>2, SearchLayerIs
  <2> HIDE DEF found
  <2>5. /\ r \in Seq((1..N) \cap Live(nodes)) /\ Len(r) = (IF Len(found) < k THEN Len(found) ELSE k)
        /\ \A i \in 1..Len(r) : i \in 1..Len(found) /\ r[i] = found[i]
    BY <1>0, <2>4, TruncatedIs
  <2> HIDE DEF r
  <2>6. Len(r) <= k /\ DOMAIN r = 1..Len(r)
    BY <1>0, <2>4, <2>5, LenProperties
  <2>7. ToSet(r) \subseteq Live(nodes)
    BY <2>5 DEF ToSet
  <2>8. \A i, j \in DOMAIN r : i < j => Closer(nodes, q, r[i], r[j])
    BY <2>4, <2>5, <2>6
  <2> QED BY <2>3, <2>6, <2>7, <2>8
<1> QED BY <1>1, <1>2

LEMMA VectorExactWhenRoomy == ASSUME VectorInv PROVE ExactWhenRoomy
<1> SUFFICES ASSUME roomy, Len(nodes) <= EfSearch, NEW q \in Probes, NEW k \in 1..2 PROVE Search(q, k) = BruteForce(q, k)
  BY Zenon DEF ExactWhenRoomy
<1> DEFINE N == Len(nodes)
<1>0. q \in Int /\ k \in Nat \ {0} /\ EfSearch \in Nat
  BY VectorAssumption
<1>1. N \in Nat /\ nodes \in GraphsOf(N) /\ Live(nodes) = 1..N /\ Connected(nodes, N, 0) /\ (entry = 0 <=> N = 0)
  BY GraphIsSeq, LenProperties DEF VectorInv, VectorOK
<1>2. CASE entry = 0
  <2> DEFINE t == ByDistance(nodes, q, Live(nodes))
             r == Truncated(t, k)
  <2>1. Live(nodes) = {} /\ N = 0
    BY <1>1, <1>2
  <2>2. t \in Seq(Live(nodes)) /\ Len(t) = Cardinality(Live(nodes))
    BY <1>0, <1>1, ByDistanceIs
  <2>3. Len(t) = 0
    BY <2>1, <2>2, FS_EmptySet
  <2> HIDE DEF t
  <2>4. r \in Seq(Live(nodes)) /\ Len(r) = (IF Len(t) < k THEN Len(t) ELSE k)
    BY <1>0, <2>2, TruncatedIs
  <2>5. Len(r) = 0
    BY <1>0, <2>3, <2>4
  <2> HIDE DEF r
  <2>6. r = <<>>
    BY <2>4, <2>5, EmptySeq
  <2> QED BY <1>2, <2>6 DEF Search, BruteForce, r, t
<1>3. CASE entry # 0
  <2> DEFINE eps == Descend(nodes, q, {entry}, topLevel, 0)
             ef == IF EfSearch > k THEN EfSearch ELSE k
             start == [visited |-> eps, candidates |-> eps, results |-> eps \cap Live(nodes)]
  <2>1. eps \in SUBSET (1..N) /\ eps # {} /\ \A i \in 1..N : LinksAt(nodes, i, 0) \in Seq(1..N)
    BY <1>0, <1>3, SearchBegins
  <2>2. ef \in Nat /\ N <= ef
    BY <1>0, <1>1
  <2>3. Search(q, k) = Truncated(ByDistance(nodes, q, Explore(nodes, q, ef, 0, start)), k)
    BY <1>3 DEF Search, SearchLayer
  <2> HIDE DEF N, eps, ef
  <2>4. Explore(nodes, q, ef, 0, start) = 1..N
    <3>0. Inside(nodes, N, 0)
      BY <2>1 DEF Inside
    <3>1. start = Roomy(eps, eps)
      <4>1. eps \cap Live(nodes) = eps
        BY <1>1, <2>1
      <4> QED BY <4>1 DEF Roomy
    <3> HIDE DEF start
    <3>2. Explore(nodes, q, ef, 0, Roomy(eps, eps)) = 1..N
      BY <1>0, <1>1, <2>1, <2>2, <3>0, ExploreRoomy
    <3> QED BY <3>1, <3>2
  <2> HIDE DEF start
  <2> QED BY <1>1, <2>3, <2>4 DEF BruteForce
<1> QED BY <1>2, <1>3

-----------------------------------------------------------------------------

(* The histories of the stores are sound: lineages verify and no edit of   *)
(* one goes unnoticed by who kept its last digest, later moments answer    *)
(* with later versions, ranges that meet split what they make up, and a    *)
(* finished diff holds of the store.                                       *)
THEOREM HistoriesAreSound == Spec => []HistoriesSound
<1> DEFINE Inv == ProvInv /\ VersionInv
<1>1. Init => Inv
  BY ProvInvInit, VersionInvInit DEF Init
<1>2. Inv /\ [Next]_vars => Inv'
  <2> SUFFICES ASSUME Inv, [Next]_vars PROVE Inv'
    OBVIOUS
  <2>1. ASSUME UNCHANGED provVars PROVE ProvInv'
    BY <2>1 DEF provVars, ProvInv, IsChain, IsRecord, ChainVerifies, RecordVerifies, ComputeHash, ParentOf, GenesisHash
  <2>2. ASSUME UNCHANGED versionVars PROVE VersionInv'
    BY <2>2 DEF versionVars, VersionInv, Absent, Stamped
  <2>3. UNCHANGED provVars \/ ProvNext
    BY DEF Next, vars
  <2>4. UNCHANGED versionVars \/ VersionNext
    BY DEF Next, vars
  <2> QED BY <2>1, <2>2, <2>3, <2>4, ProvInvNext, VersionInvNext
<1>3. Inv => HistoriesSound
  BY ProvInvImplies, VersionInvImplies DEF HistoriesSound
<1> QED BY <1>1, <1>2, <1>3, PTL DEF Spec

(* The types and what the entities are annotated with are sound: an        *)
(* annotation that is stored conforms to the types that were registered    *)
(* when it was validated, and the hierarchy of a type, followed through    *)
(* supertypes that may form cycles, is exactly its ancestors, the type     *)
(* itself first and only there.                                            *)
THEOREM TypesAreSound == Spec => []TypesSound
<1> DEFINE Inv == SemanticInv /\ SchemaInv
<1>1. Init => Inv
  BY SemanticInvInit, SchemaInvInit DEF Init, SchemaInit
<1>2. Inv /\ [Next]_vars => Inv'
  <2> SUFFICES ASSUME Inv, [Next]_vars PROVE Inv'
    OBVIOUS
  <2>1. ASSUME UNCHANGED semanticVars PROVE SemanticInv'
    BY <2>1 DEF semanticVars, SemanticInv, IsAnnotate, Conforms
  <2>2. ASSUME UNCHANGED schemaTypes PROVE SchemaInv'
    BY <2>2 DEF SchemaInv, SchemaNames
  <2>3. UNCHANGED semanticVars \/ SemanticNext
    BY DEF Next, vars
  <2>4. UNCHANGED schemaTypes \/ SchemaNext
    BY DEF Next, vars
  <2> QED BY <2>1, <2>2, <2>3, <2>4, SemanticInvNext, SchemaInvNext
<1>3. Inv => TypesSound
  BY SemanticInvImplies, SchemaInvImplies DEF TypesSound
<1> QED BY <1>1, <1>2, <1>3, PTL DEF Spec

(* The indexes of the stores are sound: the graph's indexes agree with     *)
(* its triples and a finished walk is justified by them, for any number of *)
(* callers and hops; a scan of the key-value layer answers with its own    *)
(* namespace, in order, whose bytes the metrics never undercount; and once *)
(* all is committed full-text search finds what get returns.               *)
THEOREM IndexesAreSound == Spec => []IndexesSound
<1> DEFINE Inv == GraphInv /\ WalkInv /\ StorageInv /\ DocInv
<1>1. Init => Inv
  BY GraphInvInit, WalkInvInit, StorageInvInit, DocInvInit DEF Init
<1>2. Inv /\ [Next]_vars => Inv'
  <2> SUFFICES ASSUME Inv, [Next]_vars PROVE Inv'
    OBVIOUS
  <2>1. ASSUME UNCHANGED storageVars PROVE StorageInv'
    BY <2>1 DEF storageVars, StorageInv, StorageType, IsEntry, PrefixedKey, StoredBytes, PendingBytes, Bytes
  <2>2. ASSUME UNCHANGED graphVars PROVE GraphInv' /\ WalkInv'
    BY <2>2, GraphFrame, WalkFrame DEF graphVars
  <2>3. ASSUME UNCHANGED docVars PROVE DocInv'
    BY <2>3 DEF docVars, DocInv, DocType, WorksOn, CallAgrees, IdAgrees, Copies, DocCall, DocIdle
  <2>4. UNCHANGED graphVars \/ GraphNext
    BY DEF Next, vars
  <2>5. UNCHANGED storageVars \/ StorageNext
    BY DEF Next, vars
  <2>6. UNCHANGED docVars \/ DocNext
    BY DEF Next, vars
  <2>7. GraphInv' /\ WalkInv'
    BY <2>2, <2>4, GraphInvNext, WalkInvNext
  <2> QED BY <2>1, <2>3, <2>5, <2>6, <2>7, StorageInvNext, DocInvNext
<1>3. Inv => IndexesSound
  BY GraphInvImplies, WalkInvImplies, StorageInvImplies, DocInvImplies DEF IndexesSound
<1> QED BY <1>1, <1>2, <1>3, PTL DEF Spec

(* A search returns what is stored, for any embeddings, levels, sizes of   *)
(* the candidate lists and order of upserts and deletes: the layers of the *)
(* HNSW graph stay nested and its lists within capacity, a search returns  *)
(* live nodes only, the nearest first, and what brute force returns as     *)
(* long as nothing was deleted or pruned and the list has room.  A radius  *)
(* answer is as near as its limit allows and leaves out only what lies     *)
(* beyond, and two boxes that split the world find every entity.           *)
THEOREM SearchesAreSound == Spec => []SearchesSound
<1> DEFINE Inv == VectorInv /\ SpatialInv
<1>1. Init => Inv
  BY VectorInvInit, SpatialInvInit DEF Init
<1>2. Inv /\ [Next]_vars => Inv'
  <2> SUFFICES ASSUME Inv, [Next]_vars PROVE Inv'
    OBVIOUS
  <2>1. ASSUME UNCHANGED spatialVars PROVE SpatialInv'
    BY <2>1 DEF spatialVars, SpatialInv, Wgs84
  <2>2. ASSUME UNCHANGED vectorVars PROVE VectorInv'
    <3>1. UNCHANGED <<nodes, entry, topLevel, roomy>>
      BY <2>2 DEF vectorVars
    <3>2. VectorOK(nodes', entry', topLevel', roomy')
      BY <3>1 DEF VectorInv
    <3> QED BY <3>2 DEF VectorInv, VectorOK
  <2>3. UNCHANGED spatialVars \/ SpatialNext
    BY DEF Next, vars
  <2>4. UNCHANGED vectorVars \/ VectorNext
    BY DEF Next, vars
  <2> QED BY <2>1, <2>2, <2>3, <2>4, SpatialInvNext, VectorInvNext
<1>3. Inv => SearchesSound
  BY VectorLayersNested, VectorResultsLive, VectorExactWhenRoomy, RadiusIs, BoxesAre DEF SearchesSound
<1> QED BY <1>1, <1>2, <1>3, PTL DEF Spec
=============================================================================
