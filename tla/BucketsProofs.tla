----------------------------- MODULE BucketsProofs -----------------------------
(***************************************************************************)
(* Proofs about Buckets and the operators of RoutingTable, for any length  *)
(* of identifiers, any size of a bucket but one and any set of peers.      *)
(*                                                                         *)
(* The inductive invariant is Good: every bucket holds nodes of its own    *)
(* range of identifiers, each once and no more than fit, the last bucket   *)
(* has room, and num_peers counts no fewer nodes than there are.  Between  *)
(* the turns of the split loop and while a node is entered only the first  *)
(* part, Sound, is true.  The split loop is followed through the states it *)
(* may be in (TurnStates), a search through the nodes it comes across      *)
(* (Walks), and that those it returns are the nearest rests on the first   *)
(* bit in which two buckets differ (BeforeIsNearer).                       *)
(*                                                                         *)
(* What recursion computes is found by induction over a set of numbers     *)
(* (Reaches, Iterated), which needs no operator for a parameter.           *)
(***************************************************************************)
EXTENDS Buckets, FiniteSetTheorems, FunctionTheorems, SequenceTheorems,
        WellFoundedInduction, TLAPS

\* A nonempty set of natural numbers has a least one.
LEMMA LeastOne ==
    ASSUME NEW P \in SUBSET Nat, P # {}
    PROVE  \E m \in P : \A p \in P : m <= p
  <1> DEFINE R == OpToRel(<, Nat)
  <1>1. PICK x \in P : \A y \in P : ~(<<y, x>> \in R)
    <2> HIDE DEF R
    <2>1. IsWellFoundedOn(R, Nat)
      BY NatLessThanWellFounded DEF R
    <2> QED BY <2>1, WFMin
  <1>2. ASSUME NEW y \in P PROVE x <= y
    <2>1. x \in Nat /\ y \in Nat
      OBVIOUS
    <2>2. ~(y < x)
      BY <1>1, <2>1 DEF OpToRel
    <2> QED BY <2>1, <2>2
  <1> QED BY <1>1, <1>2

\* Induction up to n, for a set of numbers.
LEMMA Reaches ==
    ASSUME NEW n \in Nat, NEW S, 0 \in S, \A i \in 1 .. n : i - 1 \in S => i \in S
    PROVE  \A i \in 0 .. n : i \in S
  <1> DEFINE bad == {i \in 0 .. n : i \notin S}
  <1> SUFFICES ASSUME bad # {} PROVE FALSE
    OBVIOUS
  <1>1. bad \in SUBSET Nat
    OBVIOUS
  <1>2. PICK m \in bad : \A i \in bad : m <= i
    <2> HIDE DEF bad
    <2> QED BY <1>1, LeastOne
  <1>3. m \in 1 .. n /\ m - 1 \in 0 .. n /\ ~(m <= m - 1)
    <2>1. m \in 0 .. n /\ m # 0
      OBVIOUS
    <2> HIDE DEF bad
    <2> QED BY <2>1
  <1>4. m - 1 \in S
    BY <1>2, <1>3
  <1> QED BY <1>3, <1>4

\* A function on 0 .. n can be defined by recursion.
Obeys(f, n, first, step) == f[0] = first /\ \A i \in 1 .. n : f[i] = step[i][f[i - 1]]

\* It exists, and FlattenSeq and the split loop are defined by such a one.
LEMMA Iterated ==
    ASSUME NEW n \in Nat, NEW X, NEW first \in X, NEW step \in [1 .. n -> [X -> X]]
    PROVE  \E f \in [0 .. n -> X] : Obeys(f, n, first, step)
  <1> DEFINE S == {m \in 0 .. n : \E f \in [0 .. m -> X] : Obeys(f, m, first, step)}
  <1>1. 0 \in S
    <2> DEFINE f == [i \in 0 .. 0 |-> first]
    <2>1. f \in [0 .. 0 -> X] /\ f[0] = first /\ 1 .. 0 = {}
      OBVIOUS
    <2> HIDE DEF f
    <2>2. Obeys(f, 0, first, step)
      BY <2>1 DEF Obeys
    <2> QED BY <2>1, <2>2
  <1>2. ASSUME NEW m \in 1 .. n, m - 1 \in S PROVE m \in S
    <2>1. PICK f \in [0 .. m - 1 -> X] : Obeys(f, m - 1, first, step)
      BY <1>2
    <2> DEFINE g == [i \in 0 .. m |-> IF i = m THEN step[m][f[m - 1]] ELSE f[i]]
    <2>2. f[m - 1] \in X /\ step[m] \in [X -> X]
      OBVIOUS
    <2>3. g \in [0 .. m -> X]
      BY <2>2
    <2>4. g[0] = first
      BY <2>1 DEF Obeys
    <2>5. \A i \in 0 .. m - 1 : g[i] = f[i]
      OBVIOUS
    <2>6. g[m] = step[m][f[m - 1]]
      OBVIOUS
    <2> HIDE DEF g
    <2>7. ASSUME NEW i \in 1 .. m PROVE g[i] = step[i][g[i - 1]]
      <3>1. g[i - 1] = f[i - 1]
        BY <2>5
      <3>2. CASE i = m
        BY <2>6, <3>1, <3>2
      <3>3. CASE i # m
        <4>1. i \in 1 .. m - 1 /\ i \in 0 .. m - 1
          BY <3>3
        <4> QED BY <2>1, <2>5, <3>1, <4>1 DEF Obeys
      <3> QED BY <3>2, <3>3
    <2> QED BY <2>3, <2>4, <2>7 DEF Obeys
  <1>3. n \in S
    <2> HIDE DEF S
    <2>1. \A i \in 1 .. n : i - 1 \in S => i \in S
      BY <1>2
    <2>2. \A i \in 0 .. n : i \in S
      BY <1>1, <2>1, Reaches
    <2> QED BY <2>2
  <1> QED BY <1>3

\* A function on 1 .. n is a sequence.
LEMMA FunctionIsSeq ==
    ASSUME NEW n \in Nat, NEW T, NEW f \in [1 .. n -> T]
    PROVE  f \in Seq(T) /\ Len(f) = n
  OBVIOUS

-----------------------------------------------------------------------------
\* Ascending lists every number of a set once, the smaller ones first.
LEMMA AscendingProperties ==
    ASSUME NEW n \in Nat, NEW P \in SUBSET (1 .. n)
    PROVE  /\ IsFiniteSet(P) /\ Cardinality(P) \in Nat /\ Cardinality(P) <= n
           /\ Ascending(P) \in [1 .. Cardinality(P) -> P]
           /\ \A i, j \in 1 .. Cardinality(P) : i < j => Ascending(P)[i] < Ascending(P)[j]
           /\ \A k \in P : \E j \in 1 .. Cardinality(P) : Ascending(P)[j] = k
  <1> DEFINE upto(k) == {i \in P : i <= k}
             c == Cardinality(P)
             rank == [k \in P |-> Cardinality(upto(k))]
             a == Ascending(P)
  <1>1. IsFiniteSet(P) /\ c \in Nat /\ c <= n
    <2>1. IsFiniteSet(1 .. n) /\ Cardinality(1 .. n) = n
      BY FS_Interval
    <2> QED BY <2>1, FS_Subset, FS_CardinalityType
  <1>2. ASSUME NEW k \in P PROVE /\ IsFiniteSet(upto(k)) /\ Cardinality(upto(k)) \in 1 .. c
    <2>1. upto(k) \subseteq P /\ k \in upto(k)
      OBVIOUS
    <2> DEFINE U == upto(k)
    <2> HIDE DEF U
    <2>2. U \subseteq P /\ U # {}
      BY <2>1 DEF U
    <2>3. IsFiniteSet(U) /\ Cardinality(U) <= c /\ Cardinality(U) \in Nat /\ Cardinality(U) # 0
      BY <1>1, <2>2, FS_Subset, FS_CardinalityType, FS_EmptySet
    <2> QED BY <1>1, <2>3 DEF U
  <1>3. ASSUME NEW k \in P, NEW l \in P, k < l PROVE Cardinality(upto(k)) < Cardinality(upto(l))
    <2>1. P \subseteq Nat /\ k \in Nat /\ l \in Nat
      OBVIOUS
    <2>2. upto(k) \subseteq upto(l) /\ l \in upto(l) /\ l \notin upto(k)
      <3>1. \A i \in P : i <= k => i <= l
        BY <1>3, <2>1
      <3>2. l <= l /\ ~(l <= k)
        BY <1>3, <2>1
      <3> QED BY <3>1, <3>2
    <2> DEFINE U == upto(k)
               V == upto(l)
    <2>3. U \subseteq V /\ U # V /\ IsFiniteSet(V)
      BY <1>2, <2>2
    <2>4. Cardinality(U) \in Nat /\ Cardinality(V) \in Nat
      BY <1>2
    <2> HIDE DEF U, V
    <2>5. Cardinality(U) < Cardinality(V)
      BY <2>3, <2>4, FS_Subset
    <2> QED BY <2>5 DEF U, V
  <1>4. rank \in [P -> 1 .. c] /\ \A k, l \in P : k < l => rank[k] < rank[l]
    BY <1>2, <1>3
  <1>5. \A k \in P : rank[k] = Cardinality(upto(k))
    OBVIOUS
  <1> HIDE DEF rank
  <1>6. \A k, l \in P : rank[k] = rank[l] => k = l
    BY <1>4
  <1>7. rank \in Surjection(P, 1 .. c)
    <2>1. rank \in Injection(P, 1 .. c)
      BY <1>4, <1>6 DEF Injection, IsInjective
    <2>2. IsFiniteSet(1 .. c) /\ Cardinality(1 .. c) = c
      BY <1>1, FS_Interval
    <2> QED BY <2>1, <2>2, FS_Injection
  <1>8. \A j \in 1 .. c : \E k \in P : rank[k] = j
    BY <1>7 DEF Surjection
  <1>9. ASSUME NEW j \in 1 .. c PROVE a[j] \in P /\ rank[a[j]] = j
    <2>1. a[j] = CHOOSE k \in P : Cardinality(upto(k)) = j
      BY DEF Ascending
    <2>2. \E k \in P : Cardinality(upto(k)) = j
      BY <1>5, <1>8
    <2>3. a[j] \in P /\ Cardinality(upto(a[j])) = j
      BY <2>1, <2>2
    <2> QED BY <1>5, <2>3
  <1>10. a = [j \in 1 .. c |-> a[j]]
    BY DEF Ascending
  <1> HIDE DEF a, c
  <1>11. a \in [1 .. c -> P]
    BY <1>9, <1>10
  <1>12. \A i, j \in 1 .. c : i < j => a[i] < a[j]
    <2> SUFFICES ASSUME NEW i \in 1 .. c, NEW j \in 1 .. c, i < j PROVE a[i] < a[j]
      OBVIOUS
    <2>1. a[i] \in Nat /\ a[j] \in Nat /\ i \in Nat /\ j \in Nat
      <3>1. P \subseteq Nat /\ a[i] \in P /\ a[j] \in P
        BY <1>9
      <3>2. i \in Nat /\ j \in Nat
        BY <1>1
      <3> QED BY <3>1, <3>2
    <2>2. a[j] # a[i] /\ ~(a[j] < a[i])
      BY <1>4, <1>9, <2>1
    <2> QED BY <2>1, <2>2
  <1>13. \A k \in P : \E j \in 1 .. c : a[j] = k
    BY <1>4, <1>6, <1>9
  <1> QED BY <1>1, <1>11, <1>12, <1>13 DEF a, c

\* o is the subsequence of s with the elements of S.
Selects(o, s, S) ==
    \E at \in [1 .. Len(o) -> 1 .. Len(s)] :
        /\ \A j \in 1 .. Len(o) : o[j] = s[at[j]] /\ s[at[j]] \in S
        /\ \A i, j \in 1 .. Len(o) : i < j => at[i] < at[j]
        /\ \A k \in 1 .. Len(s) : s[k] \in S => \E j \in 1 .. Len(o) : at[j] = k

\* Only(s, S) is.
LEMMA OnlySelects ==
    ASSUME NEW T, NEW s \in Seq(T), NEW S
    PROVE  Only(s, S) \in Seq(T) /\ Len(Only(s, S)) <= Len(s) /\ Selects(Only(s, S), s, S)
  <1> DEFINE P == {k \in DOMAIN s : s[k] \in S}
             at == Ascending(P)
             c == Cardinality(P)
             o == Only(s, S)
  <1>1. DOMAIN s = 1 .. Len(s) /\ Len(s) \in Nat /\ \A k \in 1 .. Len(s) : s[k] \in T
    BY ElementOfSeq
  <1>2. P \in SUBSET (1 .. Len(s))
    BY <1>1
  <1>3. /\ c \in Nat /\ c <= Len(s)
        /\ at \in [1 .. c -> P]
        /\ \A i, j \in 1 .. c : i < j => at[i] < at[j]
        /\ \A k \in P : \E j \in 1 .. c : at[j] = k
    <2> HIDE DEF P
    <2> QED BY <1>1, <1>2, AscendingProperties
  <1>4. o = [j \in DOMAIN at |-> s[at[j]]]
    BY DEF Only
  <1>5. \A k \in P : k \in 1 .. Len(s) /\ s[k] \in S /\ s[k] \in T
    BY <1>1
  <1>6. \A k \in 1 .. Len(s) : s[k] \in S => k \in P
    BY <1>1
  <1> HIDE DEF P, at, c, o
  <1>7. o \in [1 .. c -> T] /\ \A j \in 1 .. c : o[j] = s[at[j]]
    BY <1>3, <1>4, <1>5
  <1>8. o \in Seq(T) /\ Len(o) = c
    BY <1>3, <1>7, IsASeq
  <1>9. at \in [1 .. c -> 1 .. Len(s)]
    BY <1>3, <1>5
  <1>10. o \in Seq(T) /\ Len(o) <= Len(s)
    BY <1>3, <1>8
  <1>11. at \in [1 .. Len(o) -> 1 .. Len(s)]
    BY <1>8, <1>9
  <1>12. \A j \in 1 .. Len(o) : o[j] = s[at[j]] /\ s[at[j]] \in S
    BY <1>3, <1>5, <1>7, <1>8
  <1>13. \A i, j \in 1 .. Len(o) : i < j => at[i] < at[j]
    BY <1>3, <1>8
  <1>14. \A k \in 1 .. Len(s) : s[k] \in S => \E j \in 1 .. Len(o) : at[j] = k
    BY <1>3, <1>6, <1>8
  <1>15. Selects(o, s, S)
    BY <1>11, <1>12, <1>13, <1>14 DEF Selects
  <1> QED BY <1>10, <1>15 DEF o

\* The same, spelt out.
LEMMA OnlyProperties ==
    ASSUME NEW T, NEW s \in Seq(T), NEW S
    PROVE  /\ Only(s, S) \in Seq(T) /\ Len(Only(s, S)) <= Len(s)
           /\ \E at \in [1 .. Len(Only(s, S)) -> 1 .. Len(s)] :
                 /\ \A j \in 1 .. Len(Only(s, S)) : Only(s, S)[j] = s[at[j]] /\ s[at[j]] \in S
                 /\ \A i, j \in 1 .. Len(Only(s, S)) : i < j => at[i] < at[j]
                 /\ \A k \in 1 .. Len(s) : s[k] \in S =>
                       \E j \in 1 .. Len(Only(s, S)) : at[j] = k
  <1>1. Selects(Only(s, S), s, S)
    BY OnlySelects
  <1> QED BY <1>1, OnlySelects DEF Selects
-----------------------------------------------------------------------------
\* The i-th of n buckets is the place of an identifier that shares i - 1 bits
\* with ours and differs in the next one, unless the bucket is the last.
Belongs(id, i, n) ==
    /\ i = n \/ id[i - 1] # Self[i - 1]
    /\ \A j \in 1 .. i - 1 : id[j - 1] = Self[j - 1]

\* And there it belongs only.
LEMMA BucketIndexProperties ==
    ASSUME NEW T, NEW buckets \in Seq(T), Len(buckets) # 0, NEW id
    PROVE  /\ BucketIndex(buckets, id) \in 1 .. Len(buckets)
           /\ Belongs(id, BucketIndex(buckets, id), Len(buckets))
           /\ \A i \in 1 .. Len(buckets) :
                 Belongs(id, i, Len(buckets)) => i = BucketIndex(buckets, id)
  <1> DEFINE n == Len(buckets)
             P == {i \in 1 .. n : i = n \/ id[i - 1] # Self[i - 1]}
  <1>1. n \in Nat /\ n # 0 /\ DOMAIN buckets = 1 .. n
    BY LenProperties
  <1>2. n \in P /\ P \in SUBSET Nat
    BY <1>1
  <1>3. PICK m \in P : \A p \in P : m <= p
    <2> HIDE DEF P
    <2> QED BY <1>2, LeastOne
  <1>4. m \in 1 .. n /\ (m = n \/ id[m - 1] # Self[m - 1])
    OBVIOUS
  <1>5. \A j \in 1 .. m - 1 : id[j - 1] = Self[j - 1]
    <2> SUFFICES ASSUME NEW j \in 1 .. m - 1 PROVE j \notin P /\ j \in 1 .. n
      OBVIOUS
    <2> HIDE DEF P, n
    <2>1. m \in Nat /\ m <= n
      BY <1>1, <1>4
    <2>2. j \in Nat /\ j <= m - 1 /\ 1 <= j
      BY <2>1
    <2>3. j \in 1 .. n /\ ~(m <= j)
      BY <1>1, <2>1, <2>2
    <2> QED BY <1>3, <2>3
  <1>6. Belongs(id, m, n)
    BY <1>4, <1>5 DEF Belongs
  <1>7. BucketIndex(buckets, id) = CHOOSE i \in 1 .. n : Belongs(id, i, n)
    BY <1>1 DEF BucketIndex, Belongs
  <1> HIDE DEF n
  <1>8. BucketIndex(buckets, id) \in 1 .. n /\ Belongs(id, BucketIndex(buckets, id), n)
    BY <1>4, <1>6, <1>7
  <1>9. ASSUME NEW i \in 1 .. n, NEW k \in 1 .. n, i < k, Belongs(id, i, n), Belongs(id, k, n)
        PROVE  FALSE
    <2>1. i # n /\ i \in 1 .. k - 1
      BY <1>1, <1>9
    <2> QED BY <1>9, <2>1 DEF Belongs
  <1>10. ASSUME NEW i \in 1 .. n, NEW k \in 1 .. n, i # k PROVE i < k \/ k < i
    BY <1>1, <1>10
  <1> QED BY <1>8, <1>9, <1>10 DEF n

-----------------------------------------------------------------------------
\* No identifier twice.
Distinct(bucket) ==
    \A k, l \in 1 .. Len(bucket) : k < l => bucket[k].id # bucket[l].id

\* Nodes that belong into the i-th of n buckets.
Keeps(bucket, i, n) ==
    \A k \in 1 .. Len(bucket) : Belongs(bucket[k].id, i, n) /\ bucket[k].id # Self

Sound(buckets) ==
    /\ buckets \in Seq(Seq(Node)) /\ Len(buckets) \in 1 .. IdBits
    /\ \A i \in 1 .. Len(buckets) : /\ Len(buckets[i]) <= DHT_NODE_COUNT
                                    /\ Distinct(buckets[i])
                                    /\ Keeps(buckets[i], i, Len(buckets))

IdsOf(bucket) == {bucket[k].id : k \in 1 .. Len(bucket)}

IdsIn(buckets) == UNION {IdsOf(buckets[i]) : i \in 1 .. Len(buckets)}

\* The identifier of a node is one of them.
LEMMA IdMember ==
    ASSUME NEW buckets, NEW i \in 1 .. Len(buckets), NEW k \in 1 .. Len(buckets[i])
    PROVE  buckets[i][k].id \in IdsIn(buckets)
  <1>1. buckets[i][k].id \in IdsOf(buckets[i])
    BY DEF IdsOf
  <1> QED BY <1>1 DEF IdsIn

\* The types of the buckets, their lengths and their nodes.
LEMMA BucketType ==
    ASSUME NEW buckets \in Seq(Seq(Node))
    PROVE  /\ Len(buckets) \in Nat /\ DOMAIN buckets = 1 .. Len(buckets)
           /\ \A i \in 1 .. Len(buckets) :
                 /\ buckets[i] \in Seq(Node)
                 /\ Len(buckets[i]) \in Nat
                 /\ DOMAIN buckets[i] = 1 .. Len(buckets[i])
                 /\ \A k \in 1 .. Len(buckets[i]) : buckets[i][k] \in Node
  <1>1. ASSUME NEW i \in 1 .. Len(buckets) PROVE buckets[i] \in Seq(Node)
    BY ElementOfSeq
  <1> QED BY <1>1, LenProperties, ElementOfSeq

\* What is chosen from a bucket.
LEMMA OnlyOf ==
    ASSUME NEW bucket \in Seq(Node), Distinct(bucket), NEW S
    PROVE  /\ Only(bucket, S) \in Seq(Node) /\ Len(Only(bucket, S)) <= Len(bucket)
           /\ Distinct(Only(bucket, S))
           /\ \A j \in 1 .. Len(Only(bucket, S)) :
                 /\ Only(bucket, S)[j] \in S
                 /\ \E k \in 1 .. Len(bucket) : Only(bucket, S)[j] = bucket[k]
           /\ \A k \in 1 .. Len(bucket) : bucket[k] \in S =>
                 \E j \in 1 .. Len(Only(bucket, S)) : Only(bucket, S)[j] = bucket[k]
  <1> DEFINE o == Only(bucket, S)
  <1>1. /\ o \in Seq(Node) /\ Len(o) <= Len(bucket)
        /\ \E at \in [1 .. Len(o) -> 1 .. Len(bucket)] :
              /\ \A j \in 1 .. Len(o) : o[j] = bucket[at[j]] /\ bucket[at[j]] \in S
              /\ \A i, j \in 1 .. Len(o) : i < j => at[i] < at[j]
              /\ \A k \in 1 .. Len(bucket) : bucket[k] \in S => \E j \in 1 .. Len(o) : at[j] = k
    BY OnlyProperties
  <1> HIDE DEF o
  <1>2. PICK at \in [1 .. Len(o) -> 1 .. Len(bucket)] :
              /\ \A j \in 1 .. Len(o) : o[j] = bucket[at[j]] /\ bucket[at[j]] \in S
              /\ \A i, j \in 1 .. Len(o) : i < j => at[i] < at[j]
              /\ \A k \in 1 .. Len(bucket) : bucket[k] \in S => \E j \in 1 .. Len(o) : at[j] = k
    BY <1>1
  <1>3. Distinct(o)
    <2> SUFFICES ASSUME NEW k \in 1 .. Len(o), NEW l \in 1 .. Len(o), k < l
                 PROVE  o[k].id # o[l].id
      BY DEF Distinct
    <2>1. at[k] \in 1 .. Len(bucket) /\ at[l] \in 1 .. Len(bucket) /\ at[k] < at[l]
      BY <1>2
    <2>2. bucket[at[k]].id # bucket[at[l]].id
      BY <2>1 DEF Distinct
    <2> QED BY <1>2, <2>2
  <1>4. ASSUME NEW j \in 1 .. Len(o)
        PROVE  o[j] \in S /\ \E k \in 1 .. Len(bucket) : o[j] = bucket[k]
    <2>1. at[j] \in 1 .. Len(bucket)
      BY <1>2
    <2> QED BY <1>2, <2>1
  <1>5. ASSUME NEW k \in 1 .. Len(bucket), bucket[k] \in S
        PROVE  \E j \in 1 .. Len(o) : o[j] = bucket[k]
    <2>1. PICK j \in 1 .. Len(o) : at[j] = k
      BY <1>2, <1>5
    <2> QED BY <1>2, <2>1
  <1> QED BY <1>1, <1>3, <1>4, <1>5 DEF o

\* Two nodes of one bucket that share all our bits but the last would both have
\* the other last bit.
LEMMA LastBucketSplits ==
    ASSUME NEW buckets, Sound(buckets), Len(buckets[Len(buckets)]) >= 2
    PROVE  Len(buckets) + 1 \in 1 .. IdBits
  <1> DEFINE n == Len(buckets)
             x == buckets[n][1].id
             y == buckets[n][2].id
  <1>1. n \in 1 .. IdBits /\ IdBits \in Nat /\ n \in Nat
    BY IdBitsAssumption DEF Sound
  <1>2. /\ Len(buckets[n]) \in Nat
        /\ x \in Id /\ y \in Id /\ x # y /\ x # Self /\ y # Self
        /\ Belongs(x, n, n) /\ Belongs(y, n, n)
    <2>1. 1 \in 1 .. Len(buckets[n]) /\ 2 \in 1 .. Len(buckets[n]) /\ Len(buckets[n]) \in Nat
      BY <1>1, BucketType DEF Sound
    <2>2. buckets[n][1] \in Node /\ buckets[n][2] \in Node
      BY <1>1, <2>1, BucketType DEF Sound
    <2>3. Distinct(buckets[n]) /\ Keeps(buckets[n], n, n) /\ n \in 1 .. Len(buckets)
      BY <1>1 DEF Sound
    <2> HIDE DEF n
    <2>4. x # y
      BY <2>1, <2>3 DEF Distinct
    <2>5. Belongs(x, n, n) /\ x # Self /\ Belongs(y, n, n) /\ y # Self
      BY <2>1, <2>3 DEF Keeps
    <2>6. x \in Id /\ y \in Id
      BY <2>2 DEF Node
    <2> QED BY <2>1, <2>4, <2>5, <2>6
  <1>3. ASSUME n = IdBits PROVE FALSE
    <2> HIDE DEF x, y
    <2>1. \A j \in 0 .. IdBits - 2 : x[j] = Self[j] /\ y[j] = Self[j]
      <3> SUFFICES ASSUME NEW j \in 0 .. IdBits - 2 PROVE x[j] = Self[j] /\ y[j] = Self[j]
        OBVIOUS
      <3>1. j + 1 \in 1 .. n - 1 /\ (j + 1) - 1 = j
        BY <1>1, <1>3
      <3> QED BY <1>2, <3>1 DEF Belongs
    <2>2. \A j \in Bits : j = IdBits - 1 \/ j \in 0 .. IdBits - 2
      BY <1>1 DEF Bits
    <2>3. IdBits - 1 \in Bits /\ Self \in Id
      BY <1>1, RoutingTableAssumption DEF Bits
    <2>4. x[IdBits - 1] # Self[IdBits - 1] /\ y[IdBits - 1] # Self[IdBits - 1]
      BY <1>2, <2>1, <2>2, <2>3 DEF Id
    <2>5. x[IdBits - 1] = y[IdBits - 1]
      BY <1>2, <2>3, <2>4 DEF Id
    <2> QED BY <1>2, <2>1, <2>2, <2>5 DEF Id
  <1> HIDE DEF n
  <1>4. n + 1 \in 1 .. IdBits
    BY <1>1, <1>3
  <1> QED BY <1>4 DEF n

\* What g_list_concat leaves of the moved nodes are two of them at most.
LEMMA LastTwoProperties ==
    ASSUME NEW s \in Seq(Node), Distinct(s)
    PROVE  /\ LastTwo(s) \in Seq(Node) /\ Distinct(LastTwo(s))
           /\ Len(LastTwo(s)) = IF Len(s) > 2 THEN 2 ELSE Len(s)
           /\ \A j \in 1 .. Len(LastTwo(s)) : \E k \in 1 .. Len(s) : LastTwo(s)[j] = s[k]
  <1> DEFINE n == Len(s)
             m == IF n > 2 THEN n - 1 ELSE 1
             e == LastTwo(s)
  <1>1. n \in Nat /\ m \in Int /\ \A i \in m .. n : i \in 1 .. n
    BY LenProperties
  <1>2. \A i \in m .. n : s[i] \in Node
    BY <1>1, ElementOfSeq
  <1>3. e = SubSeq(s, m, n)
    BY DEF LastTwo
  <1> HIDE DEF e, m, n
  <1>4. /\ e \in Seq(Node) /\ Len(e) = IF m <= n THEN n - m + 1 ELSE 0
        /\ \A i \in 1 .. n - m + 1 : e[i] = s[m + i - 1]
    BY <1>1, <1>2, <1>3, SubSeqProperties
  <1>5. Len(e) = (IF n > 2 THEN 2 ELSE n) /\ \A i \in 1 .. Len(e) : m + i - 1 \in 1 .. n
    BY <1>1, <1>4 DEF m
  <1>6. \A i \in 1 .. Len(e) : e[i] = s[m + i - 1]
    BY <1>1, <1>4
  <1>7. Distinct(e)
    <2> SUFFICES ASSUME NEW k \in 1 .. Len(e), NEW l \in 1 .. Len(e), k < l
                 PROVE  e[k].id # e[l].id
      BY DEF Distinct
    <2>1. m + k - 1 < m + l - 1
      BY <1>1, <1>5
    <2>2. s[m + k - 1].id # s[m + l - 1].id
      BY <1>5, <2>1 DEF Distinct, n
    <2> QED BY <1>6, <2>2
  <1> QED BY <1>4, <1>5, <1>6, <1>7 DEF e, n

\* A split leaves every node it keeps in its bucket.
LEMMA SplitLastSound ==
    ASSUME NEW buckets, Sound(buckets), Len(buckets[Len(buckets)]) >= 2
    PROVE  LET n == Len(buckets)
               split == SplitLast(buckets)
           IN  /\ Sound(split.buckets) /\ Len(split.buckets) = n + 1
               /\ IdsIn(split.buckets) \subseteq IdsIn(buckets)
               /\ split.count \in Nat /\ split.count <= Len(buckets[n])
               /\ Len(split.buckets[n + 1]) <= split.count
               /\ split.count >= 2 => Len(split.buckets[n + 1]) >= 2
  <1> DEFINE n == Len(buckets)
             full == buckets[n]
             near == {node \in ToSet(full) : node.id[n - 1] = Self[n - 1]}
             moved == Only(full, near)
             far == ToSet(full) \ near
             stay == Only(full, far)
             after == SplitLast(buckets).buckets
  <1>1. n \in Nat /\ n >= 1 /\ n \in 1 .. n /\ n + 1 \in 1 .. IdBits /\ buckets \in Seq(Seq(Node))
    BY LastBucketSplits, BucketType, IdBitsAssumption DEF Sound
  <1>2. /\ full \in Seq(Node) /\ Distinct(full) /\ Len(full) <= DHT_NODE_COUNT
        /\ Keeps(full, n, n) /\ Len(full) \in Nat /\ DOMAIN full = 1 .. Len(full)
    BY <1>1, BucketType DEF Sound
  <1>3. /\ SplitLast(buckets).count = Len(moved)
        /\ after = Append(Append(SubSeq(buckets, 1, n - 1), stay), LastTwo(moved))
    BY DEF SplitLast, Last, Front
  <1>4. \A k \in 1 .. Len(full) : full[k] \in near <=> full[k].id[n - 1] = Self[n - 1]
    BY <1>2 DEF ToSet
  <1> HIDE DEF near, far, full
  <1>5. /\ moved \in Seq(Node) /\ Len(moved) <= Len(full) /\ Distinct(moved) /\ Len(moved) \in Nat
        /\ \A j \in 1 .. Len(moved) :
              /\ moved[j] \in near
              /\ \E k \in 1 .. Len(full) : moved[j] = full[k]
    <2>1. /\ moved \in Seq(Node) /\ Len(moved) <= Len(full) /\ Distinct(moved)
          /\ \A j \in 1 .. Len(moved) :
                /\ moved[j] \in near
                /\ \E k \in 1 .. Len(full) : moved[j] = full[k]
      BY <1>2, OnlyOf
    <2> HIDE DEF moved
    <2> QED BY <2>1, LenProperties
  <1>6. /\ stay \in Seq(Node) /\ Len(stay) <= Len(full) /\ Distinct(stay) /\ Len(stay) \in Nat
        /\ \A j \in 1 .. Len(stay) :
              /\ stay[j] \in far
              /\ \E k \in 1 .. Len(full) : stay[j] = full[k]
    <2>1. /\ stay \in Seq(Node) /\ Len(stay) <= Len(full) /\ Distinct(stay)
          /\ \A j \in 1 .. Len(stay) :
                /\ stay[j] \in far
                /\ \E k \in 1 .. Len(full) : stay[j] = full[k]
      BY <1>2, OnlyOf
    <2> HIDE DEF stay
    <2> QED BY <2>1, LenProperties
  <1> HIDE DEF moved, stay
  <1> DEFINE new == LastTwo(moved)
  <1>7. /\ new \in Seq(Node) /\ Distinct(new) /\ Len(new) = IF Len(moved) > 2 THEN 2 ELSE Len(moved)
        /\ \A j \in 1 .. Len(new) : \E k \in 1 .. Len(moved) : new[j] = moved[k]
    BY <1>5, LastTwoProperties
  <1> HIDE DEF new
  <1>8. /\ after \in Seq(Seq(Node)) /\ Len(after) = n + 1
        /\ \A i \in 1 .. n - 1 : after[i] = buckets[i]
        /\ after[n] = stay /\ after[n + 1] = new
    <2> DEFINE front == SubSeq(buckets, 1, n - 1)
               front2 == Append(front, stay)
    <2>1. \A i \in 1 .. n - 1 : buckets[i] \in Seq(Node)
      BY <1>1, BucketType
    <2>2. /\ front \in Seq(Seq(Node)) /\ Len(front) = n - 1
          /\ \A i \in 1 .. n - 1 : front[i] = buckets[i]
      <3>1. 1 \in Int /\ n - 1 \in Int /\ (n - 1) - 1 + 1 = n - 1
        BY <1>1
      <3>2. /\ front \in Seq(Seq(Node)) /\ Len(front) = IF 1 <= n - 1 THEN (n - 1) - 1 + 1 ELSE 0
            /\ \A i \in 1 .. (n - 1) - 1 + 1 : front[i] = buckets[1 + i - 1]
        BY <2>1, <3>1, SubSeqProperties
      <3> HIDE DEF front, n
      <3> QED BY <1>1, <3>1, <3>2
    <2> HIDE DEF front
    <2>3. /\ front2 \in Seq(Seq(Node)) /\ Len(front2) = n
          /\ \A i \in 1 .. n - 1 : front2[i] = buckets[i]
          /\ front2[n] = stay
      <3>1. /\ front2 \in Seq(Seq(Node)) /\ Len(front2) = Len(front) + 1
            /\ \A i \in 1 .. Len(front) : front2[i] = front[i]
            /\ front2[Len(front) + 1] = stay
        BY <1>6, <2>2, AppendProperties
      <3> HIDE DEF front2, n
      <3> QED BY <1>1, <2>2, <3>1
    <2>4. after = Append(front2, new)
      BY <1>3 DEF new, front
    <2> HIDE DEF front2, after
    <2>5. /\ after \in Seq(Seq(Node)) /\ Len(after) = Len(front2) + 1
          /\ \A i \in 1 .. Len(front2) : after[i] = front2[i]
          /\ after[Len(front2) + 1] = new
      BY <1>7, <2>3, <2>4, AppendProperties
    <2> HIDE DEF n
    <2> QED BY <1>1, <2>3, <2>5
  <1> HIDE DEF after, n
  <1>9. \A i \in 1 .. n + 1 : i \in 1 .. n - 1 \/ i = n \/ i = n + 1
    BY <1>1
  <1>10. Keeps(stay, n, n + 1)
    <2> SUFFICES ASSUME NEW j \in 1 .. Len(stay)
                 PROVE  Belongs(stay[j].id, n, n + 1) /\ stay[j].id # Self
      BY DEF Keeps
    <2>1. PICK k \in 1 .. Len(full) : stay[j] = full[k]
      BY <1>6
    <2>2. full[k].id[n - 1] # Self[n - 1]
      BY <1>4, <1>6, <2>1 DEF far
    <2> QED BY <1>2, <2>1, <2>2 DEF Keeps, Belongs
  <1>11. Keeps(new, n + 1, n + 1)
    <2> SUFFICES ASSUME NEW j \in 1 .. Len(new)
                 PROVE  Belongs(new[j].id, n + 1, n + 1) /\ new[j].id # Self
      BY DEF Keeps
    <2>1. PICK h \in 1 .. Len(moved) : new[j] = moved[h]
      BY <1>7
    <2>2. PICK k \in 1 .. Len(full) : moved[h] = full[k]
      BY <1>5
    <2>3. full[k].id[n - 1] = Self[n - 1]
      BY <1>4, <1>5, <2>2
    <2>4. \A i \in 1 .. (n + 1) - 1 : i = n \/ i \in 1 .. n - 1
      BY <1>1
    <2> QED BY <1>2, <2>1, <2>2, <2>3, <2>4 DEF Keeps, Belongs
  <1>12. \A i \in 1 .. n - 1 : Keeps(buckets[i], i, n + 1)
    <2> SUFFICES ASSUME NEW i \in 1 .. n - 1 PROVE Keeps(buckets[i], i, n + 1)
      OBVIOUS
    <2>1. i \in 1 .. n /\ i # n /\ i # n + 1
      BY <1>1
    <2>2. Keeps(buckets[i], i, n)
      BY <2>1 DEF Sound, n
    <2> QED BY <2>1, <2>2 DEF Keeps, Belongs
  <1>13. Sound(after)
    <2>1. \A i \in 1 .. n - 1 : i \in 1 .. n
      BY <1>1
    <2>2. DHT_NODE_COUNT \in Nat /\ Len(stay) <= DHT_NODE_COUNT /\ Len(new) <= DHT_NODE_COUNT
      BY <1>2, <1>5, <1>6, <1>7, RoutingTableAssumption
    <2>3. ASSUME NEW i \in 1 .. n + 1
          PROVE  /\ Len(after[i]) <= DHT_NODE_COUNT
                 /\ Distinct(after[i]) /\ Keeps(after[i], i, n + 1)
      <3>1. CASE i \in 1 .. n - 1
        BY <1>8, <1>12, <2>1, <3>1 DEF Sound, n
      <3>2. CASE i = n
        BY <1>6, <1>8, <1>10, <2>2, <3>2
      <3>3. CASE i = n + 1
        BY <1>7, <1>8, <1>11, <2>2, <3>3
      <3> QED BY <1>9, <3>1, <3>2, <3>3
    <2> QED BY <1>1, <1>8, <2>3 DEF Sound
  <1>14. IdsIn(after) \subseteq IdsIn(buckets)
    <2>1. ASSUME NEW i \in 1 .. n + 1, NEW j \in 1 .. Len(after[i])
          PROVE  \E h \in 1 .. n : \E k \in 1 .. Len(buckets[h]) : after[i][j].id = buckets[h][k].id
      <3>1. CASE i \in 1 .. n - 1
        <4>1. i \in 1 .. n
          BY <1>1, <3>1
        <4>2. after[i] = buckets[i]
          BY <1>8, <3>1
        <4>3. j \in 1 .. Len(buckets[i]) /\ after[i][j].id = buckets[i][j].id
          BY <4>2
        <4> QED BY <4>1, <4>3
      <3>2. CASE i = n
        <4>1. PICK k \in 1 .. Len(full) : stay[j] = full[k]
          BY <1>6, <1>8, <3>2
        <4> QED BY <1>1, <1>8, <3>2, <4>1 DEF full
      <3>3. CASE i = n + 1
        <4>1. PICK h \in 1 .. Len(moved) : new[j] = moved[h]
          BY <1>7, <1>8, <3>3
        <4>2. PICK k \in 1 .. Len(full) : moved[h] = full[k]
          BY <1>5
        <4> QED BY <1>1, <1>8, <3>3, <4>1, <4>2 DEF full
      <3> QED BY <1>9, <3>1, <3>2, <3>3
    <2>2. \A x \in IdsIn(after) : \E i \in 1 .. n + 1 : \E j \in 1 .. Len(after[i]) : x = after[i][j].id
      BY <1>8 DEF IdsIn, IdsOf
    <2>3. \A h \in 1 .. n : \A k \in 1 .. Len(buckets[h]) : buckets[h][k].id \in IdsIn(buckets)
      BY DEF IdsIn, IdsOf, n
    <2> SUFFICES ASSUME NEW x \in IdsIn(after) PROVE x \in IdsIn(buckets)
      OBVIOUS
    <2>4. PICK i \in 1 .. n + 1 : \E j \in 1 .. Len(after[i]) : x = after[i][j].id
      BY <2>2
    <2>5. PICK j \in 1 .. Len(after[i]) : x = after[i][j].id
      BY <2>4
    <2>6. PICK h \in 1 .. n : \E k \in 1 .. Len(buckets[h]) : after[i][j].id = buckets[h][k].id
      BY <2>1
    <2> QED BY <2>3, <2>5, <2>6
  <1>15. Len(new) <= Len(moved) /\ (Len(moved) >= 2 => Len(new) >= 2)
    BY <1>5, <1>7
  <1> QED BY <1>3, <1>5, <1>8, <1>13, <1>14, <1>15 DEF after, n, full
-----------------------------------------------------------------------------
\* A turn of the split loop, whose state are the buckets and the count.
Turn(st) == IF st.count = DHT_NODE_COUNT THEN SplitLast(st.buckets) ELSE st

\* The states the loop may be in when it was given these buckets: count may
\* exceed the nodes that are left in the last bucket, but not if it is small.
TurnStates(buckets) ==
    {st \in [buckets : Seq(Seq(Node)), count : Nat] :
        /\ Sound(st.buckets)
        /\ st.count <= DHT_NODE_COUNT
        /\ Len(st.buckets[Len(st.buckets)]) <= st.count
        /\ st.count >= 2 => Len(st.buckets[Len(st.buckets)]) >= 2
        /\ IdsIn(st.buckets) \subseteq IdsIn(buckets)
        /\ st.buckets = buckets \/ Len(st.buckets) > Len(buckets)}

\* A turn stays in them, and splits the last bucket if it is full.
LEMMA TurnSound ==
    ASSUME NEW buckets, Sound(buckets), NEW st \in TurnStates(buckets)
    PROVE  /\ Turn(st) \in TurnStates(buckets)
           /\ st.count = DHT_NODE_COUNT => Len(Turn(st).buckets) = Len(st.buckets) + 1
           /\ st.count # DHT_NODE_COUNT => Turn(st) = st
  <1>1. CASE st.count # DHT_NODE_COUNT
    BY <1>1 DEF Turn
  <1>2. CASE st.count = DHT_NODE_COUNT
    <2> DEFINE b == st.buckets
               n == Len(b)
               split == SplitLast(b)
    <2>1. /\ Sound(b) /\ Len(b[n]) >= 2 /\ Len(b[n]) <= DHT_NODE_COUNT /\ Len(b[n]) \in Nat
          /\ n \in Nat /\ Len(buckets) \in Nat
      <3>1. DHT_NODE_COUNT >= 2 /\ DHT_NODE_COUNT \in Nat
        BY RoutingTableAssumption, BucketsAssumption
      <3>2. Sound(b) /\ Len(b[n]) >= 2 /\ Len(b[n]) <= DHT_NODE_COUNT
        BY <1>2, <3>1 DEF TurnStates
      <3>3. n \in 1 .. n /\ n \in Nat /\ b \in Seq(Seq(Node)) /\ Len(buckets) \in Nat
        BY <3>2, IdBitsAssumption DEF Sound
      <3>4. Len(b[n]) \in Nat
        BY <3>3, BucketType
      <3> QED BY <3>2, <3>3, <3>4
    <2>2. /\ Sound(split.buckets) /\ Len(split.buckets) = n + 1
          /\ IdsIn(split.buckets) \subseteq IdsIn(b)
          /\ split.count \in Nat /\ split.count <= Len(b[n])
          /\ Len(split.buckets[n + 1]) <= split.count
          /\ split.count >= 2 => Len(split.buckets[n + 1]) >= 2
      BY <2>1, SplitLastSound
    <2>3. split = [buckets |-> split.buckets, count |-> split.count]
      BY DEF SplitLast
    <2>4. IdsIn(b) \subseteq IdsIn(buckets) /\ (b = buckets \/ n > Len(buckets))
      BY DEF TurnStates
    <2> HIDE DEF split, n, b
    <2>5. split \in [buckets : Seq(Seq(Node)), count : Nat]
      BY <2>2, <2>3 DEF Sound
    <2>6. split.count <= DHT_NODE_COUNT /\ Len(split.buckets) > Len(buckets)
      BY <2>1, <2>2, <2>4, RoutingTableAssumption DEF n
    <2>7. split \in TurnStates(buckets)
      BY <2>2, <2>4, <2>5, <2>6 DEF TurnStates
    <2>8. Turn(st) = split
      BY <1>2 DEF Turn, split, b
    <2> QED BY <1>2, <2>2, <2>7, <2>8 DEF n, b
  <1> QED BY <1>1, <1>2

\* The loop ends with room in the last bucket, and changes nothing or splits.
LEMMA SplitBucketsSound ==
    ASSUME NEW buckets, Sound(buckets)
    PROVE  LET after == SplitBuckets(buckets)
           IN  /\ Sound(after) /\ IdsIn(after) \subseteq IdsIn(buckets)
               /\ Len(after[Len(after)]) < DHT_NODE_COUNT
               /\ after = buckets \/ Len(after) > Len(buckets)
  <1> DEFINE X == TurnStates(buckets)
             start == [buckets |-> buckets, count |-> Len(buckets[Len(buckets)])]
             Turns(g) == g = [turn \in 0 .. IdBits |->
                                 IF turn = 0 THEN start ELSE Turn(g[turn - 1])]
             split == CHOOSE g : Turns(g)
  <1>1. /\ IdBits \in Nat /\ buckets \in Seq(Seq(Node)) /\ Len(buckets) \in Nat
        /\ Len(buckets) \in 1 .. Len(buckets)
    BY IdBitsAssumption, BucketType DEF Sound
  <1>2. start \in X
    <2> DEFINE c == Len(buckets[Len(buckets)])
    <2>1. c \in Nat /\ c <= DHT_NODE_COUNT
      BY <1>1, BucketType DEF Sound
    <2>2. start.count = c /\ start.buckets = buckets
      OBVIOUS
    <2>3. start \in [buckets : Seq(Seq(Node)), count : Nat]
      BY <1>1, <2>1
    <2> HIDE DEF start
    <2> QED BY <1>1, <2>1, <2>2, <2>3 DEF TurnStates
  <1> HIDE DEF start
  <1>3. SplitBuckets(buckets) = split[IdBits].buckets
    BY DEF SplitBuckets, Turn, start, Last
  <1> HIDE DEF X
  <1>4. \A st \in X : Turn(st) \in X
    BY TurnSound DEF X
  <1>5. \E g : Turns(g)
    <2> DEFINE step == [i \in 1 .. IdBits |-> [st \in X |-> Turn(st)]]
    <2>1. step \in [1 .. IdBits -> [X -> X]]
      BY <1>4
    <2>2. \A i \in 1 .. IdBits : \A st \in X : step[i][st] = Turn(st)
      OBVIOUS
    <2> HIDE DEF step, Turns
    <2>3. IdBits \in Nat /\ start \in X /\ step \in [1 .. IdBits -> [X -> X]]
      BY <1>1, <1>2, <2>1
    <2>4. PICK f \in [0 .. IdBits -> X] : Obeys(f, IdBits, start, step)
      BY <2>3, Iterated
    <2>5. ASSUME NEW i \in 0 .. IdBits
          PROVE  f[i] = IF i = 0 THEN start ELSE Turn(f[i - 1])
      <3>1. CASE i = 0
        BY <2>4, <3>1 DEF Obeys
      <3>2. CASE i # 0
        <4>1. i \in 1 .. IdBits /\ i - 1 \in 0 .. IdBits
          BY <1>1, <3>2
        <4>2. f[i - 1] \in X
          BY <2>4, <4>1
        <4> QED BY <2>2, <2>4, <3>2, <4>1, <4>2 DEF Obeys
      <3> QED BY <3>1, <3>2
    <2>6. Turns(f)
      BY <2>4, <2>5 DEF Turns
    <2> QED BY <2>6
  <1>6. Turns(split)
    BY <1>5
  <1> HIDE DEF split
  <1>7. split[0] = start /\ \A i \in 1 .. IdBits : split[i] = Turn(split[i - 1])
    <2>1. \A i \in 0 .. IdBits : split[i] = IF i = 0 THEN start ELSE Turn(split[i - 1])
      BY <1>6
    <2>2. 0 \in 0 .. IdBits /\ \A i \in 1 .. IdBits : i \in 0 .. IdBits /\ i # 0
      BY <1>1
    <2> QED BY <2>1, <2>2
  <1> DEFINE S == {i \in 0 .. IdBits :
                      /\ split[i] \in X
                      /\ split[i].count = DHT_NODE_COUNT => Len(split[i].buckets) > i}
  <1>8. 0 \in S
    <2>1. start.buckets = buckets /\ Len(buckets) > 0
      BY <1>1 DEF start
    <2> QED BY <1>1, <1>2, <1>7, <2>1
  <1>9. ASSUME NEW i \in 1 .. IdBits, i - 1 \in S PROVE i \in S
    <2> DEFINE before == split[i - 1]
    <2>1. before \in X /\ (before.count = DHT_NODE_COUNT => Len(before.buckets) > i - 1)
      BY <1>9
    <2>2. split[i] = Turn(before)
      BY <1>7
    <2> HIDE DEF before
    <2>3. /\ Turn(before) \in X
          /\ before.count = DHT_NODE_COUNT => Len(Turn(before).buckets) = Len(before.buckets) + 1
          /\ before.count # DHT_NODE_COUNT => Turn(before) = before
      BY <2>1, TurnSound DEF X
    <2>4. Len(before.buckets) \in Nat
      BY <2>1, LenProperties DEF X, TurnStates
    <2>5. Turn(before).count = DHT_NODE_COUNT => Len(Turn(before).buckets) > i
      BY <2>1, <2>3, <2>4
    <2>6. i \in 0 .. IdBits
      BY <1>1
    <2> QED BY <2>2, <2>3, <2>5, <2>6
  <1>10. IdBits \in S
    <2>1. \A i \in 1 .. IdBits : i - 1 \in S => i \in S
      BY <1>9
    <2> HIDE DEF S
    <2>2. \A i \in 0 .. IdBits : i \in S
      BY <1>1, <1>8, <2>1, Reaches
    <2> QED BY <1>1, <2>2
  <1> DEFINE last == split[IdBits]
  <1>11. /\ last \in X
         /\ last.count = DHT_NODE_COUNT => Len(last.buckets) > IdBits
    BY <1>10
  <1> HIDE DEF last, S
  <1>12. /\ Sound(last.buckets) /\ last.count \in Nat /\ last.count <= DHT_NODE_COUNT
         /\ Len(last.buckets[Len(last.buckets)]) <= last.count
         /\ IdsIn(last.buckets) \subseteq IdsIn(buckets)
         /\ last.buckets = buckets \/ Len(last.buckets) > Len(buckets)
    BY <1>11 DEF X, TurnStates
  <1>13. last.count < DHT_NODE_COUNT /\ Len(last.buckets[Len(last.buckets)]) \in Nat
    <2>1. Len(last.buckets) \in 1 .. IdBits /\ last.buckets \in Seq(Seq(Node))
      BY <1>12 DEF Sound
    <2>2. ~(Len(last.buckets) > IdBits)
      BY <1>1, <2>1
    <2>3. Len(last.buckets) \in 1 .. Len(last.buckets)
      BY <1>1, <2>1
    <2>4. Len(last.buckets[Len(last.buckets)]) \in Nat
      BY <2>1, <2>3, BucketType
    <2> QED BY <1>11, <1>12, <2>2, <2>4, RoutingTableAssumption
  <1>14. Len(last.buckets[Len(last.buckets)]) < DHT_NODE_COUNT
    BY <1>12, <1>13, RoutingTableAssumption
  <1> QED BY <1>3, <1>12, <1>14 DEF last
-----------------------------------------------------------------------------
\* An identifier is in one place of the table at most.
LEMMA OnePlace ==
    ASSUME NEW buckets, Sound(buckets),
           NEW i \in 1 .. Len(buckets), NEW k \in 1 .. Len(buckets[i]),
           NEW j \in 1 .. Len(buckets), NEW l \in 1 .. Len(buckets[j]),
           buckets[i][k].id = buckets[j][l].id
    PROVE  i = j /\ k = l
  <1>1. buckets \in Seq(Seq(Node)) /\ Len(buckets) # 0
    BY IdBitsAssumption DEF Sound
  <1>2. Belongs(buckets[i][k].id, i, Len(buckets)) /\ Belongs(buckets[j][l].id, j, Len(buckets))
    BY DEF Sound, Keeps
  <1>3. i = j
    <2> DEFINE id == buckets[i][k].id
    <2>1. Belongs(id, i, Len(buckets)) /\ Belongs(id, j, Len(buckets))
      BY <1>2
    <2> HIDE DEF id
    <2>2. \A h \in 1 .. Len(buckets) :
              Belongs(id, h, Len(buckets)) => h = BucketIndex(buckets, id)
      BY <1>1, BucketIndexProperties
    <2> QED BY <2>1, <2>2
  <1>4. Len(buckets[i]) \in Nat
    BY <1>1, BucketType
  <1>5. ~(k < l) /\ ~(l < k)
    BY <1>3 DEF Sound, Distinct
  <1> QED BY <1>3, <1>4, <1>5

\* The places of the nodes.
Where(buckets) == UNION {{i} \X DOMAIN buckets[i] : i \in DOMAIN buckets}

\* A place is a bucket and a position in it.
LEMMA WhereIs ==
    ASSUME NEW buckets \in Seq(Seq(Node))
    PROVE  /\ \A p \in Where(buckets) : /\ p = <<p[1], p[2]>>
                                        /\ p[1] \in 1 .. Len(buckets)
                                        /\ p[2] \in 1 .. Len(buckets[p[1]])
           /\ \A i \in 1 .. Len(buckets) : \A k \in 1 .. Len(buckets[i]) :
                 <<i, k>> \in Where(buckets)
  BY BucketType DEF Where

\* As many nodes as identifiers.
LEMMA Census ==
    ASSUME NEW buckets, Sound(buckets)
    PROVE  /\ IsFiniteSet(IdsIn(buckets)) /\ Cardinality(IdsIn(buckets)) \in Nat
           /\ Cardinality(Where(buckets)) = Cardinality(IdsIn(buckets))
  <1> DEFINE W == Where(buckets)
             R == (1 .. Len(buckets)) \X (1 .. DHT_NODE_COUNT)
             f == [p \in W |-> buckets[p[1]][p[2]].id]
             I == IdsIn(buckets)
  <1>1. buckets \in Seq(Seq(Node)) /\ Len(buckets) \in Nat /\ DHT_NODE_COUNT \in Nat
    BY IdBitsAssumption, RoutingTableAssumption DEF Sound
  <1>2. \A p \in W : /\ p = <<p[1], p[2]>>
                     /\ p[1] \in 1 .. Len(buckets) /\ p[2] \in 1 .. Len(buckets[p[1]])
    BY <1>1, WhereIs
  <1>3. \A i \in 1 .. Len(buckets) : \A k \in 1 .. Len(buckets[i]) : <<i, k>> \in W
    BY <1>1, WhereIs
  <1>4. IsFiniteSet(R)
    <2>1. IsFiniteSet(1 .. Len(buckets)) /\ IsFiniteSet(1 .. DHT_NODE_COUNT)
      BY <1>1, FS_Interval
    <2> QED BY <2>1, FS_Product
  <1> HIDE DEF W
  <1>5. W \subseteq R
    <2> SUFFICES ASSUME NEW p \in W PROVE p \in R
      OBVIOUS
    <2>1. Len(buckets[p[1]]) \in Nat /\ Len(buckets[p[1]]) <= DHT_NODE_COUNT
      BY <1>1, <1>2, BucketType DEF Sound
    <2>2. p[2] \in 1 .. DHT_NODE_COUNT
      BY <1>1, <1>2, <2>1
    <2> QED BY <1>2, <2>2
  <1>6. IsFiniteSet(W)
    <2> HIDE DEF R
    <2> QED BY <1>4, <1>5, FS_Subset
  <1>7. \A x \in I : \E p \in W : x = buckets[p[1]][p[2]].id
    <2> SUFFICES ASSUME NEW i \in 1 .. Len(buckets), NEW k \in 1 .. Len(buckets[i])
                 PROVE  \E p \in W : buckets[i][k].id = buckets[p[1]][p[2]].id
      BY DEF IdsIn, IdsOf
    <2>1. <<i, k>> \in W /\ <<i, k>>[1] = i /\ <<i, k>>[2] = k
      BY <1>3
    <2> QED BY <2>1
  <1>8. \A p \in W : buckets[p[1]][p[2]].id \in I
    BY <1>2 DEF IdsIn, IdsOf
  <1>9. \A p, q \in W : buckets[p[1]][p[2]].id = buckets[q[1]][q[2]].id => p = q
    BY <1>2, OnePlace
  <1>10. f \in Bijection(W, I)
    <2>1. f \in [W -> I] /\ \A p \in W : f[p] = buckets[p[1]][p[2]].id
      BY <1>8
    <2> HIDE DEF f, I
    <2>2. f \in Injection(W, I)
      BY <1>9, <2>1 DEF Injection, IsInjective
    <2>3. f \in Surjection(W, I)
      BY <1>7, <2>1 DEF Surjection
    <2> QED BY <2>2, <2>3 DEF Bijection
  <1> HIDE DEF f, I
  <1>11. IsFiniteSet(I) /\ Cardinality(I) = Cardinality(W)
    BY <1>6, <1>10, FS_Bijection DEF ExistsBijection
  <1> QED BY <1>11, FS_CardinalityType DEF I, W
-----------------------------------------------------------------------------
\* One node of a bucket is written over.
Overwrites(after, before, i, k, node) ==
    /\ after \in Seq(Seq(Node)) /\ Len(after) = Len(before)
    /\ \A j \in 1 .. Len(before) : /\ j # i => after[j] = before[j]
                                   /\ Len(after[j]) = Len(before[j])
    /\ \A l \in 1 .. Len(before[i]) : after[i][l] = IF l = k THEN node ELSE before[i][l]

\* As dht_client_update does to a node it knows.
LEMMA ExceptOverwrites ==
    ASSUME NEW b \in Seq(Seq(Node)), NEW i \in 1 .. Len(b), NEW k \in 1 .. Len(b[i]),
           NEW node \in Node
    PROVE  Overwrites([b EXCEPT ![i][k] = node], b, i, k, node)
  <1> DEFINE e == [b[i] EXCEPT ![k] = node]
             c == [b EXCEPT ![i] = e]
  <1>1. [b EXCEPT ![i][k] = node] = c
    OBVIOUS
  <1>2. b[i] \in Seq(Node)
    BY BucketType
  <1>3. /\ e \in Seq(Node) /\ Len(e) = Len(b[i])
        /\ \A l \in 1 .. Len(b[i]) : e[l] = IF l = k THEN node ELSE b[i][l]
    BY <1>2, ExceptSeq
  <1> HIDE DEF e
  <1>4. /\ c \in Seq(Seq(Node)) /\ Len(c) = Len(b)
        /\ \A j \in 1 .. Len(b) : c[j] = IF j = i THEN e ELSE b[j]
    BY <1>3, ExceptSeq
  <1> HIDE DEF c
  <1> QED BY <1>1, <1>3, <1>4 DEF Overwrites

\* The bucket stays sound if no other node of it has the identifier, and there
\* are as many nodes as before.
LEMMA OverwriteSound ==
    ASSUME NEW b, Sound(b), NEW i \in 1 .. Len(b), NEW k \in 1 .. Len(b[i]),
           NEW node \in Node, Belongs(node.id, i, Len(b)), node.id # Self,
           \A l \in 1 .. Len(b[i]) : l # k => b[i][l].id # node.id,
           NEW c, Overwrites(c, b, i, k, node)
    PROVE  Sound(c) /\ Cardinality(IdsIn(c)) <= Cardinality(IdsIn(b))
  <1>1. /\ \A j \in 1 .. Len(b) : (j # i => c[j] = b[j]) /\ Len(c[j]) = Len(b[j])
        /\ \A l \in 1 .. Len(b[i]) : c[i][l] = IF l = k THEN node ELSE b[i][l]
        /\ c \in Seq(Seq(Node)) /\ Len(c) = Len(b)
    BY DEF Overwrites
  <1>2. Distinct(c[i])
    <2> SUFFICES ASSUME NEW l \in 1 .. Len(b[i]), NEW m \in 1 .. Len(b[i]), l < m
                 PROVE  c[i][l].id # c[i][m].id
      BY <1>1 DEF Distinct
    <2>1. b[i][l].id # b[i][m].id /\ l # m
      BY BucketType DEF Sound, Distinct
    <2> QED BY <1>1, <2>1
  <1>3. Keeps(c[i], i, Len(b))
    <2> SUFFICES ASSUME NEW l \in 1 .. Len(b[i])
                 PROVE  Belongs(c[i][l].id, i, Len(b)) /\ c[i][l].id # Self
      BY <1>1 DEF Keeps
    <2>1. Belongs(b[i][l].id, i, Len(b)) /\ b[i][l].id # Self
      BY DEF Sound, Keeps
    <2> QED BY <1>1, <2>1
  <1>4. Sound(c)
    <2> SUFFICES ASSUME NEW j \in 1 .. Len(b)
                 PROVE  /\ Len(c[j]) <= DHT_NODE_COUNT
                        /\ Distinct(c[j]) /\ Keeps(c[j], j, Len(b))
      BY <1>1 DEF Sound
    <2>1. CASE j # i
      BY <1>1, <2>1 DEF Sound
    <2>2. CASE j = i
      BY <1>1, <1>2, <1>3, <2>2 DEF Sound
    <2> QED BY <2>1, <2>2
  <1> DEFINE old == b[i][k].id
             I == IdsIn(b)
             J == IdsIn(c)
  <1>5. old \in I
    BY DEF IdsIn, IdsOf
  <1>6. J \subseteq (I \ {old}) \cup {node.id}
    <2>1. \A x \in J : \E j \in 1 .. Len(b) : \E l \in 1 .. Len(b[j]) : x = c[j][l].id
      BY <1>1 DEF IdsIn, IdsOf
    <2>2. \A j \in 1 .. Len(b) : \A l \in 1 .. Len(b[j]) : b[j][l].id \in I
      BY IdMember
    <2> SUFFICES ASSUME NEW j \in 1 .. Len(b), NEW l \in 1 .. Len(b[j])
                 PROVE  c[j][l].id \in (I \ {old}) \cup {node.id}
      BY <2>1
    <2>3. CASE j = i /\ l = k
      BY <1>1, <2>3
    <2>4. CASE ~(j = i /\ l = k)
      <3>1. c[j][l] = b[j][l]
        BY <1>1, <2>4
      <3>2. b[j][l].id # old
        BY <2>4, OnePlace
      <3> QED BY <2>2, <3>1, <3>2
    <2> QED BY <2>3, <2>4
  <1>7. IsFiniteSet(I) /\ Cardinality(I) \in Nat
    BY Census
  <1> HIDE DEF I, J, old
  <1>8. IsFiniteSet(I \ {old}) /\ Cardinality(I \ {old}) = Cardinality(I) - 1
    BY <1>5, <1>7, FS_RemoveElement
  <1> DEFINE K == I \ {old}
             M == K \cup {node.id}
  <1> HIDE DEF K
  <1>9. IsFiniteSet(M) /\ Cardinality(M) <= Cardinality(I)
    <2>1. IsFiniteSet(K) /\ Cardinality(K) = Cardinality(I) - 1
      BY <1>8 DEF K
    <2>2. IsFiniteSet(M) /\ (Cardinality(M) = Cardinality(K) \/ Cardinality(M) = Cardinality(K) + 1)
      BY <2>1, FS_AddElement
    <2> QED BY <1>7, <2>1, <2>2
  <1>10. J \subseteq M
    BY <1>6 DEF K
  <1> HIDE DEF M
  <1>11. IsFiniteSet(J) /\ Cardinality(J) <= Cardinality(M)
    BY <1>9, <1>10, FS_Subset
  <1>12. Cardinality(J) \in Nat /\ Cardinality(M) \in Nat
    BY <1>9, <1>11, FS_CardinalityType
  <1> QED BY <1>4, <1>7, <1>9, <1>11, <1>12 DEF I, J

\* A node is entered at the head of a bucket with room.
Prepends(c, b, i, node) ==
    /\ Sound(c) /\ Len(c) = Len(b) /\ IdsIn(c) = IdsIn(b) \cup {node.id}
    /\ \A j \in 1 .. Len(b) : j # i => c[j] = b[j]
    /\ \A l \in 1 .. Len(b[i]) : l + 1 \in 1 .. Len(c[i]) /\ c[i][l + 1] = b[i][l]
    /\ 1 \in 1 .. Len(c[i]) /\ c[i][1] = node

\* As dht_client_update does to a node it does not know.
LEMMA PrependSound ==
    ASSUME NEW b, Sound(b), NEW i \in 1 .. Len(b), Len(b[i]) < DHT_NODE_COUNT,
           NEW node \in Node, Belongs(node.id, i, Len(b)), node.id # Self,
           \A l \in 1 .. Len(b[i]) : b[i][l].id # node.id
    PROVE  Prepends([b EXCEPT ![i] = <<node>> \o @], b, i, node)
  <1> DEFINE e == <<node>> \o b[i]
             c == [b EXCEPT ![i] = <<node>> \o @]
  <1>1. b \in Seq(Seq(Node)) /\ b[i] \in Seq(Node) /\ Len(b[i]) \in Nat /\ DHT_NODE_COUNT \in Nat
    BY BucketType, RoutingTableAssumption DEF Sound
  <1>2. /\ e \in Seq(Node) /\ Len(e) = Len(b[i]) + 1
        /\ e[1] = node /\ \A l \in 1 .. Len(b[i]) : e[l + 1] = b[i][l]
    <2>1. <<node>> \in Seq(Node) /\ Len(<<node>>) = 1 /\ <<node>>[1] = node
      OBVIOUS
    <2>2. /\ e \in Seq(Node) /\ Len(e) = 1 + Len(b[i])
          /\ \A l \in 1 .. 1 + Len(b[i]) : e[l] = IF l <= 1 THEN <<node>>[l] ELSE b[i][l - 1]
      BY <1>1, <2>1, ConcatProperties
    <2> HIDE DEF e
    <2>3. e[1] = node
      BY <1>1, <2>1, <2>2
    <2>4. ASSUME NEW l \in 1 .. Len(b[i]) PROVE e[l + 1] = b[i][l]
      <3>1. l + 1 \in 1 .. 1 + Len(b[i]) /\ ~(l + 1 <= 1) /\ (l + 1) - 1 = l
        BY <1>1
      <3> QED BY <2>2, <3>1
    <2> QED BY <1>1, <2>2, <2>3, <2>4
  <1>3. c = [b EXCEPT ![i] = e]
    OBVIOUS
  <1> HIDE DEF e, c
  <1>4. /\ c \in Seq(Seq(Node)) /\ Len(c) = Len(b)
        /\ \A j \in 1 .. Len(b) : c[j] = IF j = i THEN e ELSE b[j]
    BY <1>1, <1>2, <1>3, ExceptSeq
  <1>5. \A l \in 1 .. Len(e) : l = 1 \/ (l - 1 \in 1 .. Len(b[i]) /\ e[l] = b[i][l - 1])
    <2> SUFFICES ASSUME NEW l \in 1 .. Len(e), l # 1
                 PROVE  l - 1 \in 1 .. Len(b[i]) /\ e[l] = b[i][l - 1]
      OBVIOUS
    <2>1. l - 1 \in 1 .. Len(b[i]) /\ (l - 1) + 1 = l
      BY <1>1, <1>2
    <2> QED BY <1>2, <2>1
  <1>6. Distinct(e)
    <2> SUFFICES ASSUME NEW l \in 1 .. Len(e), NEW m \in 1 .. Len(e), l < m
                 PROVE  e[l].id # e[m].id
      BY DEF Distinct
    <2>1. m # 1 /\ m - 1 \in 1 .. Len(b[i]) /\ e[m] = b[i][m - 1]
      BY <1>1, <1>2, <1>5
    <2>2. CASE l = 1
      BY <1>2, <2>1, <2>2
    <2>3. CASE l # 1
      <3>1. l - 1 \in 1 .. Len(b[i]) /\ e[l] = b[i][l - 1] /\ l - 1 < m - 1
        <4>1. l \in Nat /\ m \in Nat
          BY <1>1, <1>2
        <4> QED BY <1>5, <2>3, <4>1
      <3> QED BY <2>1, <3>1 DEF Sound, Distinct
    <2> QED BY <2>2, <2>3
  <1>7. Keeps(e, i, Len(b))
    <2> SUFFICES ASSUME NEW l \in 1 .. Len(e)
                 PROVE  Belongs(e[l].id, i, Len(b)) /\ e[l].id # Self
      BY DEF Keeps
    <2>1. CASE l = 1
      BY <1>2, <2>1
    <2>2. CASE l # 1
      BY <1>5, <2>2 DEF Sound, Keeps
    <2> QED BY <2>1, <2>2
  <1>8. Sound(c)
    <2> SUFFICES ASSUME NEW j \in 1 .. Len(b)
                 PROVE  /\ Len(c[j]) <= DHT_NODE_COUNT
                        /\ Distinct(c[j]) /\ Keeps(c[j], j, Len(b))
      BY <1>4 DEF Sound
    <2>1. CASE j # i
      BY <1>4, <2>1 DEF Sound
    <2>2. CASE j = i
      BY <1>1, <1>2, <1>4, <1>6, <1>7, <2>2
    <2> QED BY <2>1, <2>2
  <1>9. IdsIn(c) = IdsIn(b) \cup {node.id}
    <2>1. IdsOf(e) = IdsOf(b[i]) \cup {node.id}
      <3>1. ASSUME NEW x \in IdsOf(e) PROVE x \in IdsOf(b[i]) \cup {node.id}
        <4>1. PICK l \in 1 .. Len(e) : x = e[l].id
          BY DEF IdsOf
        <4>2. e[l] = node \/ (l - 1 \in 1 .. Len(b[i]) /\ e[l] = b[i][l - 1])
          BY <1>2, <1>5
        <4> QED BY <4>1, <4>2 DEF IdsOf
      <3>2. ASSUME NEW x \in IdsOf(b[i]) PROVE x \in IdsOf(e)
        <4>1. PICK l \in 1 .. Len(b[i]) : x = b[i][l].id
          BY DEF IdsOf
        <4>2. l + 1 \in 1 .. Len(e) /\ e[l + 1] = b[i][l]
          BY <1>1, <1>2
        <4> QED BY <4>1, <4>2 DEF IdsOf
      <3>3. node.id \in IdsOf(e)
        <4>1. 1 \in 1 .. Len(e)
          BY <1>1, <1>2
        <4> QED BY <1>2, <4>1 DEF IdsOf
      <3> QED BY <3>1, <3>2, <3>3
    <2> QED BY <1>4, <2>1 DEF IdsIn
  <1>10. \A l \in 1 .. Len(b[i]) : l + 1 \in 1 .. Len(c[i]) /\ c[i][l + 1] = b[i][l]
    BY <1>1, <1>2, <1>4
  <1>11. 1 \in 1 .. Len(c[i]) /\ c[i][1] = node
    BY <1>1, <1>2, <1>4
  <1>12. Prepends(c, b, i, node)
    BY <1>4, <1>8, <1>9, <1>10, <1>11 DEF Prepends
  <1> QED BY <1>12 DEF c
-----------------------------------------------------------------------------
\* Nodes are taken out of their buckets.
Thinned(b, D) == [i \in 1 .. Len(b) |-> Only(b[i], ToSet(b[i]) \ D)]

Thins(c, b, D) ==
    /\ Sound(c) /\ Len(c) = Len(b)
    /\ \A i \in 1 .. Len(b) :
          /\ Len(c[i]) \in Nat /\ Len(c[i]) <= Len(b[i])
          /\ \A j \in 1 .. Len(c[i]) :
                c[i][j] \notin D /\ \E k \in 1 .. Len(b[i]) : c[i][j] = b[i][k]
          /\ \A k \in 1 .. Len(b[i]) : b[i][k] \notin D =>
                \E j \in 1 .. Len(c[i]) : c[i][j] = b[i][k]

\* The others stay, and stay in order.
LEMMA ThinnedSound ==
    ASSUME NEW b, Sound(b), NEW D
    PROVE  Thins(Thinned(b, D), b, D)
  <1> DEFINE c == Thinned(b, D)
  <1>1. b \in Seq(Seq(Node)) /\ Len(b) \in Nat /\ DHT_NODE_COUNT \in Nat
    BY BucketType, RoutingTableAssumption DEF Sound
  <1>2. ASSUME NEW i \in 1 .. Len(b)
        PROVE  /\ c[i] \in Seq(Node) /\ Len(c[i]) <= Len(b[i]) /\ Distinct(c[i])
               /\ \A j \in 1 .. Len(c[i]) :
                     c[i][j] \notin D /\ \E k \in 1 .. Len(b[i]) : c[i][j] = b[i][k]
               /\ \A k \in 1 .. Len(b[i]) : b[i][k] \notin D =>
                     \E j \in 1 .. Len(c[i]) : c[i][j] = b[i][k]
    <2> DEFINE S == ToSet(b[i]) \ D
    <2>1. b[i] \in Seq(Node) /\ Distinct(b[i]) /\ c[i] = Only(b[i], S)
      BY <1>1, BucketType DEF Sound, Thinned
    <2>2. \A k \in 1 .. Len(b[i]) : b[i][k] \in S <=> b[i][k] \notin D
      BY <1>1, BucketType DEF ToSet
    <2>3. \A x \in S : x \notin D
      OBVIOUS
    <2> DEFINE bucket == b[i]
               o == Only(bucket, S)
    <2> HIDE DEF S, bucket
    <2>4. bucket \in Seq(Node) /\ Distinct(bucket)
      BY <2>1 DEF bucket
    <2>5. /\ o \in Seq(Node) /\ Len(o) <= Len(bucket) /\ Distinct(o)
          /\ \A j \in 1 .. Len(o) :
                o[j] \in S /\ \E k \in 1 .. Len(bucket) : o[j] = bucket[k]
          /\ \A k \in 1 .. Len(bucket) : bucket[k] \in S => \E j \in 1 .. Len(o) : o[j] = bucket[k]
      BY <2>4, OnlyOf
    <2>6. c[i] = o
      BY <2>1 DEF bucket
    <2> HIDE DEF o
    <2> QED BY <2>2, <2>3, <2>5, <2>6 DEF bucket
  <1>3. c \in Seq(Seq(Node)) /\ Len(c) = Len(b)
    <2>1. c \in [1 .. Len(b) -> Seq(Node)]
      BY <1>2 DEF Thinned
    <2> DEFINE n == Len(b)
               T == Seq(Node)
    <2>2. c \in [1 .. n -> T] /\ n \in Nat
      BY <1>1, <2>1
    <2> HIDE DEF n, T
    <2>3. c \in Seq(T) /\ Len(c) = n
      BY <2>2, FunctionIsSeq
    <2> QED BY <2>3 DEF n, T
  <1> HIDE DEF c
  <1>4. ASSUME NEW i \in 1 .. Len(b) PROVE Keeps(c[i], i, Len(b))
    <2> SUFFICES ASSUME NEW j \in 1 .. Len(c[i])
                 PROVE  Belongs(c[i][j].id, i, Len(b)) /\ c[i][j].id # Self
      BY DEF Keeps
    <2>1. PICK k \in 1 .. Len(b[i]) : c[i][j] = b[i][k]
      BY <1>2
    <2> QED BY <2>1 DEF Sound, Keeps
  <1>5. ASSUME NEW i \in 1 .. Len(b) PROVE Len(c[i]) \in Nat /\ Len(c[i]) <= DHT_NODE_COUNT
    <2>1. Len(b[i]) \in Nat /\ Len(b[i]) <= DHT_NODE_COUNT
      BY <1>1, BucketType DEF Sound
    <2>2. c[i] \in Seq(Node) /\ Len(c[i]) <= Len(b[i])
      BY <1>2
    <2>3. Len(c[i]) \in Nat
      BY <2>2, LenProperties
    <2> QED BY <1>1, <2>1, <2>2, <2>3
  <1>6. Sound(c)
    BY <1>2, <1>3, <1>4, <1>5 DEF Sound
  <1>7. Thins(c, b, D)
    BY <1>2, <1>3, <1>5, <1>6 DEF Thins
  <1> QED BY <1>7 DEF c

-----------------------------------------------------------------------------
\* w lists the first n of the sequences seqs, one after the other: its q-th
\* element is the spot[q]-th of the turn[q]-th sequence.
Enumerates(w, turn, spot, seqs, n) ==
    /\ w \in Seq(Node)
    /\ turn \in [1 .. Len(w) -> 1 .. n] /\ spot \in [1 .. Len(w) -> Nat]
    /\ \A q \in 1 .. Len(w) : /\ spot[q] \in 1 .. Len(seqs[turn[q]])
                              /\ w[q] = seqs[turn[q]][spot[q]]
    /\ \A p, q \in 1 .. Len(w) :
          p < q => turn[p] < turn[q] \/ (turn[p] = turn[q] /\ spot[p] < spot[q])
    /\ \A v \in 1 .. n : \A k \in 1 .. Len(seqs[v]) :
          \E q \in 1 .. Len(w) : turn[q] = v /\ spot[q] = k

\* No sequences, one more, and all of them.
LEMMA EmptyEnumerates ==
    ASSUME NEW seqs PROVE Enumerates(<<>>, <<>>, <<>>, seqs, 0)
  <1>1. <<>> \in Seq(Node) /\ Len(<<>>) = 0 /\ 1 .. 0 = {}
    OBVIOUS
  <1>2. <<>> \in [1 .. 0 -> 1 .. 0] /\ <<>> \in [1 .. 0 -> Nat]
    BY <1>1
  <1> QED BY <1>1, <1>2 DEF Enumerates

\* What follows a walk through n sequences is a walk through one more.
LEMMA ConcatEnumerates ==
    ASSUME NEW seqs, NEW n \in Nat, seqs[n + 1] \in Seq(Node),
           NEW w, NEW turn, NEW spot, Enumerates(w, turn, spot, seqs, n)
    PROVE  \E turn2, spot2 : Enumerates(w \o seqs[n + 1], turn2, spot2, seqs, n + 1)
  <1> DEFINE s == seqs[n + 1]
             x == w \o s
             h == Len(w)
             turn2 == [q \in 1 .. Len(x) |-> IF q <= h THEN turn[q] ELSE n + 1]
             spot2 == [q \in 1 .. Len(x) |-> IF q <= h THEN spot[q] ELSE q - h]
  <1>1. /\ w \in Seq(Node) /\ h \in Nat /\ s \in Seq(Node) /\ Len(s) \in Nat
        /\ turn \in [1 .. h -> 1 .. n] /\ spot \in [1 .. h -> Nat]
        /\ \A q \in 1 .. h : spot[q] \in 1 .. Len(seqs[turn[q]]) /\ w[q] = seqs[turn[q]][spot[q]]
        /\ \A p, q \in 1 .. h :
              p < q => turn[p] < turn[q] \/ (turn[p] = turn[q] /\ spot[p] < spot[q])
        /\ \A v \in 1 .. n : \A k \in 1 .. Len(seqs[v]) :
              \E q \in 1 .. h : turn[q] = v /\ spot[q] = k
    BY LenProperties DEF Enumerates
  <1>2. /\ x \in Seq(Node) /\ Len(x) = h + Len(s)
        /\ \A q \in 1 .. h + Len(s) : x[q] = IF q <= h THEN w[q] ELSE s[q - h]
    BY <1>1, ConcatProperties
  <1> HIDE DEF x, h
  <1>3. /\ DOMAIN turn2 = 1 .. Len(x) /\ DOMAIN spot2 = 1 .. Len(x)
        /\ \A q \in 1 .. Len(x) : /\ turn2[q] = IF q <= h THEN turn[q] ELSE n + 1
                                  /\ spot2[q] = IF q <= h THEN spot[q] ELSE q - h
        /\ turn2 = [q \in 1 .. Len(x) |-> turn2[q]]
        /\ spot2 = [q \in 1 .. Len(x) |-> spot2[q]]
    OBVIOUS
  <1> HIDE DEF turn2, spot2
  <1>4. ASSUME NEW q \in 1 .. Len(x)
        PROVE  \/ q \in 1 .. h
               \/ q \in Nat /\ ~(q <= h) /\ q - h \in 1 .. Len(s)
    BY <1>1, <1>2
  <1>5. ASSUME NEW q \in 1 .. Len(x)
        PROVE  /\ turn2[q] \in 1 .. n + 1 /\ spot2[q] \in Nat
               /\ spot2[q] \in 1 .. Len(seqs[turn2[q]])
               /\ x[q] = seqs[turn2[q]][spot2[q]]
    <2>1. CASE q \in 1 .. h
      <3>1. q <= h /\ q \in 1 .. h + Len(s)
        BY <1>1, <2>1
      <3>2. turn2[q] = turn[q] /\ spot2[q] = spot[q] /\ x[q] = w[q]
        BY <1>2, <1>3, <3>1
      <3>3. turn[q] \in 1 .. n + 1
        BY <1>1, <2>1
      <3> QED BY <1>1, <2>1, <3>2, <3>3
    <2>2. CASE q \in Nat /\ ~(q <= h) /\ q - h \in 1 .. Len(s)
      <3>1. turn2[q] = n + 1 /\ spot2[q] = q - h /\ x[q] = s[q - h]
        BY <1>2, <1>3, <2>2
      <3> QED BY <1>1, <2>2, <3>1
    <2> QED BY <1>4, <2>1, <2>2
  <1>6. ASSUME NEW p \in 1 .. Len(x), NEW q \in 1 .. Len(x), p < q
        PROVE  turn2[p] < turn2[q] \/ (turn2[p] = turn2[q] /\ spot2[p] < spot2[q])
    <2>1. p \in Nat /\ q \in Nat /\ h \in Nat
      BY <1>1, <1>2
    <2>2. CASE q <= h
      <3>1. p \in 1 .. h /\ q \in 1 .. h /\ p <= h
        BY <1>6, <2>1, <2>2
      <3> QED BY <1>1, <1>3, <1>6, <2>2, <3>1
    <2>3. CASE ~(q <= h) /\ p <= h
      <3>1. p \in 1 .. h
        BY <2>1, <2>3
      <3>2. turn[p] < n + 1
        BY <1>1, <3>1
      <3>3. turn2[p] = turn[p] /\ turn2[q] = n + 1
        BY <1>3, <2>3
      <3>4. turn2[p] < turn2[q]
        BY <3>2, <3>3, Zenon
      <3> QED BY <3>4
    <2>4. CASE ~(q <= h) /\ ~(p <= h)
      <3>1. p - h < q - h
        BY <1>6, <2>1
      <3> QED BY <1>3, <2>4, <3>1
    <2> QED BY <2>2, <2>3, <2>4
  <1>7. ASSUME NEW v \in 1 .. n + 1, NEW k \in 1 .. Len(seqs[v])
        PROVE  \E q \in 1 .. Len(x) : turn2[q] = v /\ spot2[q] = k
    <2>1. CASE v \in 1 .. n
      <3>1. PICK q \in 1 .. h : turn[q] = v /\ spot[q] = k
        BY <1>1, <2>1
      <3>2. q \in 1 .. Len(x) /\ q <= h
        BY <1>1, <1>2
      <3> QED BY <1>3, <3>1, <3>2
    <2>2. CASE v = n + 1
      <3>1. k + h \in 1 .. Len(x) /\ ~(k + h <= h) /\ (k + h) - h = k
        BY <1>1, <1>2, <2>2
      <3> QED BY <1>3, <2>2, <3>1
    <2> QED BY <2>1, <2>2
  <1>8. turn2 \in [1 .. Len(x) -> 1 .. n + 1] /\ spot2 \in [1 .. Len(x) -> Nat]
    BY <1>3, <1>5
  <1>9. Enumerates(x, turn2, spot2, seqs, n + 1)
    BY <1>2, <1>5, <1>6, <1>7, <1>8 DEF Enumerates
  <1> QED BY <1>9 DEF x

\* FlattenSeq walks through all of them.
LEMMA FlattenEnumerates ==
    ASSUME NEW seqs \in Seq(Seq(Node)), Len(seqs) # 0
    PROVE  \E turn, spot : Enumerates(FlattenSeq(seqs), turn, spot, seqs, Len(seqs))
  <1> DEFINE m == Len(seqs)
             Flat(g) == g = [i \in 1 .. m |-> IF i = 1 THEN seqs[i] ELSE g[i - 1] \o seqs[i]]
             flat == CHOOSE g : Flat(g)
             T == Seq(Node)
  <1>1. m \in Nat /\ m - 1 \in Nat /\ m # 0 /\ \A i \in 1 .. m : seqs[i] \in T
    BY LenProperties, ElementOfSeq
  <1>2. FlattenSeq(seqs) = flat[m]
    BY DEF FlattenSeq
  <1>3. \A x, y \in T : x \o y \in T
    BY ConcatProperties
  <1> HIDE DEF m, T
  <1>4. \E g : Flat(g)
    <2> DEFINE step == [i \in 1 .. m - 1 |-> [x \in T |-> x \o seqs[i + 1]]]
    <2>1. \A i \in 1 .. m - 1 : i + 1 \in 1 .. m
      BY <1>1
    <2>2. step \in [1 .. m - 1 -> [T -> T]]
      BY <1>1, <1>3, <2>1
    <2>3. \A i \in 1 .. m - 1 : \A x \in T : step[i][x] = x \o seqs[i + 1]
      OBVIOUS
    <2>4. seqs[1] \in T /\ m - 1 \in Nat
      BY <1>1
    <2> HIDE DEF step
    <2>5. PICK f \in [0 .. m - 1 -> T] : Obeys(f, m - 1, seqs[1], step)
      BY <2>2, <2>4, Iterated
    <2> DEFINE g == [i \in 1 .. m |-> f[i - 1]]
    <2>6. ASSUME NEW i \in 1 .. m
          PROVE  g[i] = IF i = 1 THEN seqs[i] ELSE g[i - 1] \o seqs[i]
      <3>1. CASE i = 1
        BY <2>5, <3>1 DEF Obeys
      <3>2. CASE i # 1
        <4>1. /\ i - 1 \in 1 .. m - 1 /\ (i - 1) + 1 = i /\ i - 1 \in 1 .. m
              /\ (i - 1) - 1 \in 0 .. m - 1
          BY <1>1, <3>2
        <4>2. g[i] = f[i - 1] /\ g[i - 1] = f[(i - 1) - 1] /\ f[(i - 1) - 1] \in T
          BY <2>5, <4>1
        <4>3. f[i - 1] = step[i - 1][f[(i - 1) - 1]]
          BY <2>5, <4>1 DEF Obeys
        <4>4. step[i - 1][f[(i - 1) - 1]] = f[(i - 1) - 1] \o seqs[(i - 1) + 1]
          BY <2>3, <4>1, <4>2
        <4> QED BY <3>2, <4>1, <4>2, <4>3, <4>4
      <3> QED BY <3>1, <3>2
    <2>7. g = [i \in 1 .. m |-> g[i]]
      OBVIOUS
    <2> HIDE DEF g
    <2>8. g = [i \in 1 .. m |-> IF i = 1 THEN seqs[i] ELSE g[i - 1] \o seqs[i]]
      BY <2>6, <2>7
    <2> QED BY <2>8
  <1>5. Flat(flat)
    BY <1>4
  <1> HIDE DEF flat
  <1>6. \A i \in 1 .. m : flat[i] = IF i = 1 THEN seqs[i] ELSE flat[i - 1] \o seqs[i]
    BY <1>5
  <1> DEFINE S == {i \in 0 .. m - 1 :
                      \E turn, spot : Enumerates(flat[i + 1], turn, spot, seqs, i + 1)}
  <1>7. 0 \in S
    <2>1. seqs[1] \in Seq(Node) /\ 0 + 1 = 1 /\ flat[1] = seqs[1] /\ 0 \in 0 .. m - 1
      BY <1>1, <1>6 DEF T
    <2>2. \E turn, spot : Enumerates(<<>> \o seqs[0 + 1], turn, spot, seqs, 0 + 1)
      BY <2>1, EmptyEnumerates, ConcatEnumerates
    <2>3. <<>> \o seqs[0 + 1] = flat[0 + 1]
      BY <2>1, ConcatEmptySeq
    <2> QED BY <2>1, <2>2, <2>3
  <1>8. ASSUME NEW i \in 1 .. m - 1, i - 1 \in S PROVE i \in S
    <2>1. (i - 1) + 1 = i /\ i \in Nat /\ i + 1 \in 1 .. m /\ (i + 1) - 1 = i /\ i + 1 # 1
      BY <1>1
    <2>2. PICK turn, spot : Enumerates(flat[i], turn, spot, seqs, i)
      BY <1>8, <2>1
    <2>3. seqs[i + 1] \in Seq(Node)
      BY <1>1, <2>1 DEF T
    <2>4. \E turn2, spot2 : Enumerates(flat[i] \o seqs[i + 1], turn2, spot2, seqs, i + 1)
      BY <2>1, <2>2, <2>3, ConcatEnumerates
    <2>5. flat[i + 1] = flat[i] \o seqs[i + 1]
      BY <1>6, <2>1
    <2>6. i \in 0 .. m - 1
      BY <1>1
    <2> QED BY <2>4, <2>5, <2>6
  <1>9. m - 1 \in S
    <2>1. \A i \in 1 .. m - 1 : i - 1 \in S => i \in S
      BY <1>8
    <2> HIDE DEF S
    <2>2. \A i \in 0 .. m - 1 : i \in S
      BY <1>1, <1>7, <2>1, Reaches
    <2> QED BY <1>1, <2>2
  <1>10. (m - 1) + 1 = m
    BY <1>1
  <1>11. \E turn, spot : Enumerates(flat[m], turn, spot, seqs, m)
    BY <1>9, <1>10
  <1> QED BY <1>2, <1>11 DEF m

-----------------------------------------------------------------------------
\* The i-th bucket is visited before the j-th one: on the way out if its bit
\* differs from ours, or on the way back if the bit of the other does not.
Before(i, j, id) ==
    \/ i < j /\ id[i - 1] # Self[i - 1]
    \/ j < i /\ id[j - 1] = Self[j - 1]

\* A list of all n buckets, each of them before those that follow it.
Tours(order, n, id) ==
    /\ order \in Seq(1 .. n) /\ Len(order) # 0
    /\ \A v, w \in 1 .. Len(order) : v < w => Before(order[v], order[w], id)
    /\ \A i \in 1 .. n : \E v \in 1 .. Len(order) : order[v] = i

\* The order in which a search visits the buckets is such a tour.
LEMMA VisitOrderProperties ==
    ASSUME NEW buckets \in Seq(Seq(Node)), Len(buckets) # 0, NEW id
    PROVE  Tours(VisitOrder(buckets, id), Len(buckets), id)
  <1> DEFINE n == Len(buckets)
             B == 1 .. n
             P == {i \in DOMAIN buckets : id[i - 1] # Self[i - 1]}
             Q == DOMAIN buckets \ P
             p == Ascending(P)
             q == Ascending(Q)
             c == Cardinality(P)
             d == Cardinality(Q)
             back == Reverse(q)
             order == p \o back
  <1>1. n \in Nat /\ n # 0 /\ DOMAIN buckets = B
    BY LenProperties
  <1>2. /\ P \in SUBSET B /\ Q \in SUBSET B
        /\ \A i \in P : id[i - 1] # Self[i - 1]
        /\ \A i \in Q : id[i - 1] = Self[i - 1]
        /\ \A i \in B : i \in P \/ i \in Q
    BY <1>1
  <1>3. VisitOrder(buckets, id) = order
    BY DEF VisitOrder
  <1> HIDE DEF P, Q
  <1>4. /\ c \in Nat /\ p \in [1 .. c -> P]
        /\ \A i, j \in 1 .. c : i < j => p[i] < p[j]
        /\ \A k \in P : \E j \in 1 .. c : p[j] = k
    BY <1>1, <1>2, AscendingProperties
  <1>5. /\ d \in Nat /\ q \in [1 .. d -> Q]
        /\ \A i, j \in 1 .. d : i < j => q[i] < q[j]
        /\ \A k \in Q : \E j \in 1 .. d : q[j] = k
    BY <1>1, <1>2, AscendingProperties
  <1> HIDE DEF n, B, p, q, c, d
  <1>6. p \in Seq(B) /\ Len(p) = c /\ q \in Seq(B) /\ Len(q) = d
    <2>1. p \in [1 .. c -> B] /\ q \in [1 .. d -> B]
      BY <1>2, <1>4, <1>5
    <2> QED BY <1>4, <1>5, <2>1, FunctionIsSeq
  <1>7. /\ back \in Seq(B) /\ Len(back) = d
        /\ \A j \in 1 .. d : back[j] = q[(d - j) + 1] /\ (d - j) + 1 \in 1 .. d
    <2>1. back = [j \in 1 .. d |-> q[(d - j) + 1]]
      BY <1>6 DEF Reverse
    <2>2. \A j \in 1 .. d : (d - j) + 1 \in 1 .. d
      BY <1>5
    <2> HIDE DEF back
    <2>3. back \in [1 .. d -> B] /\ \A j \in 1 .. d : back[j] = q[(d - j) + 1]
      BY <1>2, <1>5, <2>1, <2>2
    <2>4. back \in Seq(B) /\ Len(back) = d
      BY <1>5, <2>3, FunctionIsSeq
    <2> QED BY <2>2, <2>3, <2>4
  <1> HIDE DEF back
  <1>8. /\ order \in Seq(B) /\ Len(order) = c + d
        /\ \A v \in 1 .. c + d : order[v] = IF v <= c THEN p[v] ELSE back[v - c]
    <2>1. /\ order \in Seq(B) /\ Len(order) = Len(p) + Len(back)
          /\ \A v \in 1 .. Len(p) + Len(back) :
                order[v] = IF v <= Len(p) THEN p[v] ELSE back[v - Len(p)]
      BY <1>6, <1>7, ConcatProperties
    <2> HIDE DEF order
    <2> QED BY <1>6, <1>7, <2>1
  <1> HIDE DEF order
  <1>9. ASSUME NEW v \in 1 .. c + d
        PROVE  \/ v \in 1 .. c /\ order[v] = p[v] /\ order[v] \in P
               \/ /\ v > c /\ (d - (v - c)) + 1 \in 1 .. d /\ order[v] = q[(d - (v - c)) + 1]
                  /\ order[v] \in Q
    <2>1. CASE v <= c
      <3>1. v \in 1 .. c
        BY <1>4, <1>5, <2>1
      <3> QED BY <1>4, <1>8, <2>1, <3>1
    <2>2. CASE ~(v <= c)
      <3>1. v - c \in 1 .. d /\ v > c
        BY <1>4, <1>5, <2>2
      <3>2. order[v] = back[v - c]
        BY <1>8, <2>2
      <3>3. (d - (v - c)) + 1 \in 1 .. d /\ back[v - c] = q[(d - (v - c)) + 1]
        BY <1>7, <3>1
      <3>4. q[(d - (v - c)) + 1] \in Q
        BY <1>5, <3>3
      <3> QED BY <3>1, <3>2, <3>3, <3>4
    <2> QED BY <2>1, <2>2
  <1>10. \A i, j \in B : i # j => i < j \/ j < i
    BY <1>1 DEF B
  <1>11. ASSUME NEW v \in 1 .. c + d, NEW w \in 1 .. c + d, v < w
         PROVE  Before(order[v], order[w], id)
    <2>1. v \in Nat /\ w \in Nat /\ c \in Nat /\ d \in Nat
      BY <1>4, <1>5
    <2>2. CASE w \in 1 .. c
      <3>1. v \in 1 .. c /\ ~(v > c) /\ ~(w > c)
        BY <1>11, <2>1, <2>2
      <3>2. order[v] = p[v] /\ order[w] = p[w] /\ order[v] \in P /\ p[v] < p[w]
        BY <1>4, <1>9, <1>11, <3>1, <2>2
      <3> QED BY <1>2, <3>2 DEF Before
    <2>3. CASE w > c /\ v \in 1 .. c
      <3>1. ~(w \in 1 .. c) /\ ~(v > c)
        BY <2>1, <2>3
      <3>2. order[v] \in P /\ order[w] \in Q
        BY <1>9, <3>1
      <3>3. order[v] \in B /\ order[w] \in B /\ order[v] # order[w]
        BY <1>2, <3>2
      <3> QED BY <1>2, <1>10, <3>2, <3>3 DEF Before
    <2>4. CASE w > c /\ v > c
      <3>1. ~(w \in 1 .. c) /\ ~(v \in 1 .. c)
        BY <2>1, <2>4
      <3> DEFINE h == (d - (v - c)) + 1
                 k == (d - (w - c)) + 1
      <3>2. h \in 1 .. d /\ k \in 1 .. d /\ order[v] = q[h] /\ order[w] = q[k] /\ order[w] \in Q
        BY <1>9, <3>1
      <3>3. k < h
        BY <1>11, <2>1
      <3> HIDE DEF h, k
      <3>4. q[k] < q[h]
        BY <1>5, <3>2, <3>3
      <3> QED BY <1>2, <3>2, <3>4 DEF Before
    <2>5. w > c \/ w \in 1 .. c
      BY <1>9
    <2>6. v > c \/ v \in 1 .. c
      BY <1>9
    <2> QED BY <2>2, <2>3, <2>4, <2>5, <2>6
  <1>12. ASSUME NEW i \in B PROVE \E v \in 1 .. c + d : order[v] = i
    <2>1. CASE i \in P
      <3>1. PICK j \in 1 .. c : p[j] = i
        BY <1>4, <2>1
      <3>2. j \in 1 .. c + d /\ j <= c
        BY <1>4, <1>5
      <3> QED BY <1>8, <3>1, <3>2
    <2>2. CASE i \in Q
      <3>1. PICK j \in 1 .. d : q[j] = i
        BY <1>5, <2>2
      <3>2. (d - j) + 1 \in 1 .. d /\ (d - ((d - j) + 1)) + 1 = j
        BY <1>5
      <3>3. back[(d - j) + 1] = i
        BY <1>7, <3>1, <3>2
      <3> DEFINE k == (d - j) + 1
      <3>4. k + c \in 1 .. c + d /\ ~(k + c <= c) /\ (k + c) - c = k
        BY <1>4, <1>5, <3>2
      <3>5. back[k] = i
        BY <3>3
      <3> HIDE DEF k
      <3> QED BY <1>8, <3>4, <3>5
    <2> QED BY <1>2, <2>1, <2>2
  <1>13. Len(order) # 0
    <2>1. 1 \in B
      BY <1>1 DEF B
    <2>2. PICK v \in 1 .. c + d : order[v] = 1
      BY <1>12, <2>1
    <2> QED BY <1>4, <1>5, <1>8
  <1>14. Tours(order, n, id)
    BY <1>8, <1>11, <1>12, <1>13 DEF Tours, B
  <1> QED BY <1>3, <1>14 DEF n

\* A search comes across every node once: the q-th is the spot[q]-th node of the
\* bin[q]-th bucket.
Visited(buckets, id) ==
    FlattenSeq([v \in DOMAIN VisitOrder(buckets, id) |-> buckets[VisitOrder(buckets, id)[v]]])

Walks(w, bin, spot, buckets, id) ==
    /\ w \in Seq(Node)
    /\ \A q \in 1 .. Len(w) : /\ bin[q] \in 1 .. Len(buckets)
                              /\ spot[q] \in 1 .. Len(buckets[bin[q]])
                              /\ w[q] = buckets[bin[q]][spot[q]]
    /\ \A p, q \in 1 .. Len(w) :
          p < q => (bin[p] = bin[q] /\ spot[p] < spot[q]) \/ Before(bin[p], bin[q], id)
    /\ \A i \in 1 .. Len(buckets) : \A k \in 1 .. Len(buckets[i]) :
          \E q \in 1 .. Len(w) : bin[q] = i /\ spot[q] = k

\* The buckets are lists of nodes, and the search walks them one by one.
LEMMA VisitedWalks ==
    ASSUME NEW buckets, Sound(buckets), NEW id
    PROVE  \E bin, spot : Walks(Visited(buckets, id), bin, spot, buckets, id)
  <1> DEFINE order == VisitOrder(buckets, id)
             seqs == [v \in DOMAIN order |-> buckets[order[v]]]
             w == FlattenSeq(seqs)
             m == Len(order)
             n == Len(buckets)
             T == Seq(Node)
  <1>1. n \in Nat /\ n # 0 /\ buckets \in Seq(Seq(Node)) /\ \A i \in 1 .. n : buckets[i] \in T
    BY IdBitsAssumption, BucketType DEF Sound
  <1>2. Visited(buckets, id) = w
    BY DEF Visited
  <1>3. /\ order \in Seq(1 .. n) /\ m # 0
        /\ \A v, u \in 1 .. m : v < u => Before(order[v], order[u], id)
        /\ \A i \in 1 .. n : \E v \in 1 .. m : order[v] = i
    <2>1. Tours(order, n, id)
      BY <1>1, VisitOrderProperties
    <2> HIDE DEF order, n
    <2> QED BY <2>1 DEF Tours
  <1> HIDE DEF order
  <1>4. m \in Nat /\ DOMAIN order = 1 .. m /\ \A v \in 1 .. m : order[v] \in 1 .. n
    BY <1>3, LenProperties, ElementOfSeq
  <1> HIDE DEF n, T, m
  <1>5. seqs \in [1 .. m -> T] /\ \A v \in 1 .. m : seqs[v] = buckets[order[v]]
    BY <1>1, <1>4
  <1> HIDE DEF seqs
  <1>6. seqs \in Seq(T) /\ Len(seqs) = m
    BY <1>4, <1>5, FunctionIsSeq
  <1>7. PICK turn, spot : Enumerates(w, turn, spot, seqs, m)
    BY <1>3, <1>6, FlattenEnumerates DEF T
  <1> HIDE DEF w
  <1>8. /\ w \in Seq(Node) /\ turn \in [1 .. Len(w) -> 1 .. m]
        /\ \A q \in 1 .. Len(w) : spot[q] \in 1 .. Len(seqs[turn[q]]) /\ w[q] = seqs[turn[q]][spot[q]]
        /\ \A p, q \in 1 .. Len(w) :
              p < q => turn[p] < turn[q] \/ (turn[p] = turn[q] /\ spot[p] < spot[q])
        /\ \A v \in 1 .. m : \A k \in 1 .. Len(seqs[v]) :
              \E q \in 1 .. Len(w) : turn[q] = v /\ spot[q] = k
    BY <1>7 DEF Enumerates
  <1> DEFINE bin == [q \in 1 .. Len(w) |-> order[turn[q]]]
  <1>9. \A q \in 1 .. Len(w) : bin[q] = order[turn[q]]
    OBVIOUS
  <1> HIDE DEF bin
  <1>10. ASSUME NEW q \in 1 .. Len(w)
         PROVE  /\ bin[q] \in 1 .. n /\ spot[q] \in 1 .. Len(buckets[bin[q]])
                /\ w[q] = buckets[bin[q]][spot[q]]
    <2>1. turn[q] \in 1 .. m
      BY <1>8
    <2> QED BY <1>4, <1>5, <1>8, <1>9, <2>1
  <1>11. ASSUME NEW p \in 1 .. Len(w), NEW q \in 1 .. Len(w), p < q
         PROVE  (bin[p] = bin[q] /\ spot[p] < spot[q]) \/ Before(bin[p], bin[q], id)
    <2>1. turn[p] \in 1 .. m /\ turn[q] \in 1 .. m
      BY <1>8
    <2>2. CASE turn[p] < turn[q]
      BY <1>3, <1>9, <2>1, <2>2
    <2>3. CASE turn[p] = turn[q] /\ spot[p] < spot[q]
      BY <1>9, <2>3
    <2> QED BY <1>8, <1>11, <2>2, <2>3
  <1>12. ASSUME NEW i \in 1 .. n, NEW k \in 1 .. Len(buckets[i])
         PROVE  \E q \in 1 .. Len(w) : bin[q] = i /\ spot[q] = k
    <2>1. PICK v \in 1 .. m : order[v] = i
      BY <1>3
    <2>2. k \in 1 .. Len(seqs[v])
      BY <1>5, <2>1
    <2>3. PICK q \in 1 .. Len(w) : turn[q] = v /\ spot[q] = k
      BY <1>8, <2>2
    <2> QED BY <1>9, <2>1, <2>3
  <1>13. Walks(w, bin, spot, buckets, id)
    BY <1>8, <1>10, <1>11, <1>12 DEF Walks, n
  <1> QED BY <1>2, <1>13

\* No identifier is come across twice.
LEMMA VisitedOnce ==
    ASSUME NEW buckets, Sound(buckets), NEW id, NEW w, NEW bin, NEW spot,
           Walks(w, bin, spot, buckets, id),
           NEW p \in 1 .. Len(w), NEW q \in 1 .. Len(w), w[p].id = w[q].id
    PROVE  p = q
  <1>1. Len(w) \in Nat /\ p \in Nat /\ q \in Nat /\ \A i \in 1 .. Len(w) : i \in Nat
    BY LenProperties DEF Walks
  <1>2. /\ bin[p] \in 1 .. Len(buckets) /\ spot[p] \in 1 .. Len(buckets[bin[p]])
        /\ bin[q] \in 1 .. Len(buckets) /\ spot[q] \in 1 .. Len(buckets[bin[q]])
        /\ w[p] = buckets[bin[p]][spot[p]] /\ w[q] = buckets[bin[q]][spot[q]]
    BY DEF Walks
  <1>3. bin[p] = bin[q] /\ spot[p] = spot[q]
    <2> DEFINE i == bin[p]
               j == bin[q]
               k == spot[p]
               l == spot[q]
    <2>1. /\ i \in 1 .. Len(buckets) /\ k \in 1 .. Len(buckets[i])
          /\ j \in 1 .. Len(buckets) /\ l \in 1 .. Len(buckets[j])
          /\ buckets[i][k].id = buckets[j][l].id
      BY <1>2
    <2> HIDE DEF i, j, k, l
    <2>2. i = j /\ k = l
      BY <2>1, OnePlace
    <2> QED BY <2>2 DEF i, j, k, l
  <1>4. ~(bin[p] < bin[p]) /\ ~(spot[p] < spot[p])
    <2>1. Len(buckets) \in Nat /\ Len(buckets[bin[p]]) \in Nat
      BY <1>2, BucketType DEF Sound
    <2>2. bin[p] \in Nat /\ spot[p] \in Nat
      BY <1>2, <2>1
    <2> QED BY <2>2
  <1>5. ~Before(bin[p], bin[p], id)
    BY <1>4 DEF Before
  <1>6. ~(p < q)
    BY <1>3, <1>4, <1>5 DEF Walks
  <1>7. ~(q < p)
    BY <1>3, <1>4, <1>5 DEF Walks
  <1> QED BY <1>1, <1>6, <1>7

\* As many images as arguments.
LEMMA ImageCount ==
    ASSUME NEW D, IsFiniteSet(D), NEW f, DOMAIN f = D, \A x, y \in D : f[x] = f[y] => x = y
    PROVE  LET I == {f[x] : x \in D}
           IN  IsFiniteSet(I) /\ Cardinality(I) = Cardinality(D)
  <1> DEFINE I == {f[x] : x \in D}
             g == [x \in D |-> f[x]]
  <1>1. g \in [D -> I] /\ \A x \in D : g[x] = f[x]
    OBVIOUS
  <1>2. \A y \in I : \E x \in D : f[x] = y
    OBVIOUS
  <1> HIDE DEF I, g
  <1>3. g \in Injection(D, I)
    BY <1>1 DEF Injection, IsInjective
  <1>4. g \in Surjection(D, I)
    BY <1>1, <1>2 DEF Surjection
  <1>5. ExistsBijection(D, I)
    BY <1>3, <1>4 DEF ExistsBijection, Bijection
  <1>6. IsFiniteSet(I) /\ Cardinality(I) = Cardinality(D)
    BY <1>5, FS_Bijection
  <1> QED BY <1>6 DEF I

\* The least and the greatest of a set of numbers.
LEMMA MinProperties ==
    ASSUME NEW P \in SUBSET Nat, P # {}
    PROVE  Min(P) \in P /\ \A p \in P : Min(P) <= p
  BY LeastOne DEF Min

\* The greatest one, likewise.
LEMMA MaxProperties ==
    ASSUME NEW n \in Nat, NEW P \in SUBSET (1 .. n), P # {}
    PROVE  Max(P) \in P
  <1> DEFINE Q == {n - p : p \in P}
  <1>1. Q \in SUBSET Nat /\ Q # {}
    <2>1. \A p \in P : p \in 1 .. n /\ n - p \in Nat
      OBVIOUS
    <2> QED BY <2>1
  <1>2. PICK x \in Q : \A y \in Q : x <= y
    <2> HIDE DEF Q
    <2> QED BY <1>1, LeastOne
  <1>3. PICK m \in P : x = n - m
    OBVIOUS
  <1>4. \A p \in P : m >= p
    <2> SUFFICES ASSUME NEW p \in P PROVE m >= p
      OBVIOUS
    <2>1. n - m <= n - p
      BY <1>2, <1>3
    <2> QED BY <2>1
  <1> QED BY <1>4 DEF Max

\* A place in a sequence, or 0.
LEMMA FirstBound ==
    ASSUME NEW n \in Nat, NEW P \in SUBSET (1 .. n)
    PROVE  (IF P # {} THEN Min(P) ELSE 0) \in 0 .. n
  <1>1. P \in SUBSET Nat
    OBVIOUS
  <1>2. P # {} => Min(P) \in P
    BY <1>1, MinProperties
  <1>3. P # {} => Min(P) \in 1 .. n
    BY <1>2
  <1>4. P # {} => Min(P) \in 0 .. n
    BY <1>3
  <1> QED BY <1>4

-----------------------------------------------------------------------------
\* A search takes nodes out of the table, none of them alive, and counts no more
\* of them than it takes out.
Prunes(after, tbl) ==
    LET b == tbl.buckets
        c == after.buckets
    IN  /\ after = [buckets |-> c, num_peers |-> after.num_peers]
        /\ Sound(c) /\ Len(c) = Len(b)
        /\ \A i \in 1 .. Len(b) : Len(c[i]) \in Nat /\ Len(c[i]) <= Len(b[i])
        /\ \E d \in Nat : /\ after.num_peers = tbl.num_peers - d
                          /\ Cardinality(IdsIn(c)) + d <= Cardinality(IdsIn(b))
        /\ \A i \in 1 .. Len(b) : \A k \in 1 .. Len(b[i]) :
              b[i][k].is_alive => \E j \in 1 .. Len(c[i]) : c[i][j] = b[i][k]

\* What dht_client_search does to the table.
LEMMA SearchSound ==
    ASSUME NEW tbl, Sound(tbl.buckets), tbl.num_peers \in Nat, NEW id
    PROVE  Prunes(Search(tbl, id).table, tbl)
  <1> DEFINE b == tbl.buckets
             w == Visited(b, id)
             eligible == Only(w, {node \in ToSet(w) : Eligible(node)})
             count == IF Len(eligible) < DHT_NODE_COUNT THEN Len(eligible) ELSE DHT_NODE_COUNT
             stop == IF count < DHT_NODE_COUNT THEN Len(w)
                     ELSE SelectInSeq(w, LAMBDA node : node = eligible[count])
             deleted == {k \in 1 .. stop : ~Eligible(w[k])}
             D == {w[k] : k \in deleted}
             c == [i \in DOMAIN b |-> Only(b[i], ToSet(b[i]) \ D)]
             d == Cardinality(deleted)
             after == Search(tbl, id).table
             I == IdsIn(b)
             J == IdsIn(c)
  <1>1. after = [buckets |-> c, num_peers |-> tbl.num_peers - d]
    BY DEF Search, Visited
  <1>2. PICK bin, spot : Walks(w, bin, spot, b, id)
    BY VisitedWalks
  <1>3. b \in Seq(Seq(Node)) /\ DOMAIN b = 1 .. Len(b) /\ Len(b) \in Nat
    BY BucketType DEF Sound
  <1> HIDE DEF w, b
  <1>4. w \in Seq(Node) /\ Len(w) \in Nat
    BY <1>2, LenProperties DEF Walks
  <1>5. stop \in 0 .. Len(w)
    <2> DEFINE e == eligible[count]
               P == {i \in 1 .. Len(w) : w[i] = e}
               first == IF P # {} THEN Min(P) ELSE 0
    <2>1. stop = IF count < DHT_NODE_COUNT THEN Len(w) ELSE first
      BY DEF SelectInSeq
    <2> HIDE DEF e, count
    <2>2. P \in SUBSET (1 .. Len(w))
      OBVIOUS
    <2> HIDE DEF P
    <2>3. first \in 0 .. Len(w)
      BY <1>4, <2>2, FirstBound
    <2> HIDE DEF first, stop
    <2>4. Len(w) \in 0 .. Len(w)
      BY <1>4
    <2> QED BY <2>1, <2>3, <2>4
  <1> HIDE DEF stop
  <1>6. deleted \subseteq 1 .. Len(w) /\ \A k \in deleted : ~Eligible(w[k])
    BY <1>4, <1>5
  <1>7. \A x \in D : \E k \in deleted : x = w[k]
    OBVIOUS
  <1>8. \A k \in deleted : w[k] \in D
    OBVIOUS
  <1> HIDE DEF D, deleted
  <1>9. c = [i \in 1 .. Len(b) |-> Only(b[i], ToSet(b[i]) \ D)]
    BY <1>3
  <1> HIDE DEF c
  <1>10. /\ Sound(c) /\ Len(c) = Len(b)
         /\ \A i \in 1 .. Len(b) :
               /\ Len(c[i]) \in Nat /\ Len(c[i]) <= Len(b[i])
               /\ \A j \in 1 .. Len(c[i]) :
                     c[i][j] \notin D /\ \E k \in 1 .. Len(b[i]) : c[i][j] = b[i][k]
               /\ \A k \in 1 .. Len(b[i]) : b[i][k] \notin D =>
                     \E j \in 1 .. Len(c[i]) : c[i][j] = b[i][k]
    <2>1. Sound(b)
      BY DEF b
    <2>2. Thins(Thinned(b, D), b, D)
      BY <2>1, ThinnedSound
    <2>3. c = Thinned(b, D)
      BY <1>9 DEF Thinned
    <2>4. Thins(c, b, D)
      BY <2>2, <2>3
    <2> QED BY <2>4 DEF Thins
  <1> HIDE DEF after
  <1>11. IsFiniteSet(deleted) /\ d \in Nat
    <2>1. IsFiniteSet(1 .. Len(w))
      BY <1>4, FS_Interval
    <2>2. IsFiniteSet(deleted)
      BY <1>6, <2>1, FS_Subset
    <2> QED BY <2>2, FS_CardinalityType
  <1> HIDE DEF d
  <1> DEFINE f == [k \in deleted |-> w[k].id]
             G == {f[k] : k \in deleted}
  <1>12. IsFiniteSet(G) /\ Cardinality(G) = d
    <2>1. DOMAIN f = deleted /\ \A k \in deleted : f[k] = w[k].id
      OBVIOUS
    <2>2. \A p, q \in 1 .. Len(w) : w[p].id = w[q].id => p = q
      BY <1>2, VisitedOnce DEF b
    <2>3. \A p, q \in deleted : f[p] = f[q] => p = q
      BY <1>6, <2>1, <2>2
    <2> HIDE DEF f
    <2> QED BY <1>11, <2>1, <2>3, ImageCount DEF d
  <1>13. \A x \in G : \E k \in deleted : x = w[k].id
    OBVIOUS
  <1> HIDE DEF f, G
  <1>14. \A q \in 1 .. Len(w) : w[q].id \in I
    <2> SUFFICES ASSUME NEW q \in 1 .. Len(w) PROVE w[q].id \in I
      OBVIOUS
    <2>1. bin[q] \in 1 .. Len(b) /\ spot[q] \in 1 .. Len(b[bin[q]]) /\ w[q] = b[bin[q]][spot[q]]
      BY <1>2 DEF Walks
    <2> QED BY <2>1, IdMember
  <1>15. G \subseteq I
    BY <1>6, <1>13, <1>14
  <1>16. J \subseteq I \ G
    <2>1. \A x \in J : \E i \in 1 .. Len(b) : \E j \in 1 .. Len(c[i]) : x = c[i][j].id
      BY <1>10 DEF IdsIn, IdsOf
    <2> SUFFICES ASSUME NEW i \in 1 .. Len(b), NEW j \in 1 .. Len(c[i])
                 PROVE  c[i][j].id \in I \ G
      BY <2>1
    <2>2. PICK k \in 1 .. Len(b[i]) : c[i][j] = b[i][k]
      BY <1>10
    <2>3. PICK q \in 1 .. Len(w) : bin[q] = i /\ spot[q] = k
      BY <1>2 DEF Walks
    <2>4. c[i][j] = w[q]
      BY <1>2, <2>2, <2>3 DEF Walks
    <2>5. q \notin deleted
      BY <1>8, <1>10, <2>4
    <2>6. ASSUME w[q].id \in G PROVE FALSE
      <3>1. PICK k2 \in deleted : w[q].id = w[k2].id
        BY <1>13, <2>6
      <3>2. q = k2
        BY <1>2, <1>6, <3>1, VisitedOnce DEF b
      <3> QED BY <2>5, <3>2
    <2> QED BY <1>14, <2>4, <2>6
  <1>17. IsFiniteSet(I) /\ Cardinality(I) \in Nat /\ Cardinality(J) \in Nat
    BY <1>10, Census DEF b
  <1> HIDE DEF I, J
  <1>18. Cardinality(J) + d <= Cardinality(I)
    <2> DEFINE H == I \ G
    <2>1. IsFiniteSet(H) /\ Cardinality(H) = Cardinality(I) - Cardinality(I \cap G)
      BY <1>17, FS_Difference
    <2>2. I \cap G = G
      BY <1>15
    <2>3. J \subseteq H
      BY <1>16
    <2> HIDE DEF H
    <2>4. Cardinality(J) <= Cardinality(H)
      BY <2>1, <2>3, FS_Subset
    <2>5. Cardinality(H) = Cardinality(I) - d
      BY <1>12, <2>1, <2>2
    <2> QED BY <1>11, <1>17, <2>4, <2>5
  <1>19. ASSUME NEW i \in 1 .. Len(b), NEW k \in 1 .. Len(b[i]), b[i][k].is_alive
         PROVE  \E j \in 1 .. Len(c[i]) : c[i][j] = b[i][k]
    <2>1. \A x \in D : ~Eligible(x)
      BY <1>6, <1>7
    <2>2. b[i][k] \notin D
      BY <1>19, <2>1 DEF Eligible
    <2> QED BY <1>10, <2>2
  <1>20. after.buckets = c /\ after.num_peers = tbl.num_peers - d
    BY <1>1
  <1>21. Prunes(after, tbl)
    <2>1. after = [buckets |-> after.buckets, num_peers |-> after.num_peers]
      BY <1>1, <1>20
    <2>2. \E x \in Nat : /\ after.num_peers = tbl.num_peers - x
                         /\ Cardinality(IdsIn(c)) + x <= Cardinality(IdsIn(b))
      BY <1>11, <1>18, <1>20 DEF I, J
    <2> QED BY <1>10, <1>19, <1>20, <2>1, <2>2 DEF Prunes, b
  <1> QED BY <1>21 DEF after
-----------------------------------------------------------------------------
\* The nodes grow older where they are.
LEMMA AgedSound ==
    ASSUME NEW tbl, tbl = [buckets |-> tbl.buckets, num_peers |-> tbl.num_peers],
           Sound(tbl.buckets)
    PROVE  LET b == tbl.buckets
               c == Aged(tbl).buckets
           IN  /\ Aged(tbl) = [buckets |-> c, num_peers |-> tbl.num_peers]
               /\ Sound(c) /\ IdsIn(c) = IdsIn(b) /\ Len(c) = Len(b)
               /\ \A i \in 1 .. Len(b) : Len(c[i]) = Len(b[i])
               /\ \A i \in 1 .. Len(b) : \A k \in 1 .. Len(b[i]) : c[i][k].id = b[i][k].id
  <1> DEFINE b == tbl.buckets
             older(node) == [node EXCEPT !.age = IF @ < DHT_LINGER THEN @ + 1 ELSE @]
             bucket(i) == [k \in DOMAIN b[i] |-> older(b[i][k])]
             c == [i \in DOMAIN b |-> bucket(i)]
  <1>1. Aged(tbl) = [tbl EXCEPT !.buckets = c]
    BY DEF Aged
  <1>2. Aged(tbl) = [buckets |-> c, num_peers |-> tbl.num_peers]
    <2> HIDE DEF c
    <2> QED BY <1>1
  <1>3. /\ b \in Seq(Seq(Node)) /\ Len(b) \in Nat /\ DOMAIN b = 1 .. Len(b)
        /\ \A i \in 1 .. Len(b) :
              /\ b[i] \in Seq(Node)
              /\ Len(b[i]) \in Nat
              /\ DOMAIN b[i] = 1 .. Len(b[i])
              /\ \A k \in 1 .. Len(b[i]) : b[i][k] \in Node
    BY BucketType DEF Sound
  <1>4. ASSUME NEW node \in Node PROVE older(node) \in Node /\ older(node).id = node.id
    <2>1. DHT_LINGER \in Nat
      BY RoutingTableAssumption
    <2>2. node.age \in 0 .. DHT_LINGER
      BY DEF Node
    <2>3. (IF node.age < DHT_LINGER THEN node.age + 1 ELSE node.age) \in 0 .. DHT_LINGER
      BY <2>1, <2>2
    <2> DEFINE a == IF node.age < DHT_LINGER THEN node.age + 1 ELSE node.age
    <2>4. older(node) = [node EXCEPT !.age = a]
      OBVIOUS
    <2> HIDE DEF a, older
    <2> QED BY <2>3, <2>4 DEF Node, a
  <1> HIDE DEF older
  <1>5. ASSUME NEW i \in 1 .. Len(b)
        PROVE  /\ bucket(i) \in Seq(Node) /\ Len(bucket(i)) = Len(b[i])
               /\ \A k \in 1 .. Len(b[i]) : bucket(i)[k].id = b[i][k].id
    <2> DEFINE n == Len(b[i])
               s == bucket(i)
    <2>1. s \in [1 .. n -> Node] /\ n \in Nat /\ \A k \in 1 .. n : s[k].id = b[i][k].id
      BY <1>3, <1>4
    <2> HIDE DEF s, n
    <2>2. s \in Seq(Node) /\ Len(s) = n
      BY <2>1, FunctionIsSeq
    <2> QED BY <2>1, <2>2 DEF s, n
  <1>6. \A i \in 1 .. Len(b) : c[i] = bucket(i)
    BY <1>3
  <1> HIDE DEF bucket
  <1>7. c \in Seq(Seq(Node)) /\ Len(c) = Len(b)
    <2> DEFINE n == Len(b)
               T == Seq(Node)
    <2>1. c \in [1 .. n -> T] /\ n \in Nat
      BY <1>3, <1>5
    <2> HIDE DEF n, T, c
    <2>2. c \in Seq(T) /\ Len(c) = n
      BY <2>1, FunctionIsSeq
    <2> QED BY <2>2 DEF n, T
  <1> HIDE DEF c
  <1>8. ASSUME NEW i \in 1 .. Len(b)
        PROVE  /\ Len(c[i]) = Len(b[i]) /\ IdsOf(c[i]) = IdsOf(b[i])
               /\ \A k \in 1 .. Len(b[i]) : c[i][k].id = b[i][k].id
    BY <1>5, <1>6 DEF IdsOf
  <1>9. Sound(c)
    <2> SUFFICES ASSUME NEW i \in 1 .. Len(b)
                 PROVE  /\ Len(c[i]) <= DHT_NODE_COUNT
                        /\ Distinct(c[i]) /\ Keeps(c[i], i, Len(b))
      BY <1>7 DEF Sound
    <2>1. Len(b[i]) <= DHT_NODE_COUNT /\ Distinct(b[i]) /\ Keeps(b[i], i, Len(b))
      BY DEF Sound
    <2> QED BY <1>8, <2>1 DEF Distinct, Keeps
  <1>10. IdsIn(c) = IdsIn(b)
    BY <1>7, <1>8 DEF IdsIn
  <1>11. Aged(tbl).buckets = c
    BY <1>2
  <1> QED BY <1>2, <1>7, <1>8, <1>9, <1>10, <1>11

-----------------------------------------------------------------------------
\* The inductive invariant, for a table.
Good(tbl) ==
    /\ tbl = [buckets |-> tbl.buckets, num_peers |-> tbl.num_peers]
    /\ Sound(tbl.buckets)
    /\ Len(tbl.buckets[Len(tbl.buckets)]) < DHT_NODE_COUNT
    /\ tbl.num_peers \in Nat
    /\ Cardinality(IdsIn(tbl.buckets)) <= tbl.num_peers

\* Every live node of one list of buckets is in the other one.
LiveKept(b, c) ==
    \A i \in 1 .. Len(b) : \A k \in 1 .. Len(b[i]) :
        b[i][k].is_alive => \E h \in 1 .. Len(c) : \E l \in 1 .. Len(c[h]) : c[h][l].id = b[i][k].id

\* A node is in a list of buckets.
Holds(c, node) == \E h \in 1 .. Len(c) : \E l \in 1 .. Len(c[h]) : c[h][l] = node

\* There is no place for a newcomer in a bucket.
FullOfLive(bucket) == IsFull(bucket) /\ \A k \in 1 .. Len(bucket) : bucket[k].is_alive

\* A known node is refreshed,
LEMMA OverwriteGood ==
    ASSUME NEW tbl, Good(tbl),
           NEW i \in 1 .. Len(tbl.buckets), NEW k \in 1 .. Len(tbl.buckets[i]),
           NEW node \in Node, Belongs(node.id, i, Len(tbl.buckets)), node.id # Self,
           \A l \in 1 .. Len(tbl.buckets[i]) : l # k => tbl.buckets[i][l].id # node.id,
           node.id = tbl.buckets[i][k].id \/ ~tbl.buckets[i][k].is_alive
    PROVE  LET after == [tbl EXCEPT !.buckets[i][k] = node]
           IN  /\ Good(after) /\ LiveKept(tbl.buckets, after.buckets)
               /\ Holds(after.buckets, node)
  <1> DEFINE b == tbl.buckets
             c == [b EXCEPT ![i][k] = node]
             after == [tbl EXCEPT !.buckets[i][k] = node]
  <1>1. after = [buckets |-> c, num_peers |-> tbl.num_peers]
    <2>1. after = [tbl EXCEPT !.buckets = c]
      OBVIOUS
    <2>2. tbl = [buckets |-> b, num_peers |-> tbl.num_peers]
      BY DEF Good
    <2> HIDE DEF c, after
    <2> QED BY <2>1, <2>2
  <1>2. Overwrites(c, b, i, k, node)
    BY ExceptOverwrites DEF Good, Sound
  <1> HIDE DEF c, after
  <1>3. after.buckets = c /\ after.num_peers = tbl.num_peers
    BY <1>1
  <1>4. Sound(c) /\ Cardinality(IdsIn(c)) <= Cardinality(IdsIn(b))
    BY <1>2, OverwriteSound DEF Good
  <1>5. /\ Len(c) = Len(b) /\ \A j \in 1 .. Len(b) : (j # i => c[j] = b[j]) /\ Len(c[j]) = Len(b[j])
        /\ \A l \in 1 .. Len(b[i]) : c[i][l] = IF l = k THEN node ELSE b[i][l]
    BY <1>2 DEF Overwrites
  <1>6. Len(b) \in 1 .. Len(b)
    BY IdBitsAssumption DEF Good, Sound
  <1>7. Cardinality(IdsIn(c)) <= tbl.num_peers
    <2>1. Cardinality(IdsIn(b)) \in Nat /\ Cardinality(IdsIn(c)) \in Nat
      BY <1>4, Census DEF Good
    <2> QED BY <1>4, <2>1 DEF Good
  <1>8. Good(after)
    BY <1>1, <1>3, <1>4, <1>5, <1>6, <1>7 DEF Good
  <1>9. LiveKept(b, c)
    <2> SUFFICES ASSUME NEW h \in 1 .. Len(b), NEW l \in 1 .. Len(b[h]), b[h][l].is_alive
                 PROVE  l \in 1 .. Len(c[h]) /\ c[h][l].id = b[h][l].id
      BY <1>5 DEF LiveKept
    <2>1. CASE h = i
      BY <1>5, <2>1
    <2>2. CASE h # i
      BY <1>5, <2>2
    <2> QED BY <2>1, <2>2
  <1>10. Holds(c, node)
    <2>1. i \in 1 .. Len(c) /\ k \in 1 .. Len(c[i]) /\ c[i][k] = node
      BY <1>5
    <2> QED BY <2>1 DEF Holds
  <1> QED BY <1>3, <1>8, <1>9, <1>10 DEF after, b

\* a new one is entered, and may split the last bucket,
LEMMA InsertGood ==
    ASSUME NEW tbl, Good(tbl), NEW i \in 1 .. Len(tbl.buckets),
           Len(tbl.buckets[i]) < DHT_NODE_COUNT,
           NEW node \in Node, Belongs(node.id, i, Len(tbl.buckets)), node.id # Self,
           \A l \in 1 .. Len(tbl.buckets[i]) : tbl.buckets[i][l].id # node.id
    PROVE  LET after == InsertNode(tbl, i, node)
           IN  /\ Good(after)
               /\ Len(after.buckets) = Len(tbl.buckets) =>
                     LiveKept(tbl.buckets, after.buckets) /\ Holds(after.buckets, node)
  <1> DEFINE b == tbl.buckets
             e == [b EXCEPT ![i] = <<node>> \o @]
             c == IF i = Len(b) THEN SplitBuckets(e) ELSE e
             after == InsertNode(tbl, i, node)
  <1>1. after = [buckets |-> c, num_peers |-> tbl.num_peers + 1]
    BY DEF InsertNode
  <1>2. /\ Sound(e) /\ Len(e) = Len(b) /\ IdsIn(e) = IdsIn(b) \cup {node.id}
        /\ \A j \in 1 .. Len(b) : j # i => e[j] = b[j]
        /\ \A l \in 1 .. Len(b[i]) : l + 1 \in 1 .. Len(e[i]) /\ e[i][l + 1] = b[i][l]
        /\ 1 \in 1 .. Len(e[i]) /\ e[i][1] = node
    <2>1. Sound(b)
      BY DEF Good
    <2>2. Prepends(e, b, i, node)
      BY <2>1, PrependSound
    <2> HIDE DEF e
    <2> QED BY <2>2 DEF Prepends
  <1> HIDE DEF after, e
  <1>3. after.buckets = c /\ after.num_peers = tbl.num_peers + 1
    BY <1>1
  <1>4. Len(b) \in 1 .. Len(b) /\ Len(b) \in Nat
    BY IdBitsAssumption DEF Good, Sound
  <1>5. /\ Sound(c) /\ IdsIn(c) \subseteq IdsIn(e)
        /\ Len(c[Len(c)]) < DHT_NODE_COUNT
        /\ c = e \/ Len(c) > Len(e)
    <2>1. CASE i = Len(b)
      BY <1>2, <2>1, SplitBucketsSound
    <2>2. CASE i # Len(b)
      BY <1>2, <1>4, <2>2 DEF Good
    <2> QED BY <2>1, <2>2
  <1> HIDE DEF c
  <1> DEFINE I == IdsIn(b)
             J == IdsIn(c)
             K == I \cup {node.id}
  <1>6. IsFiniteSet(I) /\ Cardinality(I) \in Nat /\ Cardinality(J) \in Nat
    BY <1>5, Census DEF Good
  <1>7. J \subseteq K
    BY <1>2, <1>5
  <1> HIDE DEF I, J
  <1>8. IsFiniteSet(K) /\ Cardinality(K) <= Cardinality(I) + 1 /\ Cardinality(K) \in Nat
    <2>1. IsFiniteSet(K) /\ (Cardinality(K) = Cardinality(I) \/ Cardinality(K) = Cardinality(I) + 1)
      BY <1>6, FS_AddElement
    <2> QED BY <1>6, <2>1
  <1> HIDE DEF K
  <1>9. Cardinality(J) <= Cardinality(K)
    BY <1>7, <1>8, FS_Subset
  <1>10. tbl.num_peers \in Nat /\ Cardinality(I) <= tbl.num_peers
    BY DEF Good, I
  <1>11. Cardinality(J) <= tbl.num_peers + 1 /\ tbl.num_peers + 1 \in Nat
    BY <1>6, <1>8, <1>9, <1>10
  <1>12. Good(after)
    BY <1>1, <1>3, <1>5, <1>11 DEF Good, J
  <1>13. ASSUME Len(c) = Len(b) PROVE LiveKept(b, c)
    <2>1. c = e
      BY <1>2, <1>4, <1>5, <1>13
    <2>2. ASSUME NEW h \in 1 .. Len(b), NEW k \in 1 .. Len(b[h])
          PROVE  \E l \in 1 .. Len(c[h]) : c[h][l].id = b[h][k].id
      <3>1. CASE h = i
        <4>1. k + 1 \in 1 .. Len(e[i]) /\ e[i][k + 1] = b[i][k]
          BY <1>2, <3>1
        <4> QED BY <2>1, <3>1, <4>1
      <3>2. CASE h # i
        BY <1>2, <2>1, <3>2
      <3> QED BY <3>1, <3>2
    <2> HIDE DEF b
    <2> QED BY <1>13, <2>2 DEF LiveKept
  <1>14. ASSUME Len(c) = Len(b) PROVE Holds(c, node)
    <2>1. c = e
      BY <1>2, <1>4, <1>5, <1>14
    <2> QED BY <1>2, <2>1 DEF Holds
  <1> QED BY <1>3, <1>12, <1>13, <1>14 DEF after, b

\* as dht_client_update decides,
LEMMA UpdateGood ==
    ASSUME NEW tbl, Good(tbl), NEW id \in Id, id # Self, NEW addr \in Addr,
           NEW is_alive \in BOOLEAN
    PROVE  LET after == Update(tbl, id, addr, is_alive)
           IN  /\ Good(after)
               /\ Len(after.buckets) = Len(tbl.buckets) =>
                     /\ LiveKept(tbl.buckets, after.buckets)
                     /\ is_alive =>
                           \/ Holds(after.buckets, AliveNode(id, addr))
                           \/ FullOfLive(tbl.buckets[BucketIndex(tbl.buckets, id)])
  <1> DEFINE buckets == tbl.buckets
             b == BucketIndex(buckets, id)
             bucket == buckets[b]
             known == Known(bucket, id)
             replaceable == Replaceable(bucket)
             new == AliveNode(id, addr)
             after == Update(tbl, id, addr, is_alive)
  <1>1. /\ buckets \in Seq(Seq(Node)) /\ Len(buckets) # 0
        /\ b \in 1 .. Len(buckets) /\ Belongs(id, b, Len(buckets))
    <2>1. buckets \in Seq(Seq(Node)) /\ Len(buckets) # 0
      BY IdBitsAssumption DEF Good, Sound
    <2> QED BY <2>1, BucketIndexProperties
  <1>2. /\ bucket \in Seq(Node) /\ Len(bucket) \in Nat /\ DOMAIN bucket = 1 .. Len(bucket)
        /\ \A k \in 1 .. Len(bucket) : bucket[k] \in Node
        /\ Len(bucket) <= DHT_NODE_COUNT /\ Distinct(bucket)
    BY <1>1, BucketType DEF Good, Sound
  <1>3. new \in Node /\ new.id = id
    BY RoutingTableAssumption DEF AliveNode, Node
  <1>4. after = IF known # {} THEN
                    [tbl EXCEPT !.buckets[b][Min(known)] =
                                    UpdateKnown(bucket[Min(known)], addr, is_alive)]
                ELSE IF ~is_alive THEN tbl
                ELSE IF ~IsFull(bucket) THEN InsertNode(tbl, b, new)
                ELSE IF replaceable = {} THEN tbl
                ELSE [tbl EXCEPT !.buckets[b][Max(replaceable)] = new]
    BY DEF Update
  <1>5. \A k \in 1 .. Len(bucket) : k \in known <=> bucket[k].id = id
    BY <1>2 DEF Known
  <1>6. known \in SUBSET (1 .. Len(bucket)) /\ known \in SUBSET Nat
    BY <1>2 DEF Known
  <1>7. /\ replaceable \in SUBSET (1 .. Len(bucket))
        /\ \A k \in replaceable : ~bucket[k].is_alive
    BY <1>2 DEF Replaceable
  <1>13. replaceable = {} => \A k \in 1 .. Len(bucket) : bucket[k].is_alive
    BY <1>2 DEF Replaceable
  <1> DEFINE placed == Holds(after.buckets, new) \/ FullOfLive(bucket)
             done == /\ Good(after)
                     /\ Len(after.buckets) = Len(buckets) =>
                           LiveKept(buckets, after.buckets) /\ (is_alive => placed)
  <1> HIDE DEF after, known, replaceable, new, b, placed
  <1>8. LiveKept(buckets, buckets)
    BY DEF LiveKept
  <1>9. ASSUME known # {} PROVE done
    <2> DEFINE k == Min(known)
               node == UpdateKnown(bucket[k], addr, is_alive)
    <2>1. k \in 1 .. Len(bucket) /\ bucket[k].id = id /\ bucket[k] \in Node
      BY <1>2, <1>5, <1>6, <1>9, MinProperties
    <2>2. after = [tbl EXCEPT !.buckets[b][k] = node]
      BY <1>4, <1>9
    <2> HIDE DEF k
    <2>3. node \in Node /\ node.id = id /\ (is_alive => node = new)
      <3> DEFINE x == bucket[k]
      <3>1. x \in Node /\ x.id = id
        BY <2>1
      <3> HIDE DEF x
      <3>2. [x EXCEPT !.is_alive = FALSE] \in Node /\ [x EXCEPT !.is_alive = FALSE].id = id
        BY <3>1 DEF Node
      <3>3. AliveNode(x.id, addr) \in Node /\ AliveNode(x.id, addr).id = id
        BY <3>1, RoutingTableAssumption DEF AliveNode, Node
      <3>4. /\ UpdateKnown(x, addr, is_alive) \in Node /\ UpdateKnown(x, addr, is_alive).id = id
            /\ is_alive => UpdateKnown(x, addr, is_alive) = new
        BY <3>1, <3>2, <3>3 DEF UpdateKnown, new
      <3> QED BY <3>4 DEF x
    <2>4. \A l \in 1 .. Len(bucket) : l # k => bucket[l].id # id
      BY <1>2, <2>1 DEF Distinct
    <2> HIDE DEF node
    <2>5. Good(after) /\ LiveKept(buckets, after.buckets) /\ Holds(after.buckets, node)
      BY <1>1, <2>1, <2>2, <2>3, <2>4, OverwriteGood, RoutingTableAssumption
    <2>6. is_alive => placed
      BY <2>3, <2>5 DEF placed
    <2> QED BY <2>5, <2>6
  <1>10. ASSUME known = {} /\ (~is_alive \/ (IsFull(bucket) /\ replaceable = {})) PROVE done
    <2>1. after = tbl
      BY <1>4, <1>10
    <2>2. is_alive => placed
      BY <1>10, <1>13 DEF placed, FullOfLive
    <2> QED BY <1>8, <2>1, <2>2
  <1>11. ASSUME known = {} /\ is_alive /\ ~IsFull(bucket) PROVE done
    <2>1. after = InsertNode(tbl, b, new)
      BY <1>4, <1>11
    <2>2. Len(bucket) < DHT_NODE_COUNT
      BY <1>2, <1>11, RoutingTableAssumption DEF IsFull
    <2>3. \A l \in 1 .. Len(bucket) : bucket[l].id # new.id
      BY <1>3, <1>5, <1>11
    <2>4. /\ Good(after)
          /\ Len(after.buckets) = Len(buckets) =>
                LiveKept(buckets, after.buckets) /\ Holds(after.buckets, new)
      BY <1>1, <1>3, <2>1, <2>2, <2>3, InsertGood
    <2> QED BY <2>4 DEF placed
  <1>12. ASSUME known = {} /\ is_alive /\ IsFull(bucket) /\ replaceable # {} PROVE done
    <2> DEFINE k == Max(replaceable)
    <2>1. after = [tbl EXCEPT !.buckets[b][k] = new]
      BY <1>4, <1>12
    <2>2. k \in 1 .. Len(bucket) /\ ~bucket[k].is_alive
      BY <1>2, <1>7, <1>12, MaxProperties
    <2> HIDE DEF k
    <2>3. \A l \in 1 .. Len(bucket) : bucket[l].id # new.id
      BY <1>3, <1>5, <1>12
    <2>4. Good(after) /\ LiveKept(buckets, after.buckets) /\ Holds(after.buckets, new)
      BY <1>1, <1>3, <2>1, <2>2, <2>3, OverwriteGood
    <2> QED BY <2>4 DEF placed
  <1> HIDE DEF done
  <1>14. done
    BY <1>9, <1>10, <1>11, <1>12
  <1> QED BY <1>14 DEF done, after, placed, new, b

\* a search drops the nodes that have not answered,
LEMMA SearchGood ==
    ASSUME NEW tbl, Good(tbl), NEW id
    PROVE  LET after == Search(tbl, id).table
           IN  Good(after) /\ LiveKept(tbl.buckets, after.buckets)
  <1> DEFINE b == tbl.buckets
             after == Search(tbl, id).table
             c == after.buckets
  <1>1. Sound(b) /\ tbl.num_peers \in Nat
    BY DEF Good
  <1>2. /\ after = [buckets |-> c, num_peers |-> after.num_peers]
        /\ Sound(c) /\ Len(c) = Len(b)
        /\ \A i \in 1 .. Len(b) : Len(c[i]) \in Nat /\ Len(c[i]) <= Len(b[i])
        /\ \E d \in Nat : /\ after.num_peers = tbl.num_peers - d
                          /\ Cardinality(IdsIn(c)) + d <= Cardinality(IdsIn(b))
        /\ \A i \in 1 .. Len(b) : \A k \in 1 .. Len(b[i]) :
              b[i][k].is_alive => \E j \in 1 .. Len(c[i]) : c[i][j] = b[i][k]
    <2>1. Prunes(after, tbl)
      BY <1>1, SearchSound
    <2> HIDE DEF after
    <2> QED BY <2>1 DEF Prunes
  <1> HIDE DEF after
  <1>3. PICK d \in Nat : /\ after.num_peers = tbl.num_peers - d
                         /\ Cardinality(IdsIn(c)) + d <= Cardinality(IdsIn(b))
    BY <1>2
  <1>4. /\ Cardinality(IdsIn(b)) \in Nat /\ Cardinality(IdsIn(c)) \in Nat
        /\ Cardinality(IdsIn(b)) <= tbl.num_peers
    BY <1>1, <1>2, Census DEF Good
  <1>5. after.num_peers \in Nat /\ Cardinality(IdsIn(c)) <= after.num_peers
    BY <1>1, <1>3, <1>4
  <1>6. Len(c[Len(c)]) < DHT_NODE_COUNT
    <2>1. Len(b) \in 1 .. Len(b) /\ b \in Seq(Seq(Node))
      BY <1>1, IdBitsAssumption DEF Sound
    <2>2. Len(b[Len(b)]) \in Nat /\ Len(b[Len(b)]) < DHT_NODE_COUNT
      BY <2>1, BucketType DEF Good
    <2>3. Len(c[Len(b)]) \in Nat /\ Len(c[Len(b)]) <= Len(b[Len(b)])
      BY <1>2, <2>1
    <2>4. Len(c[Len(b)]) < DHT_NODE_COUNT
      BY <2>2, <2>3, RoutingTableAssumption
    <2> QED BY <1>2, <2>4
  <1>7. Good(after)
    BY <1>2, <1>5, <1>6 DEF Good
  <1>8. LiveKept(b, c)
    <2> SUFFICES ASSUME NEW i \in 1 .. Len(b), NEW k \in 1 .. Len(b[i]), b[i][k].is_alive
                 PROVE  \E l \in 1 .. Len(c[i]) : c[i][l].id = b[i][k].id
      BY <1>2 DEF LiveKept
    <2>1. PICK j \in 1 .. Len(c[i]) : c[i][j] = b[i][k]
      BY <1>2
    <2> QED BY <2>1
  <1> QED BY <1>7, <1>8 DEF after

\* and time passes.
LEMMA AgedGood ==
    ASSUME NEW tbl, Good(tbl)
    PROVE  Good(Aged(tbl)) /\ LiveKept(tbl.buckets, Aged(tbl).buckets)
  <1> DEFINE b == tbl.buckets
             after == Aged(tbl)
             c == after.buckets
  <1>1. /\ after = [buckets |-> c, num_peers |-> tbl.num_peers]
        /\ Sound(c) /\ IdsIn(c) = IdsIn(b) /\ Len(c) = Len(b)
        /\ \A i \in 1 .. Len(b) : Len(c[i]) = Len(b[i])
        /\ \A i \in 1 .. Len(b) : \A k \in 1 .. Len(b[i]) : c[i][k].id = b[i][k].id
    BY AgedSound DEF Good
  <1> HIDE DEF after
  <1>2. after.num_peers = tbl.num_peers
    BY <1>1
  <1>3. Len(b) \in 1 .. Len(b)
    BY IdBitsAssumption DEF Good, Sound
  <1>4. Good(after)
    BY <1>1, <1>2, <1>3 DEF Good
  <1>5. LiveKept(b, c)
    BY <1>1 DEF LiveKept
  <1> QED BY <1>4, <1>5 DEF after

-----------------------------------------------------------------------------
\* The nodes of a bucket visited before another one are nearer: they share with
\* the identifier the first bit in which the two buckets differ.
LEMMA BeforeIsNearer ==
    ASSUME NEW n \in 1 .. IdBits, NEW i \in 1 .. n, NEW j \in 1 .. n,
           NEW id \in Id, NEW x \in Id, NEW y \in Id,
           Belongs(x, i, n), Belongs(y, j, n), Before(i, j, id)
    PROVE  Less(Xor(x, id), Xor(y, id))
  <1> DEFINE m == IF i < j THEN i - 1 ELSE j - 1
  <1>1. /\ IdBits \in Nat /\ n \in Nat /\ i \in Nat /\ j \in Nat
        /\ Self \in Id
    BY IdBitsAssumption, RoutingTableAssumption
  <1>2. ASSUME NEW k \in Bits, k < m PROVE x[k] = Self[k] /\ y[k] = Self[k]
    <2>1. k + 1 \in 1 .. i - 1 /\ k + 1 \in 1 .. j - 1 /\ (k + 1) - 1 = k
      BY <1>1, <1>2 DEF Bits
    <2> QED BY <2>1 DEF Belongs
  <1>3. m \in Bits
    BY <1>1 DEF Bits
  <1>4. x[m] = id[m] /\ y[m] # id[m]
    <2>1. /\ x[m] \in {0, 1} /\ y[m] \in {0, 1} /\ id[m] \in {0, 1} /\ Self[m] \in {0, 1}
      BY <1>1, <1>3 DEF Id
    <2> HIDE DEF m
    <2>2. CASE i < j /\ id[i - 1] # Self[i - 1]
      <3>1. i # n /\ i \in 1 .. j - 1 /\ m = i - 1
        BY <1>1, <2>2 DEF m
      <3>2. x[m] # Self[m] /\ y[m] = Self[m] /\ id[m] # Self[m]
        BY <2>2, <3>1 DEF Belongs
      <3> QED BY <2>1, <3>2
    <2>3. CASE j < i /\ id[j - 1] = Self[j - 1]
      <3>1. j # n /\ j \in 1 .. i - 1 /\ m = j - 1
        BY <1>1, <2>3 DEF m
      <3>2. x[m] = Self[m] /\ y[m] # Self[m] /\ id[m] = Self[m]
        BY <2>3, <3>1 DEF Belongs
      <3> QED BY <2>1, <3>2
    <2> QED BY <2>2, <2>3 DEF Before
  <1> HIDE DEF m
  <1>5. \A k \in Bits : /\ Xor(x, id)[k] = IF x[k] = id[k] THEN 0 ELSE 1
                        /\ Xor(y, id)[k] = IF y[k] = id[k] THEN 0 ELSE 1
    BY DEF Xor
  <1>6. Xor(x, id)[m] < Xor(y, id)[m]
    BY <1>3, <1>4, <1>5
  <1>7. \A k \in Bits : k < m => Xor(x, id)[k] = Xor(y, id)[k]
    BY <1>2, <1>5
  <1> QED BY <1>3, <1>6, <1>7 DEF Less

\* What SearchNearest says of one identifier.
Nearest(tbl, id) ==
    LET found == ToSet(Search(tbl, id).nodes)
        eligible == {node \in NodesOf(tbl) : Eligible(node)}
        left == {node \in eligible : [id |-> node.id, addr |-> node.addr] \notin found}
        size == Cardinality(eligible)
    IN  /\ Cardinality(found) = IF size < DHT_NODE_COUNT THEN size ELSE DHT_NODE_COUNT
        /\ \A near \in found, far \in left :
              \/ Less(Xor(near.id, id), Xor(far.id, id))
              \/ BucketIndex(tbl.buckets, near.id) = BucketIndex(tbl.buckets, far.id)

\* And what is left out is not nearer than what is found, unless they are in
\* the same bucket: the search has come to it later.
LEMMA SearchIsNearest ==
    ASSUME NEW tbl, Sound(tbl.buckets), NEW id \in Id
    PROVE  Nearest(tbl, id)
  <1> DEFINE b == tbl.buckets
             w == Visited(b, id)
             S == {node \in ToSet(w) : Eligible(node)}
             el == Only(w, S)
             m == Len(el)
             count == IF m < DHT_NODE_COUNT THEN m ELSE DHT_NODE_COUNT
             nodes == [k \in 1 .. count |-> [id |-> el[k].id, addr |-> el[k].addr]]
             found == ToSet(nodes)
             eligible == {node \in NodesOf(tbl) : Eligible(node)}
             left == {node \in eligible : [id |-> node.id, addr |-> node.addr] \notin found}
  <1>1. Search(tbl, id).nodes = nodes
    BY DEF Search, Visited
  <1>2. PICK bin, spot : Walks(w, bin, spot, b, id)
    BY VisitedWalks
  <1>3. /\ b \in Seq(Seq(Node)) /\ DOMAIN b = 1 .. Len(b) /\ Len(b) \in 1 .. IdBits
        /\ \A i \in 1 .. Len(b) : DOMAIN b[i] = 1 .. Len(b[i])
    BY BucketType DEF Sound
  <1> HIDE DEF w
  <1>4. w \in Seq(Node) /\ Len(w) \in Nat /\ DOMAIN w = 1 .. Len(w)
    BY <1>2, LenProperties DEF Walks
  <1>5. \A q \in 1 .. Len(w) : w[q] \in S <=> Eligible(w[q])
    BY <1>4 DEF ToSet
  <1> HIDE DEF S
  <1>6. el \in Seq(Node) /\ m \in Nat /\ DOMAIN el = 1 .. m /\ m <= Len(w)
    BY <1>4, OnlyProperties, LenProperties
  <1>7. PICK at \in [1 .. m -> 1 .. Len(w)] :
            /\ \A j \in 1 .. m : el[j] = w[at[j]] /\ w[at[j]] \in S
            /\ \A i, j \in 1 .. m : i < j => at[i] < at[j]
            /\ \A k \in 1 .. Len(w) : w[k] \in S => \E j \in 1 .. m : at[j] = k
    <2>1. \E at \in [1 .. Len(el) -> 1 .. Len(w)] :
              /\ \A j \in 1 .. Len(el) : el[j] = w[at[j]] /\ w[at[j]] \in S
              /\ \A i, j \in 1 .. Len(el) : i < j => at[i] < at[j]
              /\ \A k \in 1 .. Len(w) : w[k] \in S => \E j \in 1 .. Len(el) : at[j] = k
      <3>1. Selects(el, w, S)
        BY <1>4, OnlySelects
      <3> HIDE DEF el
      <3> QED BY <3>1 DEF Selects
    <2> HIDE DEF el
    <2> QED BY <2>1
  <1> HIDE DEF el, m
  <1>8. \A i, j \in 1 .. m : el[i].id = el[j].id => i = j
    <2> SUFFICES ASSUME NEW i \in 1 .. m, NEW j \in 1 .. m, el[i].id = el[j].id PROVE i = j
      OBVIOUS
    <2> DEFINE p == at[i]
               q == at[j]
    <2>1. p \in 1 .. Len(w) /\ q \in 1 .. Len(w) /\ w[p].id = w[q].id
      BY <1>7
    <2> HIDE DEF p, q
    <2>2. p = q
      BY <1>2, <2>1, VisitedOnce
    <2>3. i \in Nat /\ j \in Nat /\ ~(at[i] < at[j]) /\ ~(at[j] < at[i])
      <3>1. at[i] = at[j] /\ at[i] \in 1 .. Len(w)
        BY <2>1, <2>2 DEF p, q
      <3> QED BY <1>4, <1>6, <3>1
    <2> QED BY <1>7, <2>3
  \* The eligible nodes of the table are those of the search.
  <1>9. eligible = {el[j] : j \in 1 .. m}
    <2>1. ASSUME NEW j \in 1 .. m PROVE el[j] \in eligible
      <3> DEFINE q == at[j]
      <3>1. q \in 1 .. Len(w) /\ el[j] = w[q] /\ Eligible(w[q])
        BY <1>5, <1>7
      <3> HIDE DEF q
      <3>2. /\ bin[q] \in 1 .. Len(b) /\ spot[q] \in 1 .. Len(b[bin[q]])
            /\ w[q] = b[bin[q]][spot[q]]
        BY <1>2, <3>1 DEF Walks
      <3> QED BY <1>3, <3>1, <3>2 DEF NodesOf, ToSet
    <2>2. ASSUME NEW node \in eligible PROVE \E j \in 1 .. m : node = el[j]
      <3>1. PICK i \in 1 .. Len(b) : node \in ToSet(b[i])
        BY <1>3 DEF NodesOf
      <3>2. PICK k \in 1 .. Len(b[i]) : node = b[i][k]
        BY <1>3, <3>1 DEF ToSet
      <3>3. PICK q \in 1 .. Len(w) : bin[q] = i /\ spot[q] = k
        BY <1>2 DEF Walks
      <3>4. node = w[q] /\ Eligible(node)
        BY <1>2, <3>2, <3>3 DEF Walks
      <3>5. PICK j \in 1 .. m : at[j] = q
        BY <1>5, <1>7, <3>4
      <3> QED BY <1>7, <3>4, <3>5
    <2> HIDE DEF eligible
    <2> QED BY <2>1, <2>2
  <1> HIDE DEF eligible
  <1>10. count \in Nat /\ count <= m /\ \A k \in 1 .. count : k \in 1 .. m
    BY <1>6, RoutingTableAssumption
  <1>11. Cardinality(eligible) = m
    <2>1. IsFiniteSet(1 .. m) /\ Cardinality(1 .. m) = m
      BY <1>6, FS_Interval
    <2>2. \A i, j \in 1 .. m : el[i] = el[j] => i = j
      BY <1>8
    <2> DEFINE D == 1 .. m
    <2>3. IsFiniteSet(D) /\ DOMAIN el = D /\ \A i, j \in D : el[i] = el[j] => i = j
      BY <1>6, <2>1, <2>2
    <2> HIDE DEF D
    <2>4. Cardinality({el[j] : j \in D}) = Cardinality(D)
      BY <2>3, ImageCount
    <2> QED BY <1>9, <2>1, <2>4 DEF D
  <1>12. count = IF Cardinality(eligible) < DHT_NODE_COUNT THEN Cardinality(eligible)
                 ELSE DHT_NODE_COUNT
    BY <1>11
  <1> HIDE DEF count
  <1>13. /\ DOMAIN nodes = 1 .. count
         /\ \A k \in 1 .. count : nodes[k] = [id |-> el[k].id, addr |-> el[k].addr]
    OBVIOUS
  <1> HIDE DEF nodes
  <1>14. found = {nodes[k] : k \in 1 .. count}
    BY <1>13 DEF ToSet
  <1> HIDE DEF found
  <1>15. \A k \in 1 .. count : nodes[k].id = el[k].id
    BY <1>13
  <1>16. Cardinality(found) = count
    <2>1. IsFiniteSet(1 .. count) /\ Cardinality(1 .. count) = count
      BY <1>10, FS_Interval
    <2>2. \A i, j \in 1 .. count : nodes[i] = nodes[j] => i = j
      BY <1>8, <1>10, <1>15
    <2> DEFINE D == 1 .. count
    <2>3. IsFiniteSet(D) /\ DOMAIN nodes = D /\ \A i, j \in D : nodes[i] = nodes[j] => i = j
      BY <1>13, <2>1, <2>2
    <2> HIDE DEF D
    <2>4. Cardinality({nodes[j] : j \in D}) = Cardinality(D)
      BY <2>3, ImageCount
    <2> QED BY <1>14, <2>1, <2>4 DEF D
  <1>17. ASSUME NEW near \in found, NEW far \in left
         PROVE  \/ Less(Xor(near.id, id), Xor(far.id, id))
                \/ BucketIndex(b, near.id) = BucketIndex(b, far.id)
    <2>1. PICK j \in 1 .. count : near = nodes[j]
      BY <1>14
    <2>2. PICK k \in 1 .. m : far = el[k]
      BY <1>9
    <2>3. k \notin 1 .. count
      <3>1. [id |-> el[k].id, addr |-> el[k].addr] \notin found
        BY <2>2
      <3> QED BY <1>13, <1>14, <3>1
    <2>4. j \in 1 .. m /\ j < k /\ near.id = el[j].id
      BY <1>6, <1>10, <1>15, <2>1, <2>3
    <2> DEFINE p == at[j]
               q == at[k]
               x == el[j].id
               y == el[k].id
    <2>5. /\ p \in 1 .. Len(w) /\ q \in 1 .. Len(w) /\ p < q
          /\ x = w[p].id /\ y = w[q].id
      BY <1>7, <2>4
    <2> HIDE DEF p, q, x, y
    <2> DEFINE h == bin[p]
               i == bin[q]
               n == Len(b)
    <2>6. /\ h \in 1 .. n /\ i \in 1 .. n
          /\ x \in Id /\ y \in Id /\ Belongs(x, h, n) /\ Belongs(y, i, n)
      <3>1. \A v \in 1 .. Len(w) : /\ bin[v] \in 1 .. n /\ spot[v] \in 1 .. Len(b[bin[v]])
                                   /\ w[v] = b[bin[v]][spot[v]]
        BY <1>2 DEF Walks
      <3>2. \A v \in 1 .. Len(w) : w[v] \in Node /\ Belongs(w[v].id, bin[v], n)
        BY <1>4, <3>1, ElementOfSeq DEF Sound, Keeps
      <3> QED BY <2>5, <3>1, <3>2 DEF Node
    <2>7. h = i \/ Before(h, i, id)
      BY <1>2, <2>5 DEF Walks
    <2> HIDE DEF h, i, n
    <2>8. CASE h = i
      <3>1. BucketIndex(b, x) = h /\ BucketIndex(b, y) = i
        <4>1. Len(b) # 0 /\ Len(b) = n
          BY <1>3, IdBitsAssumption DEF n
        <4> QED BY <1>3, <2>6, <4>1, BucketIndexProperties
      <3> QED BY <2>2, <2>4, <2>8, <3>1 DEF x, y
    <2>9. CASE Before(h, i, id)
      <3>1. n \in 1 .. IdBits
        BY <1>3 DEF n
      <3>2. Less(Xor(x, id), Xor(y, id))
        BY <2>6, <2>9, <3>1, BeforeIsNearer
      <3> QED BY <2>2, <2>4, <3>2 DEF x, y
    <2> QED BY <2>7, <2>8, <2>9
  <1> QED BY <1>1, <1>12, <1>16, <1>17 DEF Nearest, found, eligible
-----------------------------------------------------------------------------
\* A table has no nodes at first.
LEMMA EmptyIsGood == Good(EmptyTable)
  <1> DEFINE none == <<>>
             b == <<none>>
  <1>1. /\ EmptyTable = [buckets |-> b, num_peers |-> 0]
        /\ EmptyTable.buckets = b /\ EmptyTable.num_peers = 0
    BY DEF EmptyTable
  <1>2. /\ none \in Seq(Node) /\ Len(none) = 0 /\ 1 .. 0 = {}
    OBVIOUS
  <1> HIDE DEF none
  <1>3. b \in Seq(Seq(Node)) /\ Len(b) = 1 /\ b[1] = none /\ 1 .. 1 = {1}
    BY <1>2
  <1> HIDE DEF b
  <1>4. Sound(b)
    <2>1. 1 \in 1 .. IdBits /\ 0 <= DHT_NODE_COUNT
      BY IdBitsAssumption, RoutingTableAssumption
    <2> QED BY <1>2, <1>3, <2>1 DEF Sound, Distinct, Keeps
  <1>5. IdsIn(b) = {}
    BY <1>2, <1>3 DEF IdsIn, IdsOf
  <1>6. Cardinality(IdsIn(b)) = 0
    BY <1>5, FS_EmptySet
  <1>7. Len(b[Len(b)]) < DHT_NODE_COUNT
    BY <1>2, <1>3, RoutingTableAssumption
  <1> QED BY <1>1, <1>4, <1>6, <1>7 DEF Good

\* What a step does to a good table.
LEMMA GoodStep ==
    ASSUME Good(table), [Next]_table
    PROVE  /\ Good(table')
           /\ Len(table'.buckets) = Len(table.buckets) =>
                 LiveKept(table.buckets, table'.buckets)
  <1>1. \A peer \in Peers : peer.id \in Id /\ peer.addr \in Addr /\ peer.id # Self
    BY BucketsAssumption DEF Contact
  <1>2. ASSUME NEW peer \in Peers, Heard(peer) \/ TimedOut(peer)
        PROVE  /\ Good(table')
               /\ Len(table'.buckets) = Len(table.buckets) =>
                     LiveKept(table.buckets, table'.buckets)
    <2>1. PICK is_alive \in BOOLEAN : table' = Update(table, peer.id, peer.addr, is_alive)
      BY <1>2 DEF Heard, TimedOut
    <2> QED BY <1>1, <2>1, UpdateGood
  <1>3. ASSUME NEW id \in Id, Searched(id)
        PROVE  Good(table') /\ LiveKept(table.buckets, table'.buckets)
    BY <1>3, SearchGood DEF Searched
  <1>4. CASE Tick
    BY <1>4, AgedGood DEF Tick
  <1>5. CASE UNCHANGED table
    BY <1>5 DEF LiveKept
  <1> QED BY <1>2, <1>3, <1>4, <1>5 DEF Next

(***************************************************************************)
(* Every bucket holds nodes of its own range of identifiers, each once and *)
(* never ourselves, at most DHT_NODE_COUNT of them and fewer in the last   *)
(* bucket, and num_peers counts no fewer: dht_client_update and            *)
(* dht_client_search keep it so in every order of calls.                   *)
(***************************************************************************)
THEOREM Invariant == Spec => []Good(table)
  <1>1. Init => Good(table)
    BY EmptyIsGood DEF Init
  <1>2. Good(table) /\ [Next]_table => Good(table)'
    BY GoodStep
  <1> QED BY <1>1, <1>2, PTL DEF Spec

\* The table is a list of lists of nodes with a counter that is not negative.
THEOREM TypeCorrect == Spec => []TypeOK
  <1>1. Good(table) => TypeOK
    BY DEF Good, Sound, TypeOK
  <1> QED BY <1>1, Invariant, PTL

\* A node is in the bucket in which dht_client_update looks for its identifier.
THEOREM InTheirBucket == Spec => []NodesInTheirBucket
  <1>1. ASSUME Good(table) PROVE NodesInTheirBucket
    <2> DEFINE b == table.buckets
    <2>1. /\ b \in Seq(Seq(Node)) /\ Len(b) # 0 /\ DOMAIN b = 1 .. Len(b)
          /\ \A i \in 1 .. Len(b) : DOMAIN b[i] = 1 .. Len(b[i])
          /\ \A i \in 1 .. Len(b) : Keeps(b[i], i, Len(b))
      BY <1>1, BucketType, IdBitsAssumption DEF Good, Sound
    <2> SUFFICES ASSUME NEW i \in 1 .. Len(b), NEW node \in ToSet(b[i])
                 PROVE  BucketIndex(b, node.id) = i
      BY <2>1 DEF NodesInTheirBucket
    <2>2. PICK k \in 1 .. Len(b[i]) : node = b[i][k]
      BY <2>1 DEF ToSet
    <2>3. Belongs(node.id, i, Len(b))
      BY <2>1, <2>2 DEF Keeps
    <2> DEFINE x == node.id
    <2> HIDE DEF b, x
    <2>4. \A h \in 1 .. Len(b) : Belongs(x, h, Len(b)) => h = BucketIndex(b, x)
      BY <2>1, BucketIndexProperties
    <2> QED BY <2>3, <2>4 DEF x
  <1> QED BY <1>1, Invariant, PTL

\* The identifiers of the nodes, and their number, in terms of the buckets.
LEMMA NodesCounted ==
    ASSUME Good(table)
    PROVE  /\ {node.id : node \in Nodes} = IdsIn(table.buckets)
           /\ NodeCount = Cardinality(IdsIn(table.buckets))
           /\ \A node \in Nodes : node.id # Self
  <1> DEFINE b == table.buckets
  <1>1. /\ Sound(b) /\ DOMAIN b = 1 .. Len(b)
        /\ \A i \in 1 .. Len(b) : DOMAIN b[i] = 1 .. Len(b[i])
        /\ \A i \in 1 .. Len(b) : Keeps(b[i], i, Len(b))
    BY BucketType DEF Good, Sound
  <1>2. \A node \in Nodes : \E i \in 1 .. Len(b) : \E k \in 1 .. Len(b[i]) : node = b[i][k]
    BY <1>1 DEF Nodes, NodesOf, ToSet
  <1>3. \A i \in 1 .. Len(b) : \A k \in 1 .. Len(b[i]) : b[i][k] \in Nodes
    BY <1>1 DEF Nodes, NodesOf, ToSet
  <1>4. {node.id : node \in Nodes} = IdsIn(b)
    <2>1. ASSUME NEW node \in Nodes PROVE node.id \in IdsIn(b)
      BY <1>2, IdMember
    <2>2. ASSUME NEW x \in IdsIn(b) PROVE \E node \in Nodes : x = node.id
      <3>1. PICK i \in 1 .. Len(b) : \E k \in 1 .. Len(b[i]) : x = b[i][k].id
        BY DEF IdsIn, IdsOf
      <3> QED BY <1>3, <3>1
    <2> QED BY <2>1, <2>2
  <1>5. NodeCount = Cardinality(IdsIn(b))
    BY <1>1, Census DEF NodeCount, Places, Where
  <1>6. \A node \in Nodes : node.id # Self
    BY <1>1, <1>2 DEF Keeps
  <1> QED BY <1>4, <1>5, <1>6

\* There are as many nodes as identifiers of nodes, and none has our own.
THEOREM NoneTwice == Spec => []NoPeerTwice
  <1>1. Good(table) => NoPeerTwice
    BY NodesCounted DEF NoPeerTwice
  <1> QED BY <1>1, Invariant, PTL

\* No bucket overflows, the last one has room, and the bits suffice for the splits.
THEOREM Bounded == Spec => []BucketsBounded
  <1>1. ASSUME Good(table) PROVE BucketsBounded
    <2>1. /\ table.buckets \in Seq(Seq(Node)) /\ DOMAIN table.buckets = 1 .. Len(table.buckets)
          /\ Len(table.buckets) \in 1 .. IdBits
      BY <1>1, BucketType DEF Good, Sound
    <2>2. Len(table.buckets) <= IdBits
      BY <2>1, IdBitsAssumption
    <2> QED BY <1>1, <2>1, <2>2 DEF Good, Sound, BucketsBounded, Last
  <1> QED BY <1>1, Invariant, PTL

\* num_peers never counts fewer nodes than there are.
THEOREM NoUnderflow == Spec => []PeersNeverUnderflow
  <1>1. ASSUME Good(table) PROVE PeersNeverUnderflow
    <2>1. NodeCount = Cardinality(IdsIn(table.buckets))
      BY <1>1, NodesCounted
    <2>2. Cardinality(IdsIn(table.buckets)) \in Nat /\ table.num_peers \in Nat
      BY <1>1, Census DEF Good
    <2> QED BY <1>1, <2>1, <2>2 DEF Good, PeersNeverUnderflow
  <1> QED BY <1>1, Invariant, PTL

\* A search returns the nearest eligible nodes but for those of one bucket.
THEOREM NearestFound == Spec => []SearchNearest
  <1>1. ASSUME Good(table) PROVE SearchNearest
    <2>1. \A id \in Id : Nearest(table, id)
      BY <1>1, SearchIsNearest DEF Good
    <2> QED BY <2>1 DEF SearchNearest, Nearest, Nodes
  <1> QED BY <1>1, Invariant, PTL

(***************************************************************************)
(* In every step that does not split a bucket a live node stays in the     *)
(* table, and a peer that dht_client_update is told of without a split     *)
(* gets in, unless its bucket is full of live nodes.                       *)
(***************************************************************************)
THEOREM ReplacedRightly == Spec => OnlyDeadReplaced
  <1> DEFINE Kept == Len(table'.buckets) = Len(table.buckets) =>
                         \A node \in Nodes : node.is_alive =>
                             \E later \in Nodes' : later.id = node.id
             Entered ==
                 \A peer \in Peers :
                     LET after == Update(table, peer.id, peer.addr, TRUE)
                         bucket == table.buckets[BucketIndex(table.buckets, peer.id)]
                     IN  Len(after.buckets) = Len(table.buckets) =>
                             \/ AliveNode(peer.id, peer.addr) \in NodesOf(after)
                             \/ IsFull(bucket) /\ \A node \in ToSet(bucket) : node.is_alive
  <1>1. ASSUME Good(table), [Next]_table PROVE Kept
    <2> DEFINE b == table.buckets
               c == table'.buckets
    <2>1. Good(table') /\ (Len(c) = Len(b) => LiveKept(b, c))
      BY <1>1, GoodStep
    <2>2. /\ DOMAIN b = 1 .. Len(b) /\ \A i \in 1 .. Len(b) : DOMAIN b[i] = 1 .. Len(b[i])
          /\ DOMAIN c = 1 .. Len(c) /\ \A i \in 1 .. Len(c) : DOMAIN c[i] = 1 .. Len(c[i])
      BY <1>1, <2>1, BucketType DEF Good, Sound
    <2> SUFFICES ASSUME Len(c) = Len(b), NEW node \in Nodes, node.is_alive
                 PROVE  \E later \in Nodes' : later.id = node.id
      OBVIOUS
    <2>3. PICK i \in 1 .. Len(b) : node \in ToSet(b[i])
      BY <2>2 DEF Nodes, NodesOf
    <2>4. PICK k \in 1 .. Len(b[i]) : node = b[i][k]
      BY <2>2, <2>3 DEF ToSet
    <2>5. PICK h \in 1 .. Len(c) : \E l \in 1 .. Len(c[h]) : c[h][l].id = b[i][k].id
      BY <2>1, <2>4 DEF LiveKept
    <2>6. PICK l \in 1 .. Len(c[h]) : c[h][l].id = b[i][k].id
      BY <2>5
    <2>7. c[h][l] \in Nodes'
      <3>1. c[h][l] \in ToSet(c[h]) /\ h \in DOMAIN c
        BY <2>2 DEF ToSet
      <3>2. Nodes' = UNION {ToSet(c[g]) : g \in DOMAIN c}
        BY DEF Nodes, NodesOf
      <3> QED BY <3>1, <3>2
    <2> QED BY <2>4, <2>6, <2>7
  <1>2. ASSUME Good(table), NEW peer \in Peers,
               Len(Update(table, peer.id, peer.addr, TRUE).buckets) = Len(table.buckets)
        PROVE  \/ AliveNode(peer.id, peer.addr)
                      \in NodesOf(Update(table, peer.id, peer.addr, TRUE))
               \/ /\ IsFull(table.buckets[BucketIndex(table.buckets, peer.id)])
                  /\ \A node \in ToSet(table.buckets[BucketIndex(table.buckets, peer.id)]) :
                        node.is_alive
    <2> DEFINE b == table.buckets
               after == Update(table, peer.id, peer.addr, TRUE)
               c == after.buckets
               i == BucketIndex(b, peer.id)
    <2>1. peer.id \in Id /\ peer.addr \in Addr /\ peer.id # Self
      BY BucketsAssumption DEF Contact
    <2>2. Good(after) /\ (Holds(c, AliveNode(peer.id, peer.addr)) \/ FullOfLive(b[i]))
      BY <1>2, <2>1, UpdateGood
    <2> HIDE DEF after
    <2>3. CASE Holds(c, AliveNode(peer.id, peer.addr))
      <3>1. /\ DOMAIN c = 1 .. Len(c) /\ \A h \in 1 .. Len(c) : DOMAIN c[h] = 1 .. Len(c[h])
        BY <2>2, BucketType DEF Good, Sound
      <3>2. NodesOf(after) = UNION {ToSet(c[g]) : g \in DOMAIN c}
        BY DEF NodesOf
      <3>3. AliveNode(peer.id, peer.addr) \in NodesOf(after)
        <4> HIDE DEF c
        <4> QED BY <2>3, <3>1, <3>2 DEF Holds, ToSet
      <3> QED BY <3>3 DEF after
    <2>4. CASE FullOfLive(b[i])
      <3>1. i \in 1 .. Len(b) /\ DOMAIN b[i] = 1 .. Len(b[i])
        <4>1. b \in Seq(Seq(Node)) /\ Len(b) # 0
          BY <1>2, IdBitsAssumption DEF Good, Sound
        <4> QED BY <1>2, <2>1, <4>1, BucketIndexProperties, BucketType DEF Good, Sound
      <3>2. IsFull(b[i]) /\ \A node \in ToSet(b[i]) : node.is_alive
        <4> HIDE DEF b, i
        <4> QED BY <2>4, <3>1 DEF FullOfLive, ToSet
      <3> QED BY <3>2
    <2> QED BY <2>2, <2>3, <2>4
  <1>3. Good(table) => Entered
    BY <1>2
  <1> HIDE DEF Kept, Entered
  <1>4. Spec => [][Kept]_table
    BY <1>1, Invariant, PTL DEF Spec
  <1>5. Spec => []Entered
    BY <1>3, Invariant, PTL
  <1> QED BY <1>4, <1>5 DEF OnlyDeadReplaced, Kept, Entered
=============================================================================
