----------------------------- MODULE LookupProofs -----------------------------
(***************************************************************************)
(* Proofs about Lookup, for any identifiers, addresses, peers, results and *)
(* any concurrency: the counter of outstanding requests is right, it never *)
(* exceeds DHT_CONCURRENCY, no lookup is left without an outstanding       *)
(* request, and every result has exactly one owner.                        *)
(*                                                                         *)
(* The lookup a callback works on is out of balance until it has been      *)
(* dispatched or removed.  Balanced says what holds of it before           *)
(* dht_lookup_update or dht_lookup_dispatch; Effect says what these two do *)
(* to the client, and the proof of a callback is that its call keeps to    *)
(* the former.                                                             *)
(***************************************************************************)
EXTENDS Lookup, FiniteSetTheorems, WellFoundedInduction, TLAPS

\* The fields of a lookup, its sequence aside.
Fields(l) ==
    /\ l = [num_sources |-> l.num_sources, query_table |-> l.query_table,
            query_sequence |-> l.query_sequence, results |-> l.results]
    /\ l.num_sources \in Nat
    /\ DOMAIN l.query_table \subseteq Addr
    /\ l.query_table \in [DOMAIN l.query_table -> Query]
    /\ l.results \subseteq Result

Balanced(l) == /\ Fields(l)
               /\ l.num_sources = Cardinality(Armed(l))
               /\ l.num_sources <= DHT_CONCURRENCY

Sequenced(l) ==
    /\ l.query_sequence \in [1 .. Cardinality(DOMAIN l.query_table) -> DOMAIN l.query_table]
    /\ \A p, q \in DOMAIN l.query_sequence : p < q => l.query_sequence[p] # l.query_sequence[q]

\* What a lookup with a free slot holds back is behind enough live nodes.
Packed(l) ==
    l.num_sources < DHT_CONCURRENCY =>
        \A p \in DOMAIN l.query_sequence :
            Waiting(l.query_table[l.query_sequence[p]]) =>
                Cardinality({q \in 1 .. p - 1 : l.query_table[l.query_sequence[q]].is_alive})
                    >= DHT_NODE_COUNT

\* A lookup as callbacks leave it in the table.
Running(l) == Balanced(l) /\ Sequenced(l) /\ Armed(l) # {} /\ Packed(l)

-----------------------------------------------------------------------------
\* A nonempty set of positions has a last one.
LEMMA LastPosition ==
    ASSUME NEW n \in Nat, NEW P \in SUBSET (1 .. n), P # {}
    PROVE  \E m \in P : \A p \in P : p <= m
  <1> DEFINE R == OpToRel(<, Nat)
             T == {k \in Nat : n - k \in P}
  <1>1. PICK p \in P : TRUE
    OBVIOUS
  <1>2. n - p \in Nat /\ n - (n - p) = p
    OBVIOUS
  <1>3. T # {} /\ T \subseteq Nat
    BY <1>2
  <1>4. PICK x \in T : \A y \in T : ~(<<y, x>> \in R)
    <2> HIDE DEF T, R
    <2>1. IsWellFoundedOn(R, Nat)
      BY NatLessThanWellFounded DEF R
    <2> QED BY <1>3, <2>1, WFMin
  <1>5. ASSUME NEW q \in P PROVE q <= n - x
    <2>1. n - q \in Nat /\ n - (n - q) = q
      OBVIOUS
    <2>2. n - q \in T
      BY <2>1
    <2>3. ~(n - q < x)
      BY <1>4, <2>1, <2>2 DEF OpToRel
    <2> QED BY <2>1, <2>3
  <1> QED BY <1>4, <1>5

\* A nonempty set of positions has a first one.
LEMMA FirstPosition ==
    ASSUME NEW P \in SUBSET Nat, P # {}
    PROVE  \E m \in P : \A p \in P : m <= p
  <1> DEFINE R == OpToRel(<, Nat)
  <1>1. PICK x \in P : \A y \in P : ~(<<y, x>> \in R)
    <2> HIDE DEF R
    <2>1. IsWellFoundedOn(R, Nat)
      BY NatLessThanWellFounded DEF R
    <2> QED BY <2>1, WFMin
  <1>2. ASSUME NEW y \in P PROVE x <= y
    <2>1. x \in Nat /\ y \in Nat
      OBVIOUS
    <2>2. ~(y < x)
      BY <1>1, <2>1 DEF OpToRel
    <2> QED BY <2>1, <2>2
  <1> QED BY <1>1, <1>2

\* Of at least k positions before p, k have less than k before them.
LEMMA FirstOnes ==
    ASSUME NEW W \in SUBSET Nat, IsFiniteSet(W), NEW p \in Nat, NEW k \in Nat,
           Cardinality({q \in W : q < p}) >= k
    PROVE  Cardinality({q \in W : q < p /\ Cardinality({r \in W : r < q}) < k}) >= k
  <1> DEFINE E == {q \in W : q < p}
             S == {q \in W : q < p /\ Cardinality({r \in W : r < q}) < k}
  <1>1. S \subseteq E /\ E \subseteq W
    OBVIOUS
  <1>2. /\ IsFiniteSet(E) /\ IsFiniteSet(S)
        /\ Cardinality(E) \in Nat /\ Cardinality(S) \in Nat
    <2> HIDE DEF E, S
    <2> QED BY <1>1, FS_Subset, FS_CardinalityType
  <1> SUFFICES ASSUME Cardinality(S) < k PROVE FALSE
    <2> HIDE DEF S
    <2>1. Cardinality(S) >= k
      BY <1>2
    <2> QED BY <2>1 DEF S
  <1>3. E \ S # {}
    <2> HIDE DEF S
    <2>1. E # S
      BY <1>2
    <2> HIDE DEF E
    <2> QED BY <1>1, <2>1
  <1>4. PICK m \in E \ S : \A q \in E \ S : m <= q
    <2>1. E \ S \subseteq Nat
      OBVIOUS
    <2> HIDE DEF E, S
    <2> QED BY <1>3, <2>1, FirstPosition
  <1> DEFINE before == {r \in W : r < m}
  <1>5. before \subseteq S
    <2> SUFFICES ASSUME NEW r \in W, r < m PROVE r \in S
      OBVIOUS
    <2>1. r \in E /\ ~(m <= r)
      BY <1>4
    <2> HIDE DEF E, S
    <2> QED BY <1>4, <2>1
  <1>6. Cardinality(before) < k
    <2> HIDE DEF before, S
    <2>1. Cardinality(before) <= Cardinality(S) /\ IsFiniteSet(before)
      BY <1>2, <1>5, FS_Subset
    <2>2. Cardinality(before) \in Nat
      BY <2>1, FS_CardinalityType
    <2> QED BY <1>2, <2>1, <2>2
  <1>7. m \in S
    BY <1>4, <1>6
  <1> QED BY <1>4, <1>7

\* As many addresses as positions, if none repeats.
LEMMA PositionsAreAddresses ==
    ASSUME NEW P \in SUBSET Nat, IsFiniteSet(P), NEW s, \A p, q \in P : p < q => s[p] # s[q]
    PROVE  Cardinality({s[p] : p \in P}) = Cardinality(P)
  <1> DEFINE T == {s[p] : p \in P}
             f == [p \in P |-> s[p]]
  <1>1. f \in Surjection(P, T)
    BY DEF Surjection
  <1>2. f \in Injection(P, T)
    <2>1. \A p, q \in P : p # q => p < q \/ q < p
      OBVIOUS
    <2>2. \A p, q \in P : f[p] = f[q] => p = q
      BY <2>1
    <2> QED BY <2>2 DEF Injection, IsInjective
  <1> HIDE DEF f, T
  <1>3. Cardinality(T) = Cardinality(P)
    BY <1>1, <1>2, FS_Surjection
  <1> QED BY <1>3 DEF T

\* As many addresses as positions at most.
LEMMA PositionsBoundAddresses ==
    ASSUME NEW P, IsFiniteSet(P), NEW s
    PROVE  /\ IsFiniteSet({s[p] : p \in P})
           /\ Cardinality({s[p] : p \in P}) <= Cardinality(P)
  <1> DEFINE T == {s[p] : p \in P}
             f == [p \in P |-> s[p]]
  <1>1. f \in Surjection(P, T)
    BY DEF Surjection
  <1> HIDE DEF f, T
  <1>2. IsFiniteSet(T) /\ Cardinality(T) <= Cardinality(P)
    BY <1>1, FS_Surjection
  <1> QED BY <1>2 DEF T

\* Everything about one lookup is finite.
LEMMA FiniteLookup ==
    ASSUME NEW l, Fields(l)
    PROVE  /\ IsFiniteSet(DOMAIN l.query_table)
           /\ Cardinality(DOMAIN l.query_table) \in Nat
           /\ IsFiniteSet(Armed(l)) /\ Cardinality(Armed(l)) \in Nat
           /\ Armed(l) \subseteq DOMAIN l.query_table
  <1>1. Armed(l) \subseteq DOMAIN l.query_table
    BY DEF Armed
  <1>2. IsFiniteSet(DOMAIN l.query_table)
    BY LookupAssumption, FS_Subset DEF Fields
  <1> QED BY <1>1, <1>2, FS_Subset, FS_CardinalityType

\* What dht_lookup_dispatch asks: queries that are waiting, and no more than
\* there are free slots.  The last one it asks saw all the others before it
\* still counted below DHT_CONCURRENCY.
LEMMA AskedFit ==
    ASSUME NEW l, Balanced(l), Sequenced(l)
    PROVE  LET sent == {l.query_sequence[p] : p \in ToAsk(l)}
           IN  /\ IsFiniteSet(sent)
               /\ sent \subseteq DOMAIN l.query_table
               /\ sent \cap Armed(l) = {}
               /\ l.num_sources + Cardinality(sent) <= DHT_CONCURRENCY
  <1> DEFINE D == DOMAIN l.query_table
             n == Cardinality(D)
             s == l.query_sequence
             P == ToAsk(l)
             sent == {s[p] : p \in P}
             W == {p \in DOMAIN s : Waiting(l.query_table[s[p]])}
  <1>1. n \in Nat /\ s \in [1 .. n -> D] /\ DOMAIN s = 1 .. n
    BY FiniteLookup DEF Balanced, Sequenced
  <1>2. P \subseteq W /\ W \subseteq 1 .. n
    BY <1>1 DEF ToAsk
  <1>3. IsFiniteSet(W) /\ IsFiniteSet(P)
    BY <1>1, <1>2, FS_Interval, FS_Subset
  <1>4. IsFiniteSet(sent) /\ Cardinality(sent) <= Cardinality(P)
    <2> HIDE DEF P, s
    <2> QED BY <1>3, PositionsBoundAddresses
  <1>5. sent \subseteq D
    BY <1>1, <1>2
  <1>6. sent \cap Armed(l) = {}
    BY <1>2 DEF Armed, Waiting
  <1>7. l.num_sources + Cardinality(P) <= DHT_CONCURRENCY
    <2>1. CASE P = {}
      BY <2>1, FS_EmptySet DEF Balanced, Fields
    <2>2. CASE P # {}
      <3>1. PICK m \in P : \A p \in P : p <= m
        <4> HIDE DEF P, W, n
        <4> QED BY <1>1, <1>2, <2>2, LastPosition
      <3> DEFINE E == {q \in W : q < m}
      <3>2. l.num_sources + Cardinality(E) < DHT_CONCURRENCY
        BY <3>1 DEF ToAsk
      <3>3. P \subseteq E \cup {m}
        BY <1>2, <3>1
      <3>4. IsFiniteSet(E) /\ IsFiniteSet(E \cup {m}) /\ Cardinality(E \cup {m}) = Cardinality(E) + 1
        <4>1. IsFiniteSet(E)
          BY <1>3, FS_Subset
        <4>2. m \notin E
          BY <1>2, <3>1
        <4> HIDE DEF E
        <4> QED BY <4>1, <4>2, FS_AddElement
      <3>5. Cardinality(P) <= Cardinality(E) + 1
        <4> HIDE DEF P, E
        <4> QED BY <3>3, <3>4, FS_Subset
      <3>6. Cardinality(P) \in Nat /\ Cardinality(E) \in Nat
        BY <1>3, <3>4, FS_CardinalityType
      <3> HIDE DEF P, E
      <3> QED BY <3>2, <3>5, <3>6, LookupAssumption DEF Balanced, Fields
    <2> QED BY <2>1, <2>2
  <1>8. l.num_sources + Cardinality(sent) <= DHT_CONCURRENCY
    <2>1. Cardinality(sent) \in Nat /\ Cardinality(P) \in Nat
      BY <1>3, <1>4, FS_CardinalityType
    <2> HIDE DEF sent, P
    <2> QED BY <1>4, <1>7, <2>1, LookupAssumption DEF Balanced, Fields
  <1> QED BY <1>4, <1>5, <1>6, <1>8

\* Asking leaves no slot idle: what it holds back for want of a slot comes
\* behind as many that it asks as there were slots.
LEMMA AskPacks ==
    ASSUME NEW l, Balanced(l), Sequenced(l),
           NEW sent, sent = {l.query_sequence[p] : p \in ToAsk(l)}
    PROVE  Packed(Ask(l, sent))
  <1> DEFINE D == DOMAIN l.query_table
             n == Cardinality(D)
             s == l.query_sequence
             P == ToAsk(l)
             W == {p \in DOMAIN s : Waiting(l.query_table[s[p]])}
             alive == {p \in DOMAIN s : l.query_table[s[p]].is_alive}
             next == Ask(l, sent)
  <1>1. n \in Nat /\ s \in [1 .. n -> D] /\ DOMAIN s = 1 .. n
    BY FiniteLookup DEF Balanced, Sequenced
  <1>2. /\ IsFiniteSet(sent) /\ sent \subseteq D
        /\ l.num_sources + Cardinality(sent) <= DHT_CONCURRENCY
    BY AskedFit
  <1>3. /\ W \subseteq 1 .. n /\ P \subseteq 1 .. n /\ alive \subseteq 1 .. n
        /\ IsFiniteSet(W) /\ IsFiniteSet(P) /\ IsFiniteSet(alive)
    <2>1. W \subseteq 1 .. n /\ P \subseteq 1 .. n /\ alive \subseteq 1 .. n
      BY <1>1 DEF ToAsk
    <2>2. IsFiniteSet(1 .. n)
      BY <1>1, FS_Interval
    <2> HIDE DEF W, P, alive, n
    <2> QED BY <2>1, <2>2, FS_Subset
  <1>4. \A p \in W : p \in P <=>
           /\ l.num_sources + Cardinality({q \in W : q < p}) < DHT_CONCURRENCY
           /\ Cardinality({q \in alive : q < p}) < DHT_NODE_COUNT
    BY DEF ToAsk
  <1>5. /\ next.num_sources = l.num_sources + Cardinality(sent)
        /\ next.query_sequence = s
        /\ \A a \in D : next.query_table[a] =
              IF a \in sent THEN Arm(l.query_table[a]) ELSE l.query_table[a]
    BY DEF Ask
  <1>6. \A query \in Query : Arm(query).timeout_source /\ Arm(query).is_alive = query.is_alive
    BY DEF Arm, Query
  <1>7. \A a \in D : /\ l.query_table[a] \in Query
                     /\ next.query_table[a].is_alive = l.query_table[a].is_alive
                     /\ Waiting(next.query_table[a]) => a \notin sent /\ Waiting(l.query_table[a])
    BY <1>5, <1>6 DEF Balanced, Fields, Waiting
  <1> HIDE DEF next
  <1> SUFFICES ASSUME next.num_sources < DHT_CONCURRENCY,
                      NEW p \in 1 .. n, Waiting(next.query_table[s[p]])
               PROVE  Cardinality({q \in 1 .. p - 1 : next.query_table[s[q]].is_alive})
                          >= DHT_NODE_COUNT
    BY <1>1, <1>5 DEF Packed, next
  <1>8. p \in W /\ p \notin P
    BY <1>1, <1>7
  <1>9. {q \in 1 .. p - 1 : next.query_table[s[q]].is_alive} = {q \in alive : q < p}
    <2>1. \A q \in 1 .. n : next.query_table[s[q]].is_alive = l.query_table[s[q]].is_alive
      BY <1>1, <1>7
    <2>2. \A q : q \in 1 .. p - 1 <=> q \in 1 .. n /\ q < p
      BY <1>1
    <2> QED BY <1>1, <2>1, <2>2
  <1> SUFFICES ASSUME Cardinality({q \in alive : q < p}) < DHT_NODE_COUNT PROVE FALSE
    <2> DEFINE Z == {q \in alive : q < p}
    <2>1. Z \subseteq alive
      OBVIOUS
    <2> HIDE DEF Z, alive
    <2>2. Cardinality(Z) \in Nat
      BY <1>3, <2>1, FS_Subset, FS_CardinalityType
    <2>3. Cardinality(Z) >= DHT_NODE_COUNT
      BY <2>2, RoutingTableAssumption DEF Z
    <2> QED BY <1>9, <2>3 DEF Z
  <1> DEFINE k == DHT_CONCURRENCY - l.num_sources
             S == {q \in W : q < p /\ Cardinality({r \in W : r < q}) < k}
             E == {q \in W : q < p}
  <1>10. k \in Nat /\ l.num_sources \in Nat
    BY LookupAssumption DEF Balanced, Fields
  <1>11. \A q \in 1 .. n : Cardinality({r \in W : r < q}) \in Nat
    <2> TAKE q \in 1 .. n
    <2> DEFINE Z == {r \in W : r < q}
    <2>1. Z \subseteq W
      OBVIOUS
    <2> HIDE DEF Z, W
    <2>2. Cardinality(Z) \in Nat
      BY <1>3, <2>1, FS_Subset, FS_CardinalityType
    <2> QED BY <2>2 DEF Z
  <1>12. Cardinality(S) >= k
    <2> HIDE DEF W, P, alive
    <2>1. Cardinality(E) >= k
      BY <1>4, <1>8, <1>10, <1>11, LookupAssumption
    <2>2. W \in SUBSET Nat /\ p \in Nat
      BY <1>3
    <2> HIDE DEF k
    <2> QED BY <1>3, <1>10, <2>1, <2>2, FirstOnes
  <1>13. S \subseteq P
    <2> SUFFICES ASSUME NEW q \in S PROVE q \in P
      OBVIOUS
    <2>1. q \in W /\ q \in 1 .. n /\ q < p /\ Cardinality({r \in W : r < q}) < k
      BY <1>3
    <2>2. Cardinality({r \in alive : r < q}) < DHT_NODE_COUNT
      <3> DEFINE Y == {r \in alive : r < q}
                 Z == {r \in alive : r < p}
      <3>1. Y \subseteq Z /\ Z \subseteq alive
        <4> HIDE DEF alive, W, P
        <4>1. alive \subseteq Nat /\ q \in Nat /\ p \in Nat /\ q < p
          BY <1>1, <1>3, <2>1
        <4>2. ASSUME NEW r \in alive, r < q PROVE r < p
          BY <4>1, <4>2
        <4> QED BY <4>2
      <3>2. Cardinality(Z) < DHT_NODE_COUNT
        OBVIOUS
      <3> HIDE DEF Y, Z, alive
      <3>3. IsFiniteSet(Z) /\ IsFiniteSet(Y) /\ Cardinality(Y) <= Cardinality(Z)
        BY <1>3, <3>1, FS_Subset
      <3>4. Cardinality(Z) \in Nat /\ Cardinality(Y) \in Nat
        BY <3>3, FS_CardinalityType
      <3>5. Cardinality(Y) < DHT_NODE_COUNT
        BY <3>2, <3>3, <3>4, RoutingTableAssumption
      <3> QED BY <3>5 DEF Y
    <2> HIDE DEF S, W, P, alive
    <2>3. l.num_sources + Cardinality({r \in W : r < q}) < DHT_CONCURRENCY
      BY <1>10, <1>11, <2>1, LookupAssumption
    <2> QED BY <1>4, <2>1, <2>2, <2>3
  <1>14. Cardinality(sent) >= k
    <2> DEFINE T == {s[q] : q \in S}
    <2>1. T \subseteq sent
      BY <1>13
    <2>2. S \in SUBSET Nat /\ IsFiniteSet(S)
      <3> HIDE DEF S, P
      <3>1. IsFiniteSet(S)
        BY <1>3, <1>13, FS_Subset
      <3>2. S \subseteq 1 .. n
        BY <1>3, <1>13
      <3> QED BY <3>1, <3>2
    <2>3. \A q, r \in S : q < r => s[q] # s[r]
      <3>1. S \subseteq 1 .. n
        BY <1>3
      <3> HIDE DEF S
      <3> QED BY <1>1, <3>1 DEF Sequenced
    <2>4. Cardinality(T) = Cardinality(S)
      <3> HIDE DEF S, s
      <3> QED BY <2>2, <2>3, PositionsAreAddresses
    <2> HIDE DEF T, S
    <2>5. Cardinality(T) <= Cardinality(sent)
      BY <1>2, <2>1, FS_Subset
    <2>6. Cardinality(S) \in Nat /\ Cardinality(sent) \in Nat
      BY <1>2, <2>2, FS_CardinalityType
    <2> QED BY <1>10, <1>12, <2>4, <2>5, <2>6
  <1>15. Cardinality(sent) \in Nat
    BY <1>2, FS_CardinalityType
  <1> QED BY <1>5, <1>10, <1>14, <1>15, LookupAssumption

\* After asking, the counter agrees with the timers again.
LEMMA AskKeepsBalance ==
    ASSUME NEW l, Balanced(l), Sequenced(l),
           NEW sent, sent = {l.query_sequence[p] : p \in ToAsk(l)}
    PROVE  /\ Balanced(Ask(l, sent)) /\ Sequenced(Ask(l, sent))
           /\ Ask(l, sent).results = l.results
           /\ Ask(l, sent).num_sources # 0 => Running(Ask(l, sent))
  <1> DEFINE D == DOMAIN l.query_table
             next == Ask(l, sent)
             table2 == [a \in D |-> IF a \in sent THEN Arm(l.query_table[a]) ELSE l.query_table[a]]
  <1>1. /\ IsFiniteSet(sent) /\ sent \subseteq D /\ sent \cap Armed(l) = {}
        /\ l.num_sources + Cardinality(sent) <= DHT_CONCURRENCY
    BY AskedFit
  <1>2. next = [num_sources |-> l.num_sources + Cardinality(sent), query_table |-> table2,
                query_sequence |-> l.query_sequence, results |-> l.results]
    BY DEF Ask
  <1>3. ASSUME NEW query \in Query
        PROVE  Arm(query) \in Query /\ Arm(query).timeout_source = TRUE
    BY DEF Arm, Query
  <1>4. /\ DOMAIN table2 = D /\ table2 \in [D -> Query]
        /\ \A a \in D : table2[a].timeout_source <=> l.query_table[a].timeout_source \/ a \in sent
    <2>1. \A a \in D : l.query_table[a] \in Query
      BY DEF Balanced, Fields
    <2> QED BY <1>3, <2>1
  <1> HIDE DEF table2
  <1>5. next.num_sources = l.num_sources + Cardinality(sent) /\ next.query_table = table2
        /\ next.query_sequence = l.query_sequence /\ next.results = l.results
    BY <1>2
  <1> HIDE DEF next
  <1>6. Armed(next) = Armed(l) \cup sent
    BY <1>1, <1>4, <1>5 DEF Armed
  <1>7. /\ l.num_sources \in Nat /\ Cardinality(sent) \in Nat
        /\ l.num_sources = Cardinality(Armed(l))
    BY <1>1, FS_CardinalityType DEF Balanced, Fields
  <1>8. Cardinality(Armed(next)) = l.num_sources + Cardinality(sent)
    <2>1. IsFiniteSet(Armed(l))
      BY FiniteLookup DEF Balanced
    <2>2. Cardinality(Armed(l) \cap sent) = 0
      BY <1>1, FS_EmptySet
    <2>3. Cardinality(Armed(l) \cup sent) =
             Cardinality(Armed(l)) + Cardinality(sent) - Cardinality(Armed(l) \cap sent)
      BY <1>1, <2>1, FS_Union
    <2> QED BY <1>6, <1>7, <2>2, <2>3
  <1>9. Fields(next)
    BY <1>2, <1>4, <1>5, <1>7 DEF Fields, Balanced
  <1>10. Balanced(next)
    BY <1>1, <1>5, <1>8, <1>9 DEF Balanced
  <1>11. Sequenced(next)
    BY <1>4, <1>5 DEF Sequenced
  <1>12. next.num_sources # 0 => Armed(next) # {}
    BY <1>5, <1>8, FS_EmptySet
  <1>13. Packed(next)
    BY AskPacks DEF next
  <1> QED BY <1>5, <1>10, <1>11, <1>12, <1>13 DEF Running, next

\* Taking in the nodes of a reply arms no timer, and sorting them puts every
\* address at one place of the sequence.
LEMMA InsertKeepsBalance ==
    ASSUME NEW l, Balanced(l), NEW id, NEW nodes, NEW arrivals,
           NEW s \in Sortings(Insert(l, id, nodes).query_table, arrivals)
    PROVE  LET next == [Insert(l, id, nodes) EXCEPT !.query_sequence = s]
           IN  Balanced(next) /\ Sequenced(next) /\ next.results = l.results
  <1> DEFINE D == DOMAIN l.query_table
             fresh == {a \in Addr \ D : \E k \in DOMAIN nodes : nodes[k].addr = a}
             first(a) == CHOOSE k \in DOMAIN nodes :
                            nodes[k].addr = a /\ \A j \in 1 .. k - 1 : nodes[j].addr # a
             table2 == [a \in D \cup fresh |->
                           IF a \in fresh THEN NewQuery(Xor(id, nodes[first(a)].id))
                                          ELSE l.query_table[a]]
             next == [Insert(l, id, nodes) EXCEPT !.query_sequence = s]
  <1>1. Insert(l, id, nodes) =
           [num_sources |-> l.num_sources, query_table |-> table2,
            query_sequence |-> l.query_sequence, results |-> l.results]
    BY DEF Insert, Balanced, Fields
  <1>2. \A a, b : NewQuery(Xor(a, b)) \in Query
    <2>1. \A a, b : Xor(a, b) \in Id
      BY DEF Xor, Id
    <2> QED BY <2>1 DEF NewQuery, Query
  <1>3. DOMAIN table2 = D \cup fresh /\ table2 \in [D \cup fresh -> Query]
    BY <1>2 DEF Balanced, Fields
  <1>4. \A a \in D \cup fresh :
           table2[a].timeout_source <=> a \in D /\ l.query_table[a].timeout_source
    BY DEF NewQuery
  <1>5. s \in [1 .. Cardinality(D \cup fresh) -> D \cup fresh]
        /\ \A p, q \in DOMAIN s : p < q => s[p] # s[q]
    <2>1. Insert(l, id, nodes).query_table = table2
      BY <1>1
    <2>2. s \in Sortings(table2, arrivals)
      BY <2>1
    <2> HIDE DEF table2
    <2> QED BY <1>3, <2>2 DEF Sortings
  <1> HIDE DEF table2
  <1>6. next = [num_sources |-> l.num_sources, query_table |-> table2,
                query_sequence |-> s, results |-> l.results]
    BY <1>1
  <1>7. /\ next.num_sources = l.num_sources /\ next.query_table = table2
        /\ next.query_sequence = s /\ next.results = l.results
    BY <1>6
  <1> HIDE DEF next
  <1>8. Fields(next)
    BY <1>3, <1>6, <1>7 DEF Balanced, Fields
  <1>9. Armed(next) = Armed(l)
    BY <1>3, <1>4, <1>7 DEF Armed
  <1>10. Balanced(next)
    BY <1>7, <1>8, <1>9 DEF Balanced
  <1>11. Sequenced(next)
    BY <1>3, <1>5, <1>7 DEF Sequenced
  <1> QED BY <1>7, <1>10, <1>11 DEF next

-----------------------------------------------------------------------------
(***************************************************************************)
(* What dht_lookup_update and dht_lookup_dispatch do for the lookup of id  *)
(* with these results, the others being in state st: it goes on, fails or  *)
(* is replaced by connections; the other lookups are left alone.           *)
(***************************************************************************)
OthersKept(id) ==
    /\ DOMAIN lookup_table' \subseteq DOMAIN lookup_table \cup {id}
    /\ \A j \in DOMAIN lookup_table \ {id} :
          j \in DOMAIN lookup_table' /\ lookup_table'[j] = lookup_table[j]

GoesOn(id, results, st) ==
    /\ id \in DOMAIN lookup_table'
    /\ Running(lookup_table'[id]) /\ lookup_table'[id].results = results
    /\ status' = st /\ connection_table' = connection_table

Fails(id, results, st) ==
    /\ id \notin DOMAIN lookup_table'
    /\ status' = Resolve(st, results, "not_found") /\ connection_table' = connection_table

Connects(id, results, st) ==
    /\ id \notin DOMAIN lookup_table'
    /\ status' = Resolve(st, results, "connecting")
    /\ DOMAIN connection_table' = DOMAIN connection_table \cup results
    /\ \A r \in DOMAIN connection_table' :
          IF r \in results THEN connection_table'[r] \in [id : Id, sockaddr : Addr]
                           ELSE connection_table'[r] = connection_table[r]

Effect(id, results, st) ==
    /\ OthersKept(id)
    /\ asked' \subseteq Addr \X Id
    /\ GoesOn(id, results, st) \/ Fails(id, results, st) \/ Connects(id, results, st)

\* dht_lookup_dispatch keeps to it.
LEMMA DispatchEffect ==
    ASSUME NEW id \in Id, NEW l, Balanced(l), Sequenced(l), NEW st,
           asked \subseteq Addr \X Id, connection_table' = connection_table,
           Dispatch(id, l, st)
    PROVE  Effect(id, l.results, st)
  <1> DEFINE sent == {l.query_sequence[p] : p \in ToAsk(l)}
             next == Ask(l, sent)
  <1>1. /\ asked' = asked \cup {<<a, id>> : a \in sent}
        /\ IF next.num_sources = 0
           THEN /\ lookup_table' = Without(lookup_table, id)
                /\ status' = Resolve(st, l.results, "not_found")
           ELSE /\ lookup_table' = With(lookup_table, id, next)
                /\ status' = st
    BY DEF Dispatch, IsFailed
  <1>2. sent \subseteq Addr
    BY AskedFit DEF Balanced, Fields
  <1>3. next.results = l.results /\ (next.num_sources # 0 => Running(next))
    BY AskKeepsBalance
  <1> HIDE DEF sent, next
  <1>4. asked' \subseteq Addr \X Id
    BY <1>1, <1>2
  <1>5. CASE next.num_sources = 0
    <2>1. OthersKept(id) /\ Fails(id, l.results, st)
      BY <1>1, <1>5 DEF Without, OthersKept, Fails
    <2> QED BY <1>4, <2>1 DEF Effect
  <1>6. CASE next.num_sources # 0
    <2>1. OthersKept(id)
      BY <1>1, <1>6 DEF With, OthersKept
    <2>2. id \in DOMAIN lookup_table' /\ lookup_table'[id] = next
      BY <1>1, <1>6 DEF With
    <2>3. GoesOn(id, l.results, st)
      BY <1>1, <1>3, <1>6, <2>2 DEF GoesOn
    <2> QED BY <1>4, <2>1, <2>3 DEF Effect
  <1> QED BY <1>5, <1>6

\* dht_lookup_update keeps to it.
LEMMA LookupUpdateEffect ==
    ASSUME NEW id \in Id, NEW l, Balanced(l), NEW nodes, NEW st,
           asked \subseteq Addr \X Id,
           LookupUpdate(id, l, nodes, st)
    PROVE  Effect(id, l.results, st)
  <1> DEFINE others == Others(nodes)
             next == Insert(l, id, others)
  <1>1. \/ \E node \in TargetIn(others, id) : Connect(id, l, node, st)
        \/ /\ \E s \in Sortings(next.query_table, Arrivals(l, others)) :
                 Dispatch(id, [next EXCEPT !.query_sequence = s], st)
           /\ connection_table' = connection_table
    BY DEF LookupUpdate
  <1>2. ASSUME NEW node \in TargetIn(others, id), Connect(id, l, node, st)
        PROVE  Effect(id, l.results, st)
    <2>1. node.addr \in Addr
      BY <1>2 DEF TargetIn, Contact
    <2>2. OthersKept(id) /\ id \notin DOMAIN lookup_table'
      BY <1>2 DEF Connect, Without, OthersKept
    <2>3. [id |-> id, sockaddr |-> node.addr] \in [id : Id, sockaddr : Addr]
      BY <2>1
    <2>4. Connects(id, l.results, st)
      BY <1>2, <2>2, <2>3 DEF Connect, Connects
    <2>5. asked' = asked
      BY <1>2 DEF Connect
    <2> QED BY <2>2, <2>4, <2>5 DEF Effect
  <1>3. ASSUME NEW s \in Sortings(next.query_table, Arrivals(l, others)),
               Dispatch(id, [next EXCEPT !.query_sequence = s], st),
               connection_table' = connection_table
        PROVE  Effect(id, l.results, st)
    <2> DEFINE sorted == [next EXCEPT !.query_sequence = s]
    <2>1. Balanced(sorted) /\ Sequenced(sorted) /\ sorted.results = l.results
      BY InsertKeepsBalance
    <2> HIDE DEF sorted
    <2>2. Effect(id, sorted.results, st)
      BY <1>3, <2>1, DispatchEffect DEF sorted
    <2> QED BY <2>1, <2>2
  <1> QED BY <1>1, <1>2, <1>3

-----------------------------------------------------------------------------
(***************************************************************************)
(* The inductive invariant: every lookup in the table is as callbacks      *)
(* leave it, and the results have their owners.                            *)
(***************************************************************************)
LookupsRun == \A id \in DOMAIN lookup_table : Running(lookup_table[id])

IInv == TypeOK /\ LookupsRun /\ ResultOwned

\* Where every result is when the lookup of id is given these results: st is
\* the status of all of them, the lookup that id may have had before is gone.
Before(id, results, st) ==
    /\ results \subseteq Result
    /\ st \in [Result -> Status]
    /\ \A j \in DOMAIN lookup_table \ {id} : lookup_table[j].results \cap results = {}
    /\ \A r \in Result :
          /\ st[r] = "queued" <=> r \in results \/ \E j \in DOMAIN lookup_table \ {id} :
                                                        r \in lookup_table[j].results
          /\ st[r] = "connecting" <=> r \in DOMAIN connection_table

\* A callback that works on one lookup.
Works(id, results, st) ==
    Before(id, results, st) /\ Effect(id, results, st) /\ delivered' = delivered

\* The part of the invariant for one lookup includes its type,
LEMMA RunningIsLookup == ASSUME NEW l, Running(l) PROVE IsLookup(l)
  BY DEF Running, Balanced, Fields, Sequenced, IsLookup

\* and the type its parts.
LEMMA LookupIsFields == ASSUME NEW l, IsLookup(l) PROVE Fields(l) /\ Sequenced(l)
  BY DEF Fields, Sequenced, IsLookup

\* After the effect every result has an owner again.
LEMMA Settled ==
    ASSUME IInv, NEW id \in Id, NEW results, NEW st, Works(id, results, st)
    PROVE  IInv'
  <1> USE DEF Works
  <1> DEFINE J == DOMAIN lookup_table \ {id}
  <1>1. /\ \A j \in J : j \in DOMAIN lookup_table' /\ lookup_table'[j] = lookup_table[j]
        /\ DOMAIN lookup_table' \subseteq J \cup {id}
    BY DEF Effect, OthersKept
  <1>2. \A j \in J : Running(lookup_table[j]) /\ IsLookup(lookup_table[j])
    BY RunningIsLookup DEF IInv, LookupsRun
  <1>3. id \in DOMAIN lookup_table' =>
            /\ Running(lookup_table'[id]) /\ IsLookup(lookup_table'[id])
            /\ lookup_table'[id].results = results
    BY RunningIsLookup DEF Effect, GoesOn, Fails, Connects
  <1>4. \A j \in DOMAIN lookup_table' : Running(lookup_table'[j]) /\ IsLookup(lookup_table'[j])
    BY <1>1, <1>2, <1>3
  <1>5. DOMAIN lookup_table' \subseteq Id
    BY <1>1 DEF IInv, TypeOK
  <1>6. \A j1, j2 \in DOMAIN lookup_table' :
           j1 # j2 => lookup_table'[j1].results \cap lookup_table'[j2].results = {}
    <2>1. \A j1, j2 \in J : j1 # j2 => lookup_table[j1].results \cap lookup_table[j2].results = {}
      BY DEF IInv, ResultOwned
    <2>2. \A j \in J : lookup_table[j].results \cap results = {}
      BY DEF Before
    <2> HIDE DEF J
    <2> QED BY <1>1, <1>3, <2>1, <2>2
  <1>7. \A r \in Result :
           (\E j \in DOMAIN lookup_table' : r \in lookup_table'[j].results)
             <=> \/ \E j \in J : r \in lookup_table[j].results
                 \/ id \in DOMAIN lookup_table' /\ r \in results
    <2> HIDE DEF J
    <2> QED BY <1>1, <1>3
  <1>8. \A r \in Result : r \in results => ~\E j \in J : r \in lookup_table[j].results
    BY DEF Before
  <1>9. /\ st \in [Result -> Status] /\ results \subseteq Result
        /\ \A r \in Result :
              /\ st[r] = "queued" <=> r \in results \/ \E j \in J : r \in lookup_table[j].results
              /\ st[r] = "connecting" <=> r \in DOMAIN connection_table
    BY DEF Before
  <1> HIDE DEF J
  <1>10. /\ status' \in [Result -> Status]
         /\ \A r \in Result :
               /\ status'[r] = "queued" <=>
                      \E j \in DOMAIN lookup_table' : r \in lookup_table'[j].results
               /\ status'[r] = "connecting" <=> r \in DOMAIN connection_table'
    <2>1. CASE GoesOn(id, results, st)
      BY <1>7, <1>9, <2>1 DEF GoesOn
    <2>2. CASE Fails(id, results, st)
      BY <1>7, <1>8, <1>9, <2>2 DEF Fails, Resolve, Status, Failure
    <2>3. CASE Connects(id, results, st)
      BY <1>7, <1>8, <1>9, <2>3 DEF Connects, Resolve, Status
    <2> QED BY <2>1, <2>2, <2>3 DEF Effect
  <1>11. /\ DOMAIN connection_table' \subseteq Result
         /\ \A r \in DOMAIN connection_table' :
               connection_table'[r] \in [id : Id, sockaddr : Addr]
    BY <1>9 DEF Effect, GoesOn, Fails, Connects, IInv, TypeOK
  <1>12. asked' \subseteq Addr \X Id
    BY DEF Effect
  <1>13. TypeOK'
    BY <1>4, <1>5, <1>10, <1>11, <1>12 DEF IInv, TypeOK
  <1>14. LookupsRun'
    BY <1>4 DEF LookupsRun
  <1>15. ResultOwned'
    BY <1>6, <1>10 DEF ResultOwned
  <1> QED BY <1>13, <1>14, <1>15 DEF IInv

\* A lookup begins in balance and without a request.
LEMMA NewLookupBalanced ==
    ASSUME NEW results \in SUBSET Result
    PROVE  Balanced(NewLookup(results)) /\ NewLookup(results).results = results
  <1> DEFINE l == NewLookup(results)
  <1>1. /\ l = [num_sources |-> 0, query_table |-> <<>>, query_sequence |-> <<>>,
               results |-> results]
        /\ l.num_sources = 0 /\ l.query_table = <<>> /\ l.query_sequence = <<>>
        /\ l.results = results
    BY DEF NewLookup
  <1> HIDE DEF l
  <1>2. DOMAIN l.query_table = {}
    BY <1>1
  <1>3. Fields(l)
    BY <1>1, <1>2 DEF Fields
  <1>4. Armed(l) = {}
    BY <1>2 DEF Armed
  <1>5. Balanced(l)
    <2>1. Cardinality(Armed(l)) = 0
      BY <1>4, FS_EmptySet
    <2> QED BY <1>1, <1>3, <2>1, LookupAssumption DEF Balanced
  <1> QED BY <1>1, <1>5 DEF l

\* An answer frees the slot of its query if the query still held one.
LEMMA AnsweredBalanced ==
    ASSUME NEW l, Running(l), NEW addr \in DOMAIN l.query_table, NEW metric \in Id
    PROVE  Balanced(Answered(l, addr, metric)) /\ Answered(l, addr, metric).results = l.results
  <1> DEFINE D == DOMAIN l.query_table
             next == Answered(l, addr, metric)
             armed == l.query_table[addr].timeout_source
             table2 == With(l.query_table, addr, Alive(metric))
  <1>1. PICK sequence :
           next = [num_sources |-> IF armed THEN l.num_sources - 1 ELSE l.num_sources,
                   query_table |-> table2, query_sequence |-> sequence, results |-> l.results]
    BY DEF Answered
  <1>2. /\ l.num_sources \in Nat /\ l.num_sources <= DHT_CONCURRENCY
        /\ l.num_sources = Cardinality(Armed(l))
        /\ D \subseteq Addr /\ l.query_table \in [D -> Query] /\ l.results \subseteq Result
    BY DEF Running, Balanced, Fields
  <1>3. Alive(metric) \in Query /\ Alive(metric).timeout_source = FALSE
    BY DEF Alive, Query
  <1>4. DOMAIN table2 = D /\ table2 \in [D -> Query]
    BY <1>2, <1>3 DEF With
  <1>5. \A a \in D : table2[a].timeout_source <=> a # addr /\ l.query_table[a].timeout_source
    BY <1>3 DEF With
  <1>6. /\ next.num_sources = (IF armed THEN l.num_sources - 1 ELSE l.num_sources)
        /\ next.query_table = table2 /\ next.query_sequence = sequence
        /\ next.results = l.results
    BY <1>1
  <1> HIDE DEF next, table2
  <1>7. Armed(next) = Armed(l) \ {addr}
    BY <1>4, <1>5, <1>6 DEF Armed
  <1>8. next.num_sources \in Nat /\ next.num_sources = Cardinality(Armed(next))
    <2>1. IsFiniteSet(Armed(l)) /\ Cardinality(Armed(l)) \in Nat
      BY FiniteLookup DEF Running, Balanced
    <2>2. addr \in Armed(l) <=> armed
      BY DEF Armed
    <2>3. CASE armed
      <3>1. Cardinality(Armed(l) \ {addr}) = Cardinality(Armed(l)) - 1
        BY <2>1, <2>2, <2>3, FS_RemoveElement
      <3>2. IsFiniteSet(Armed(l) \ {addr})
        BY <2>1, FS_Subset
      <3>3. Cardinality(Armed(l) \ {addr}) \in Nat
        BY <3>2, FS_CardinalityType
      <3> QED BY <1>2, <1>6, <1>7, <2>3, <3>1, <3>3
    <2>4. CASE ~armed
      <3>1. Armed(next) = Armed(l)
        BY <1>7, <2>2, <2>4
      <3> QED BY <1>2, <1>6, <2>4, <3>1
    <2> QED BY <2>3, <2>4
  <1>9. Fields(next)
    BY <1>1, <1>2, <1>4, <1>6, <1>8 DEF Fields
  <1>10. next.num_sources <= DHT_CONCURRENCY
    BY <1>2, <1>6, LookupAssumption
  <1> QED BY <1>6, <1>8, <1>9, <1>10 DEF Balanced, next

\* A query that times out frees its slot.
LEMMA ExpiredBalanced ==
    ASSUME NEW l, Running(l), NEW addr \in Armed(l)
    PROVE  /\ Balanced(Expired(l, addr)) /\ Sequenced(Expired(l, addr))
           /\ Expired(l, addr).results = l.results
  <1> DEFINE D == DOMAIN l.query_table
             next == Expired(l, addr)
             table2 == With(l.query_table, addr, Dead(l.query_table[addr]))
  <1>1. /\ next = [num_sources |-> l.num_sources - 1, query_table |-> table2,
                   query_sequence |-> l.query_sequence, results |-> l.results]
        /\ next.num_sources = l.num_sources - 1 /\ next.query_table = table2
        /\ next.query_sequence = l.query_sequence /\ next.results = l.results
    BY DEF Expired
  <1>2. /\ l.num_sources \in Nat /\ l.num_sources <= DHT_CONCURRENCY
        /\ l.num_sources = Cardinality(Armed(l))
        /\ D \subseteq Addr /\ l.query_table \in [D -> Query] /\ l.results \subseteq Result
        /\ addr \in D
    BY DEF Running, Balanced, Fields, Armed
  <1>3. /\ Dead(l.query_table[addr]) \in Query
        /\ Dead(l.query_table[addr]).timeout_source = FALSE
    <2>1. l.query_table[addr] \in Query
      BY <1>2
    <2> QED BY <2>1 DEF Dead, Query
  <1>4. DOMAIN table2 = D /\ table2 \in [D -> Query]
    BY <1>2, <1>3 DEF With
  <1>5. \A a \in D : table2[a].timeout_source <=> a # addr /\ l.query_table[a].timeout_source
    BY <1>3 DEF With
  <1> HIDE DEF next, table2
  <1>6. Armed(next) = Armed(l) \ {addr}
    BY <1>1, <1>4, <1>5 DEF Armed
  <1>7. next.num_sources \in Nat /\ next.num_sources = Cardinality(Armed(next))
    <2>1. IsFiniteSet(Armed(l)) /\ IsFiniteSet(Armed(l) \ {addr})
      BY FiniteLookup, FS_Subset DEF Running, Balanced
    <2>2. Cardinality(Armed(l) \ {addr}) = Cardinality(Armed(l)) - 1
      BY <2>1, FS_RemoveElement
    <2>3. Cardinality(Armed(l) \ {addr}) \in Nat
      BY <2>1, FS_CardinalityType
    <2> QED BY <1>1, <1>2, <1>6, <2>2, <2>3
  <1>8. Fields(next)
    BY <1>1, <1>2, <1>4, <1>7 DEF Fields
  <1>9. next.num_sources <= DHT_CONCURRENCY
    BY <1>1, <1>2, LookupAssumption
  <1>10. Sequenced(next)
    BY <1>1, <1>4 DEF Running, Sequenced
  <1> QED BY <1>1, <1>7, <1>8, <1>9, <1>10 DEF Balanced, next

-----------------------------------------------------------------------------
\* The callbacks that look nothing up.
LEMMA StatusStepInvariant ==
    ASSUME IInv, NEW r \in Result,
           RejectLookup(r) \/ ConnectionEstablished(r) \/ ConnectionTimeout(r) \/ DeliverFailure(r)
    PROVE  IInv'
  <1>1. lookup_table' = lookup_table
    BY DEF RejectLookup, ConnectionEstablished, ConnectionTimeout, DeliverFailure
  <1>2. TypeOK'
    BY <1>1 DEF IInv, TypeOK, RejectLookup, ConnectionEstablished, ConnectionTimeout,
                DeliverFailure, Without, Status, Failure
  <1>3. LookupsRun'
    BY <1>1 DEF IInv, LookupsRun
  <1>4. ResultOwned'
    <2>1. /\ status \in [Result -> Status]
          /\ \A q \in Result :
                /\ status[q] = "queued" <=>
                       \E id \in DOMAIN lookup_table : q \in lookup_table[id].results
                /\ status[q] = "connecting" <=> q \in DOMAIN connection_table
      BY DEF IInv, TypeOK, ResultOwned
    <2>2. CASE RejectLookup(r)
      BY <2>1, <2>2 DEF IInv, ResultOwned, RejectLookup
    <2>3. CASE ConnectionEstablished(r)
      BY <2>1, <2>3 DEF IInv, ResultOwned, ConnectionEstablished, Without
    <2>4. CASE ConnectionTimeout(r)
      BY <2>1, <2>4 DEF IInv, ResultOwned, ConnectionTimeout, Without
    <2>5. CASE DeliverFailure(r)
      BY <2>1, <2>5 DEF IInv, ResultOwned, DeliverFailure
    <2> QED BY <2>2, <2>3, <2>4, <2>5
  <1> QED BY <1>2, <1>3, <1>4 DEF IInv

\* Joining a running lookup puts the result on its list.
LEMMA JoinLookupWorks ==
    ASSUME IInv, NEW r \in Result, NEW id \in Id, JoinLookup(r, id)
    PROVE  Works(id, lookup_table[id].results \cup {r}, status')
  <1> DEFINE l == lookup_table[id]
             next == lookup_table'[id]
  <1>1. /\ status[r] = "unused" /\ id \in DOMAIN lookup_table
        /\ lookup_table' = [lookup_table EXCEPT ![id].results = l.results \cup {r}]
        /\ status' = [status EXCEPT ![r] = "queued"]
        /\ UNCHANGED <<table, connection_table, delivered, asked>>
    BY DEF JoinLookup
  <1>2. Running(l)
    BY <1>1 DEF IInv, LookupsRun
  <1>3. /\ DOMAIN lookup_table' = DOMAIN lookup_table
        /\ \A j \in DOMAIN lookup_table \ {id} : lookup_table'[j] = lookup_table[j]
        /\ next = [l EXCEPT !.results = l.results \cup {r}]
    BY <1>1
  <1>4. next = [num_sources |-> l.num_sources, query_table |-> l.query_table,
                query_sequence |-> l.query_sequence, results |-> l.results \cup {r}]
    BY <1>2, <1>3 DEF Running, Balanced, Fields
  <1>5. /\ next.num_sources = l.num_sources /\ next.query_table = l.query_table
        /\ next.query_sequence = l.query_sequence /\ next.results = l.results \cup {r}
    BY <1>4
  <1> HIDE DEF next
  <1>6. Running(next)
    BY <1>2, <1>4, <1>5 DEF Running, Balanced, Fields, Sequenced, Armed, Packed
  <1> DEFINE J == DOMAIN lookup_table \ {id}
  <1>7. OthersKept(id) /\ GoesOn(id, l.results \cup {r}, status')
    BY <1>1, <1>3, <1>5, <1>6 DEF OthersKept, GoesOn, next
  <1>8. Before(id, l.results \cup {r}, status')
    <2>1. /\ status \in [Result -> Status]
          /\ \A q \in Result :
                /\ status[q] = "queued" <=>
                       \E j \in DOMAIN lookup_table : q \in lookup_table[j].results
                /\ status[q] = "connecting" <=> q \in DOMAIN connection_table
          /\ \A j1, j2 \in DOMAIN lookup_table :
                j1 # j2 => lookup_table[j1].results \cap lookup_table[j2].results = {}
      BY DEF IInv, TypeOK, ResultOwned
    <2>2. \A j \in DOMAIN lookup_table : r \notin lookup_table[j].results
      BY <1>1, <2>1
    <2>3. l.results \cup {r} \subseteq Result
      BY <1>2 DEF Running, Balanced, Fields
    <2>4. status' \in [Result -> Status]
      BY <1>1, <2>1 DEF Status
    <2>5. \A q \in Result : status'[q] = IF q = r THEN "queued" ELSE status[q]
      BY <1>1, <2>1
    <2>6. \A j \in J : lookup_table[j].results \cap (l.results \cup {r}) = {}
      BY <1>1, <2>1, <2>2
    <2>7. \A q \in Result :
            (\E j \in DOMAIN lookup_table : q \in lookup_table[j].results)
               <=> q \in l.results \/ \E j \in J : q \in lookup_table[j].results
      BY <1>1
    <2> HIDE DEF l, J
    <2>8. \A q \in Result :
             /\ status'[q] = "queued" <=> q \in l.results \cup {r}
                                            \/ \E j \in J : q \in lookup_table[j].results
             /\ status'[q] = "connecting" <=> q \in DOMAIN connection_table
      BY <1>1, <2>1, <2>5, <2>7
    <2> QED BY <2>3, <2>4, <2>6, <2>8 DEF Before, J
  <1>9. Effect(id, l.results \cup {r}, status')
    BY <1>1, <1>7 DEF Effect, IInv, TypeOK
  <1> QED BY <1>1, <1>8, <1>9 DEF Works

\* What a callback that leaves the results alone meets.
LEMMA BeforeUnchanged ==
    ASSUME IInv, NEW id \in DOMAIN lookup_table
    PROVE  Before(id, lookup_table[id].results, status)
  <1> DEFINE J == DOMAIN lookup_table \ {id}
             results == lookup_table[id].results
  <1>1. results \subseteq Result
    BY DEF IInv, LookupsRun, Running, Balanced, Fields
  <1>2. \A q \in Result :
          (\E j \in DOMAIN lookup_table : q \in lookup_table[j].results)
             <=> q \in results \/ \E j \in J : q \in lookup_table[j].results
    OBVIOUS
  <1>3. \A j \in J : lookup_table[j].results \cap results = {}
    BY DEF IInv, ResultOwned
  <1>4. /\ status \in [Result -> Status]
        /\ \A q \in Result :
              /\ status[q] = "queued" <=>
                     \E j \in DOMAIN lookup_table : q \in lookup_table[j].results
              /\ status[q] = "connecting" <=> q \in DOMAIN connection_table
    BY DEF IInv, TypeOK, ResultOwned
  <1> HIDE DEF J, results
  <1> QED BY <1>1, <1>2, <1>3, <1>4 DEF Before, J, results

\* What a lookup that is created meets when no other has its identifier.
LEMMA BeforeCreated ==
    ASSUME IInv, NEW id, id \notin DOMAIN lookup_table
    PROVE  Before(id, {}, status)
  <1>1. DOMAIN lookup_table \ {id} = DOMAIN lookup_table
    OBVIOUS
  <1> QED BY <1>1 DEF Before, IInv, TypeOK, ResultOwned

-----------------------------------------------------------------------------
\* The callbacks that work on a lookup.
LEMMA BootstrapWorks ==
    ASSUME IInv, NEW addr \in BootstrapAddr, Bootstrap(addr)
    PROVE  \E results : Works(Self, results, status)
  <1> DEFINE l == IF Self \in DOMAIN lookup_table THEN lookup_table[Self] ELSE NewLookup({})
  <1>1. Self \in Id
    BY RoutingTableAssumption
  <1>2. Balanced(l)
    BY NewLookupBalanced DEF IInv, LookupsRun, Running
  <1>3. Before(Self, l.results, status)
    BY BeforeUnchanged, BeforeCreated, NewLookupBalanced
  <1>4. LookupUpdate(Self, l, << [id |-> ZeroId, addr |-> addr] >>, status)
        /\ delivered' = delivered
    BY DEF Bootstrap
  <1> HIDE DEF l
  <1>5. Effect(Self, l.results, status)
    BY <1>1, <1>2, <1>4, LookupUpdateEffect DEF IInv, TypeOK
  <1> QED BY <1>3, <1>4, <1>5 DEF Works

\* A user's lookup starts.
LEMMA StartLookupWorks ==
    ASSUME IInv, NEW r \in Result, NEW id \in Id, StartLookup(r, id)
    PROVE  Works(id, {r}, [status EXCEPT ![r] = "queued"])
  <1> DEFINE st == [status EXCEPT ![r] = "queued"]
             nodes == Search(table, id).nodes
  <1>1. /\ status[r] = "unused" /\ id \notin DOMAIN lookup_table /\ delivered' = delivered
        /\ LookupUpdate(id, NewLookup({r}), nodes, st)
    BY DEF StartLookup
  <1>2. Balanced(NewLookup({r})) /\ NewLookup({r}).results = {r}
    BY NewLookupBalanced
  <1>3. Before(id, {r}, st)
    <2>1. DOMAIN lookup_table \ {id} = DOMAIN lookup_table
      BY <1>1
    <2>2. /\ status \in [Result -> Status]
          /\ \A q \in Result :
                /\ status[q] = "queued" <=>
                       \E j \in DOMAIN lookup_table : q \in lookup_table[j].results
                /\ status[q] = "connecting" <=> q \in DOMAIN connection_table
      BY DEF IInv, TypeOK, ResultOwned
    <2>3. \A j \in DOMAIN lookup_table : lookup_table[j].results \cap {r} = {}
      BY <1>1, <2>2
    <2>4. /\ st \in [Result -> Status]
          /\ \A q \in Result : st[q] = IF q = r THEN "queued" ELSE status[q]
      BY <2>2 DEF Status
    <2> HIDE DEF st
    <2>5. \A q \in Result :
             /\ st[q] = "queued" <=> q \in {r} \/ \E j \in DOMAIN lookup_table :
                                                      q \in lookup_table[j].results
             /\ st[q] = "connecting" <=> q \in DOMAIN connection_table
      BY <1>1, <2>2, <2>4
    <2> QED BY <2>1, <2>3, <2>4, <2>5 DEF Before
  <1> HIDE DEF st, nodes
  <1>4. Effect(id, NewLookup({r}).results, st)
    BY <1>1, <1>2, LookupUpdateEffect DEF IInv, TypeOK
  <1>5. Effect(id, {r}, st)
    BY <1>2, <1>4
  <1> QED BY <1>1, <1>3, <1>5 DEF Works, st

\* The results of the lookup a refresh replaces are cancelled.
LEMMA RefreshWorks ==
    ASSUME IInv, NEW id \in Id, Refresh(id)
    PROVE  LET replaced == IF id \in DOMAIN lookup_table THEN lookup_table[id].results ELSE {}
           IN  Works(id, {}, Resolve(status, replaced, "cancelled"))
  <1> DEFINE replaced == IF id \in DOMAIN lookup_table THEN lookup_table[id].results ELSE {}
             st == Resolve(status, replaced, "cancelled")
             nodes == Search(table, id).nodes
             J == DOMAIN lookup_table \ {id}
  <1>1. LookupUpdate(id, NewLookup({}), nodes, st) /\ delivered' = delivered
    BY DEF Refresh
  <1>2. Balanced(NewLookup({})) /\ NewLookup({}).results = {}
    BY NewLookupBalanced
  <1>3. Before(id, {}, st)
    <2>1. \A q \in Result : (\E j \in DOMAIN lookup_table : q \in lookup_table[j].results)
                               <=> q \in replaced \/ \E j \in J : q \in lookup_table[j].results
      OBVIOUS
    <2>2. \A j \in J : lookup_table[j].results \cap replaced = {}
      BY DEF IInv, ResultOwned
    <2>3. /\ status \in [Result -> Status]
          /\ \A q \in Result :
                /\ status[q] = "queued" <=>
                       \E j \in DOMAIN lookup_table : q \in lookup_table[j].results
                /\ status[q] = "connecting" <=> q \in DOMAIN connection_table
      BY DEF IInv, TypeOK, ResultOwned
    <2>4. /\ st \in [Result -> Status]
          /\ \A q \in Result : st[q] = IF q \in replaced THEN "cancelled" ELSE status[q]
      BY <2>3 DEF Resolve, Status, Failure
    <2> HIDE DEF st, replaced, J
    <2>5. \A q \in Result :
             /\ st[q] = "queued" <=> \E j \in J : q \in lookup_table[j].results
             /\ st[q] = "connecting" <=> q \in DOMAIN connection_table
      BY <2>1, <2>2, <2>3, <2>4
    <2> QED BY <2>4, <2>5 DEF Before, J
  <1> HIDE DEF st, nodes
  <1>4. Effect(id, NewLookup({}).results, st)
    BY <1>1, <1>2, LookupUpdateEffect DEF IInv, TypeOK
  <1>5. Effect(id, {}, st)
    BY <1>2, <1>4
  <1> QED BY <1>1, <1>3, <1>5 DEF Works, st

\* A step that leaves the lookups, the connections and the results alone.
LEMMA TableStepInvariant ==
    ASSUME IInv,
           UNCHANGED <<lookup_table, connection_table, status, delivered, asked>>
    PROVE  IInv'
  BY DEF IInv, TypeOK, LookupsRun, ResultOwned

\* A lookup response arrives.
LEMMA ReceiveLookupResWorks ==
    ASSUME IInv, NEW peer \in Peers, NEW id \in DOMAIN lookup_table, NEW nodes \in Reply,
           peer.addr \in DOMAIN lookup_table[id].query_table, ReceiveLookupRes(peer, id, nodes)
    PROVE  Works(id, lookup_table[id].results, status)
  <1> DEFINE l == lookup_table[id]
             metric == Xor(peer.id, id)
             next == Answered(l, peer.addr, metric)
  <1>1. LookupUpdate(id, next, nodes, status) /\ delivered' = delivered
    BY DEF ReceiveLookupRes
  <1>2. metric \in Id /\ id \in Id
    BY DEF Xor, Id, IInv, TypeOK
  <1>3. Running(l)
    BY DEF IInv, LookupsRun
  <1> HIDE DEF metric
  <1>4. Balanced(next) /\ next.results = l.results
    BY <1>2, <1>3, AnsweredBalanced
  <1>5. Before(id, l.results, status)
    BY BeforeUnchanged
  <1> HIDE DEF next
  <1>6. Effect(id, next.results, status)
    BY <1>1, <1>2, <1>4, LookupUpdateEffect DEF IInv, TypeOK
  <1> QED BY <1>1, <1>4, <1>5, <1>6 DEF Works

\* A request is not answered.
LEMMA QueryTimeoutWorks ==
    ASSUME IInv, NEW id \in Id, NEW addr \in Addr, QueryTimeout(id, addr)
    PROVE  Works(id, lookup_table[id].results, status)
  <1> DEFINE l == lookup_table[id]
             next == Expired(l, addr)
  <1>1. /\ id \in DOMAIN lookup_table /\ addr \in Armed(l)
        /\ Dispatch(id, next, status)
        /\ connection_table' = connection_table /\ delivered' = delivered
    BY DEF QueryTimeout
  <1>2. Running(l)
    BY <1>1 DEF IInv, LookupsRun
  <1>3. Balanced(next) /\ Sequenced(next) /\ next.results = l.results
    BY <1>1, <1>2, ExpiredBalanced
  <1>4. Before(id, l.results, status)
    BY <1>1, BeforeUnchanged
  <1> HIDE DEF next
  <1>5. Effect(id, next.results, status)
    BY <1>1, <1>3, DispatchEffect DEF IInv, TypeOK
  <1> QED BY <1>1, <1>3, <1>4, <1>5 DEF Works

-----------------------------------------------------------------------------
\* The invariant holds, for every identifier width, address, peer and result.
THEOREM Invariant == Spec => []IInv
  <1>1. Init => IInv
    BY DEF Init, IInv, TypeOK, LookupsRun, ResultOwned, Status
  <1>2. ASSUME IInv, [Next]_vars PROVE IInv'
    <2>1. ASSUME NEW addr \in BootstrapAddr, Bootstrap(addr) PROVE IInv'
      BY <1>2, <2>1, BootstrapWorks, Settled, RoutingTableAssumption
    <2>2. ASSUME NEW r \in Result, RejectLookup(r) PROVE IInv'
      BY <1>2, <2>2, StatusStepInvariant
    <2>3. ASSUME NEW r \in Result, NEW id \in Targets, JoinLookup(r, id) PROVE IInv'
      BY <1>2, <2>3, JoinLookupWorks, Settled, LookupAssumption
    <2>4. ASSUME NEW r \in Result, NEW id \in Targets, StartLookup(r, id) PROVE IInv'
      BY <1>2, <2>4, StartLookupWorks, Settled, LookupAssumption
    <2>5. ASSUME NEW peer \in Peers, NEW id \in Id, ServeLookup(peer, id) PROVE IInv'
      BY <1>2, <2>5, TableStepInvariant DEF ServeLookup
    <2>6. ASSUME NEW peer \in Peers, NEW id \in Id, NEW nodes \in Reply,
                 ReceiveLookupRes(peer, id, nodes)
          PROVE  IInv'
      <3>1. CASE id \in DOMAIN lookup_table /\ peer.addr \in DOMAIN lookup_table[id].query_table
        BY <1>2, <2>6, <3>1, ReceiveLookupResWorks, Settled
      <3>2. CASE ~(id \in DOMAIN lookup_table /\ peer.addr \in DOMAIN lookup_table[id].query_table)
        BY <1>2, <2>6, <3>2, TableStepInvariant DEF ReceiveLookupRes
      <3> QED BY <3>1, <3>2
    <2>7. ASSUME NEW r \in Result, ConnectionEstablished(r) PROVE IInv'
      BY <1>2, <2>7, StatusStepInvariant
    <2>8. ASSUME NEW id \in RefreshTargets, Refresh(id) PROVE IInv'
      BY <1>2, <2>8, RefreshWorks, Settled, LookupAssumption
    <2>9. ASSUME NEW id \in Id, NEW addr \in Addr, QueryTimeout(id, addr) PROVE IInv'
      BY <1>2, <2>9, QueryTimeoutWorks, Settled
    <2>10. ASSUME NEW r \in Result, ConnectionTimeout(r) \/ DeliverFailure(r) PROVE IInv'
      BY <1>2, <2>10, StatusStepInvariant
    <2>11. CASE Tick
      BY <1>2, <2>11, TableStepInvariant DEF Tick
    <2>12. CASE UNCHANGED vars
      BY <1>2, <2>12, TableStepInvariant DEF vars
    <2> QED
      BY <1>2, <2>1, <2>2, <2>3, <2>4, <2>5, <2>6, <2>7, <2>8, <2>9, <2>10, <2>11, <2>12
      DEF Next, UserStep, NetworkStep, TimerStep
  <1> QED BY <1>1, <1>2, PTL DEF Spec

\* The variables keep their types.
THEOREM TypeCorrect == Spec => []TypeOK
  <1>1. IInv => TypeOK
    BY DEF IInv
  <1> QED BY <1>1, Invariant, PTL

\* The counter of outstanding requests is the number of armed timers.
THEOREM Counted == Spec => []SourcesCounted
  <1>1. IInv => SourcesCounted
    BY DEF IInv, LookupsRun, Running, Balanced, SourcesCounted
  <1> QED BY <1>1, Invariant, PTL

\* No lookup exceeds DHT_CONCURRENCY.
THEOREM Bounded == Spec => []ConcurrencyBound
  <1>1. IInv => ConcurrencyBound
    BY DEF IInv, LookupsRun, Running, Balanced, ConcurrencyBound
  <1> QED BY <1>1, Invariant, PTL

\* A lookup in the table always waits for something that will happen.
THEOREM NeverStalled == Spec => []NoStalledLookup
  <1>1. IInv => NoStalledLookup
    BY DEF IInv, LookupsRun, Running, NoStalledLookup
  <1> QED BY <1>1, Invariant, PTL

\* No slot is idle while a query is held back for want of one.
THEOREM NeverIdle == Spec => []NoIdleSlot
  <1>1. IInv => NoIdleSlot
    BY DEF IInv, LookupsRun, Running, Packed, NoIdleSlot
  <1> QED BY <1>1, Invariant, PTL

\* Every result has exactly one owner.
THEOREM Owned == Spec => []ResultOwned
  <1>1. IInv => ResultOwned
    BY DEF IInv
  <1> QED BY <1>1, Invariant, PTL
=============================================================================
