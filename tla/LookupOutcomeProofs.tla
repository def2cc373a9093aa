-------------------------- MODULE LookupOutcomeProofs --------------------------
(***************************************************************************)
(* What the callers of a lookup are told, from the invariant of            *)
(* LookupProofs: an outcome stays and is told once, the lookups implement  *)
(* LookupService but for its fairness, and a failure is reported only when *)
(* the search was exhaustive.                                              *)
(***************************************************************************)
EXTENDS LookupProofs

Outcomes == Failure \cup {"connected"}

\* Only outcomes are told, and a connection is told at once.
ToldOutcomes ==
    \A r \in Result : /\ r \in delivered => status[r] \in Outcomes
                      /\ status[r] = "connected" => r \in delivered

\* What becomes of a result that nobody is told of in a step.
Moves(x, y) ==
    \/ y = x
    \/ x = "queued" /\ y \in {"connecting", "not_found", "cancelled"}
    \/ x = "connecting" /\ y = "timed_out"

AllMove == delivered' = delivered /\ \A r \in Result : Moves(status[r], status'[r])

Asks(r) == /\ delivered' = delivered
           /\ status[r] = "unused"
           /\ status'[r] \in {"queued", "connecting", "not_found", "invalid"}
           /\ \A q \in Result \ {r} : Moves(status[q], status'[q])

IsTold(r) == /\ r \notin delivered /\ delivered' = delivered \cup {r}
             /\ \/ status[r] \in Failure /\ status'[r] = status[r]
                \/ status[r] = "connecting" /\ status'[r] = "connected"
             /\ \A q \in Result \ {r} : status'[q] = status[q]

\* A step of a lookup moves the results that wait for it, if any.
LEMMA WorkMoves ==
    ASSUME NEW id, NEW results, NEW st, Works(id, results, st), NEW r \in Result
    PROVE  \/ status'[r] = st[r]
           \/ st[r] = "queued" /\ status'[r] \in {"connecting", "not_found"}
  <1>1. r \in results => st[r] = "queued"
    BY DEF Works, Before
  <1> QED BY <1>1 DEF Works, Effect, GoesOn, Fails, Connects, Resolve

\* Every step completes results that are owed, registers a new one, or runs the
\* callback of one that has an outcome.
LEMMA ResultsMove ==
    ASSUME IInv, ToldOutcomes, [Next]_vars
    PROVE  AllMove \/ \E r \in Result : Asks(r) \/ IsTold(r)
  <1>1. status \in [Result -> Status]
    BY DEF IInv, TypeOK
  <1>2. ASSUME NEW id, NEW results, Works(id, results, status) PROVE AllMove
    BY <1>2, WorkMoves DEF Works, AllMove, Moves
  <1>3. ASSUME NEW r \in Result, NEW id, NEW results,
               Works(id, results, [status EXCEPT ![r] = "queued"]), status[r] = "unused"
        PROVE  Asks(r)
    <2> DEFINE st == [status EXCEPT ![r] = "queued"]
    <2>1. st[r] = "queued" /\ \A q \in Result \ {r} : st[q] = status[q]
      BY <1>1
    <2> HIDE DEF st
    <2>2. \A q \in Result : \/ status'[q] = st[q]
                            \/ st[q] = "queued" /\ status'[q] \in {"connecting", "not_found"}
      BY <1>3, WorkMoves DEF st
    <2> QED BY <1>3, <2>1, <2>2 DEF Works, Asks, Moves
  <1>4. ASSUME NEW addr \in BootstrapAddr, Bootstrap(addr) PROVE AllMove
    BY <1>2, <1>4, BootstrapWorks
  <1>5. ASSUME NEW r \in Result, RejectLookup(r) PROVE Asks(r)
    BY <1>1, <1>5 DEF RejectLookup, Asks, Moves
  <1>6. ASSUME NEW r \in Result, NEW id \in Id, JoinLookup(r, id) PROVE Asks(r)
    BY <1>1, <1>6 DEF JoinLookup, Asks, Moves
  <1>7. ASSUME NEW r \in Result, NEW id \in Id, StartLookup(r, id) PROVE Asks(r)
    BY <1>3, <1>7, StartLookupWorks DEF StartLookup
  <1>8. ASSUME NEW peer \in Peers, NEW id \in Id, NEW nodes \in Reply,
               ReceiveLookupRes(peer, id, nodes)
        PROVE  AllMove
    <2>1. CASE id \in DOMAIN lookup_table /\ peer.addr \in DOMAIN lookup_table[id].query_table
      BY <1>2, <1>8, <2>1, ReceiveLookupResWorks
    <2>2. CASE ~(id \in DOMAIN lookup_table /\ peer.addr \in DOMAIN lookup_table[id].query_table)
      BY <1>8, <2>2 DEF ReceiveLookupRes, AllMove, Moves
    <2> QED BY <2>1, <2>2
  <1>9. ASSUME NEW r \in Result, ConnectionEstablished(r) PROVE IsTold(r)
    <2>1. status[r] = "connecting"
      BY <1>9 DEF IInv, ResultOwned, ConnectionEstablished
    <2>2. r \notin delivered
      BY <2>1 DEF ToldOutcomes, Outcomes, Failure
    <2> QED BY <1>1, <1>9, <2>1, <2>2 DEF ConnectionEstablished, IsTold
  <1>10. ASSUME NEW id \in Id, Refresh(id) PROVE AllMove
    <2> DEFINE replaced == IF id \in DOMAIN lookup_table THEN lookup_table[id].results ELSE {}
               st == Resolve(status, replaced, "cancelled")
    <2>1. Works(id, {}, st)
      BY <1>10, RefreshWorks
    <2>2. \A q \in replaced : q \in Result => status[q] = "queued"
      BY DEF IInv, ResultOwned
    <2>3. \A q \in Result : Moves(status[q], st[q]) /\ (st[q] = "queued" => status[q] = "queued")
      BY <1>1, <2>2 DEF Resolve, Moves
    <2> HIDE DEF st
    <2>4. \A q \in Result : \/ status'[q] = st[q]
                            \/ st[q] = "queued" /\ status'[q] \in {"connecting", "not_found"}
      BY <2>1, WorkMoves
    <2> QED BY <2>1, <2>3, <2>4 DEF Works, AllMove, Moves
  <1>11. ASSUME NEW id \in Id, NEW addr \in Addr, QueryTimeout(id, addr) PROVE AllMove
    BY <1>2, <1>11, QueryTimeoutWorks
  <1>12. ASSUME NEW r \in Result, ConnectionTimeout(r) PROVE AllMove
    <2>1. status[r] = "connecting"
      BY <1>12 DEF IInv, ResultOwned, ConnectionTimeout
    <2> QED BY <1>1, <1>12, <2>1 DEF ConnectionTimeout, AllMove, Moves
  <1>13. ASSUME NEW r \in Result, DeliverFailure(r) PROVE IsTold(r)
    BY <1>13 DEF DeliverFailure, IsTold
  <1>14. CASE UNCHANGED vars \/ Tick \/ \E peer \in Peers, id \in Id : ServeLookup(peer, id)
    BY <1>14 DEF vars, Tick, ServeLookup, AllMove, Moves
  <1> QED
    BY <1>4, <1>5, <1>6, <1>7, <1>8, <1>9, <1>10, <1>11, <1>12, <1>13, <1>14, LookupAssumption
    DEF Next, UserStep, NetworkStep, TimerStep

\* So an outcome stays, and callbacks run for results that have one only.
LEMMA OutcomeStays ==
    ASSUME ToldOutcomes, AllMove \/ \E r \in Result : Asks(r) \/ IsTold(r)
    PROVE  /\ ToldOutcomes'
           /\ \A r \in Result : status[r] \in Outcomes =>
                 status'[r] = status[r] /\ (r \in delivered => r \in delivered')
  <1>1. CASE AllMove
    BY <1>1 DEF AllMove, Moves, ToldOutcomes, Outcomes, Failure
  <1>2. ASSUME NEW r \in Result, Asks(r)
        PROVE  /\ ToldOutcomes'
               /\ \A q \in Result : status[q] \in Outcomes =>
                     status'[q] = status[q] /\ (q \in delivered => q \in delivered')
    BY <1>2 DEF Asks, Moves, ToldOutcomes, Outcomes, Failure
  <1>3. ASSUME NEW r \in Result, IsTold(r)
        PROVE  /\ ToldOutcomes'
               /\ \A q \in Result : status[q] \in Outcomes =>
                     status'[q] = status[q] /\ (q \in delivered => q \in delivered')
    BY <1>3 DEF IsTold, ToldOutcomes, Outcomes, Failure
  <1> QED BY <1>1, <1>2, <1>3

\* Whose callback has run has an outcome.
LEMMA AlwaysTold == Spec => []ToldOutcomes
  <1>1. Init => ToldOutcomes
    BY DEF Init, ToldOutcomes
  <1>2. IInv /\ ToldOutcomes /\ [Next]_vars => ToldOutcomes'
    BY ResultsMove, OutcomeStays
  <1> QED BY <1>1, <1>2, Invariant, PTL DEF Spec

\* A callback runs at most once, with the outcome it was completed with.
THEOREM ToldOnce == Spec => CompletedOnce
  <1>1. IInv /\ ToldOutcomes /\ [Next]_vars =>
            [\A r \in Result : status[r] \in Failure \cup {"connected"} =>
                status'[r] = status[r] /\ (r \in delivered => r \in delivered')]_vars
    BY ResultsMove, OutcomeStays DEF Outcomes
  <1> QED BY <1>1, Invariant, AlwaysTold, PTL DEF Spec, CompletedOnce

-----------------------------------------------------------------------------
\* The safety part of Serves: what Service!Spec says but for its fairness.
ServesSafely == Service!Init /\ [][Service!Next]_Answers

\* Each of these steps is one of LookupService, or none.
LEMMA ServiceStep ==
    ASSUME ToldOutcomes, AllMove \/ \E r \in Result : Asks(r) \/ IsTold(r)
    PROVE  [Service!Next]_Answers
  <1>1. CASE AllMove
    <2>1. ASSUME NEW r \in Result PROVE Answers'[r] = Answers[r]
      <3>1. (r \in delivered' <=> r \in delivered) /\ Moves(status[r], status'[r])
        BY <1>1 DEF AllMove
      <3>2. r \in delivered => status'[r] = status[r]
        BY <3>1 DEF ToldOutcomes, Outcomes, Failure, Moves
      <3>3. status'[r] = "unused" <=> status[r] = "unused"
        BY <3>1 DEF Moves
      <3> QED BY <3>1, <3>2, <3>3 DEF Answers
    <2>2. Answers' = Answers
      BY <2>1 DEF Answers
    <2> QED BY <2>2
  <1>2. ASSUME NEW r \in Result, Asks(r) PROVE Service!Request(r)
    <2>1. r \notin delivered /\ r \notin delivered'
      BY <1>2 DEF Asks, ToldOutcomes, Outcomes, Failure
    <2>2. Answers[r] = "none" /\ Answers'[r] = "owed"
      BY <1>2, <2>1 DEF Asks, Answers
    <2>3. ASSUME NEW q \in Result \ {r} PROVE Answers'[q] = Answers[q]
      <3>1. (q \in delivered' <=> q \in delivered) /\ Moves(status[q], status'[q])
        BY <1>2 DEF Asks
      <3>2. q \in delivered => status'[q] = status[q]
        BY <3>1 DEF ToldOutcomes, Outcomes, Failure, Moves
      <3>3. status'[q] = "unused" <=> status[q] = "unused"
        BY <3>1 DEF Moves
      <3> QED BY <3>1, <3>2, <3>3 DEF Answers
    <2>4. Answers' = [Answers EXCEPT ![r] = "owed"]
      BY <2>2, <2>3 DEF Answers
    <2> QED BY <2>2, <2>4 DEF Service!Request
  <1>3. ASSUME NEW r \in Result, IsTold(r) PROVE Service!Answer(r)
    <2>1. Answers[r] = "owed" /\ Answers'[r] = status'[r]
      BY <1>3 DEF IsTold, Answers, Failure
    <2>2. \A q \in Result \ {r} : Answers'[q] = Answers[q]
      BY <1>3 DEF IsTold, Answers
    <2>3. Answers' = [Answers EXCEPT ![r] = status'[r]]
      BY <2>1, <2>2 DEF Answers
    <2>4. status'[r] \in Failure \cup {"connected"}
      BY <1>3 DEF IsTold
    <2> QED BY <2>1, <2>3, <2>4 DEF Service!Answer
  <1> QED BY <1>1, <1>2, <1>3 DEF Service!Next

\* Every call that is answered was owed an answer, and is answered once.
THEOREM Implements == Spec => ServesSafely
  <1>1. Init => Service!Init
    BY DEF Init, Service!Init, Answers
  <1>2. IInv /\ ToldOutcomes /\ [Next]_vars => [Service!Next]_Answers
    BY ResultsMove, ServiceStep
  <1> QED BY <1>1, <1>2, Invariant, AlwaysTold, PTL DEF Spec, ServesSafely

-----------------------------------------------------------------------------
AliveIn(l) == {a \in DOMAIN l.query_table : l.query_table[a].is_alive}

\* Nobody is left to ask, or enough have answered.
Exhausted(l) ==
    \/ \A a \in DOMAIN l.query_table : l.query_table[a].is_finished
    \/ Cardinality(AliveIn(l)) >= DHT_NODE_COUNT

\* The sequence of a lookup leaves no address out.
LEMMA SequenceComplete ==
    ASSUME NEW l, Fields(l), Sequenced(l), NEW a \in DOMAIN l.query_table
    PROVE  \E p \in DOMAIN l.query_sequence : l.query_sequence[p] = a
  <1> DEFINE D == DOMAIN l.query_table
             n == Cardinality(D)
             s == l.query_sequence
  <1>1. IsFiniteSet(D) /\ n \in Nat
    BY FiniteLookup
  <1>2. s \in [1 .. n -> D] /\ DOMAIN s = 1 .. n /\ \A p, q \in 1 .. n : p < q => s[p] # s[q]
    BY DEF Sequenced
  <1>3. s \in Injection(1 .. n, D)
    <2>1. \A p, q \in 1 .. n : p # q => p < q \/ q < p
      BY <1>1
    <2> HIDE DEF n, D, s
    <2>2. \A p, q \in 1 .. n : s[p] = s[q] => p = q
      BY <1>2, <2>1
    <2> QED BY <1>2, <2>2 DEF Injection, IsInjective
  <1>4. Cardinality(1 .. n) = n
    BY <1>1, FS_Interval
  <1>5. s \in Surjection(1 .. n, D)
    <2> HIDE DEF D, s
    <2> QED BY <1>1, <1>3, <1>4, FS_Injection
  <1> HIDE DEF s, D, n
  <1>6. \E p \in 1 .. n : s[p] = a
    BY <1>5 DEF Surjection, D
  <1> QED BY <1>2, <1>6 DEF s

\* What dht_lookup_dispatch gives up was exhausted.
LEMMA GivenUp ==
    ASSUME NEW l, Balanced(l), Sequenced(l),
           NEW sent, sent = {l.query_sequence[p] : p \in ToAsk(l)}, Ask(l, sent).num_sources = 0
    PROVE  l.num_sources = 0 /\ Exhausted(l)
  <1> DEFINE D == DOMAIN l.query_table
             next == Ask(l, sent)
             s == l.query_sequence
  <1>1. IsFiniteSet(sent) /\ Cardinality(sent) \in Nat /\ l.num_sources \in Nat
    BY AskedFit, FS_CardinalityType DEF Balanced, Fields
  <1>2. l.num_sources = 0 /\ Cardinality(sent) = 0
    BY <1>1 DEF Ask
  <1>3. sent = {}
    BY <1>1, <1>2, FS_EmptySet
  <1>4. /\ next.num_sources = 0 /\ next.query_sequence = s
        /\ next.query_table = [a \in D |-> l.query_table[a]]
    BY <1>3 DEF Ask
  <1>5. Packed(next)
    BY AskPacks
  <1>6. Armed(l) = {}
    BY <1>2, FiniteLookup, FS_EmptySet DEF Balanced
  <1>7. \A a \in D : Waiting(l.query_table[a]) \/ l.query_table[a].is_finished
    BY <1>6 DEF Armed, Waiting
  <1>8. /\ IsFiniteSet(D) /\ AliveIn(l) \subseteq D /\ IsFiniteSet(AliveIn(l))
        /\ Cardinality(AliveIn(l)) \in Nat
    <2>1. IsFiniteSet(D) /\ AliveIn(l) \subseteq D
      BY FiniteLookup DEF Balanced, AliveIn
    <2> HIDE DEF D
    <2> QED BY <2>1, FS_Subset, FS_CardinalityType
  <1> SUFFICES ASSUME NEW a \in D, Waiting(l.query_table[a])
               PROVE  Cardinality(AliveIn(l)) >= DHT_NODE_COUNT
    BY <1>2, <1>7 DEF Exhausted
  <1>9. PICK p \in DOMAIN s : s[p] = a
    BY SequenceComplete DEF Balanced
  <1>10. DOMAIN s \subseteq Nat /\ p \in Nat /\ DOMAIN s = 1 .. Cardinality(D)
         /\ Cardinality(D) \in Nat /\ \A q \in DOMAIN s : s[q] \in D
    BY FiniteLookup DEF Balanced, Sequenced
  <1> DEFINE before == {q \in 1 .. p - 1 : next.query_table[s[q]].is_alive}
             T == {s[q] : q \in before}
  <1>11. Cardinality(before) >= DHT_NODE_COUNT
    <2>1. next.num_sources < DHT_CONCURRENCY
      BY <1>4, LookupAssumption
    <2>2. Waiting(next.query_table[s[p]])
      BY <1>4, <1>9
    <2> HIDE DEF next, s
    <2> QED BY <1>4, <1>5, <1>9, <2>1, <2>2 DEF Packed
  <1>12. before \subseteq DOMAIN s /\ before \in SUBSET Nat /\ IsFiniteSet(before)
    <2>1. before \subseteq 1 .. p - 1
      OBVIOUS
    <2>2. p \in 1 .. Cardinality(D) /\ p - 1 \in Int
      BY <1>10
    <2>3. 1 .. p - 1 \subseteq DOMAIN s
      <3> HIDE DEF before, D, s
      <3> QED BY <1>10, <2>2
    <2>4. IsFiniteSet(1 .. p - 1)
      BY <2>2, FS_Interval
    <2> HIDE DEF before, s
    <2> QED BY <1>10, <2>1, <2>3, <2>4, FS_Subset
  <1>13. T \subseteq AliveIn(l)
    <2>1. ASSUME NEW q \in before PROVE s[q] \in AliveIn(l)
      <3>1. s[q] \in D
        <4> HIDE DEF before, D, s
        <4> QED BY <1>10, <1>12
      <3>2. next.query_table[s[q]].is_alive
        OBVIOUS
      <3>3. next.query_table[s[q]] = l.query_table[s[q]]
        <4> HIDE DEF s, next
        <4> QED BY <1>4, <3>1
      <3> QED BY <3>1, <3>2, <3>3 DEF AliveIn
    <2> HIDE DEF before, s
    <2> QED BY <2>1
  <1>14. Cardinality(T) = Cardinality(before)
    <2>1. \A q, r \in before : q < r => s[q] # s[r]
      BY <1>12 DEF Sequenced
    <2> HIDE DEF before, s
    <2> QED BY <1>12, <2>1, PositionsAreAddresses
  <1>15. Cardinality(T) <= Cardinality(AliveIn(l))
    <2> HIDE DEF T
    <2> QED BY <1>8, <1>13, FS_Subset
  <1>16. Cardinality(before) \in Nat
    <2> HIDE DEF before
    <2> QED BY <1>12, FS_CardinalityType
  <1> HIDE DEF before, T
  <1> QED BY <1>8, <1>11, <1>14, <1>15, <1>16, RoutingTableAssumption

\* Taking in nodes adds queries that are neither finished nor alive.
LEMMA InsertAddsOpen ==
    ASSUME NEW l, Balanced(l), NEW id, NEW nodes, NEW s,
           Exhausted([Insert(l, id, nodes) EXCEPT !.query_sequence = s])
    PROVE  Exhausted(l)
  <1> DEFINE D == DOMAIN l.query_table
             fresh == {a \in Addr \ D : \E k \in DOMAIN nodes : nodes[k].addr = a}
             first(a) == CHOOSE k \in DOMAIN nodes :
                            nodes[k].addr = a /\ \A j \in 1 .. k - 1 : nodes[j].addr # a
             table2 == [a \in D \cup fresh |->
                           IF a \in fresh THEN NewQuery(Xor(id, nodes[first(a)].id))
                                          ELSE l.query_table[a]]
             next == [Insert(l, id, nodes) EXCEPT !.query_sequence = s]
  <1>1. next.query_table = table2
    BY DEF Insert, Balanced, Fields
  <1>2. /\ DOMAIN table2 = D \cup fresh
        /\ \A a \in D : table2[a] = l.query_table[a]
        /\ \A a \in fresh : ~table2[a].is_alive
    BY DEF NewQuery
  <1> HIDE DEF table2, fresh, next
  <1>3. AliveIn(next) = AliveIn(l)
    BY <1>1, <1>2 DEF AliveIn
  <1>4. Exhausted(next)
    BY DEF next
  <1> QED BY <1>1, <1>2, <1>3, <1>4 DEF Exhausted

\* A result that is told not_found by dht_lookup_update or dispatch.
LEMMA DispatchGivesUp ==
    ASSUME NEW id, NEW l, Balanced(l), Sequenced(l), NEW st, Dispatch(id, l, st),
           NEW r \in Result, st[r] = "queued", status'[r] = "not_found"
    PROVE  l.num_sources = 0 /\ Exhausted(l)
  <1> DEFINE sent == {l.query_sequence[p] : p \in ToAsk(l)}
  <1>1. Ask(l, sent).num_sources = 0
    BY DEF Dispatch, IsFailed
  <1> HIDE DEF sent
  <1> QED BY <1>1, GivenUp DEF sent

\* The same for dht_lookup_update, of the lookup as it was before.
LEMMA UpdateGivesUp ==
    ASSUME NEW id, NEW l, Balanced(l), NEW nodes, NEW st, LookupUpdate(id, l, nodes, st),
           NEW r \in Result, st[r] = "queued", status'[r] = "not_found"
    PROVE  l.num_sources = 0 /\ Exhausted(l)
  <1> DEFINE others == Others(nodes)
             next == Insert(l, id, others)
  <1>1. \A node : ~Connect(id, l, node, st)
    BY DEF Connect, Resolve
  <1>2. PICK s \in Sortings(next.query_table, Arrivals(l, others)) :
            Dispatch(id, [next EXCEPT !.query_sequence = s], st)
    BY <1>1 DEF LookupUpdate
  <1> DEFINE sorted == [next EXCEPT !.query_sequence = s]
  <1>3. Balanced(sorted) /\ Sequenced(sorted)
    BY InsertKeepsBalance
  <1>4. sorted.num_sources = l.num_sources
    BY DEF Insert, Balanced, Fields
  <1> HIDE DEF sorted
  <1>5. sorted.num_sources = 0 /\ Exhausted(sorted)
    BY <1>2, <1>3, DispatchGivesUp DEF sorted
  <1>6. Exhausted(l)
    BY <1>5, InsertAddsOpen DEF sorted
  <1> QED BY <1>4, <1>5, <1>6
-----------------------------------------------------------------------------
\* A callback fails no result but those of the lookup it works on.
LEMMA FailsItsOwn ==
    ASSUME NEW other, NEW results, NEW st, Works(other, results, st),
           NEW id \in DOMAIN lookup_table, NEW r \in lookup_table[id].results, r \in Result,
           st[r] # "not_found", status'[r] = "not_found"
    PROVE  id = other /\ r \in results
  <1>1. r \in results
    BY DEF Works, Effect, GoesOn, Fails, Connects, Resolve
  <1> QED BY <1>1 DEF Works, Before

\* The condition of FailureIsExhaustive, when addr is settled.
Settles(l, addr, live) ==
    \/ {a \in DOMAIN l.query_table : ~l.query_table[a].is_finished} \subseteq {addr}
    \/ Cardinality(live) >= DHT_NODE_COUNT

\* A timeout that makes a lookup fail is that of the last address it was waiting for.
LEMMA TimeoutExhausts ==
    ASSUME IInv, NEW other \in Id, NEW addr \in Addr, QueryTimeout(other, addr),
           NEW id \in DOMAIN lookup_table, NEW r \in lookup_table[id].results, r \in Result,
           status[r] = "queued", status'[r] = "not_found"
    PROVE  id = other /\ Settles(lookup_table[id], addr, AliveIn(lookup_table[id]))
  <1> DEFINE l == lookup_table[other]
             next == Expired(l, addr)
  <1>1. id = other
    BY QueryTimeoutWorks, FailsItsOwn
  <1>2. addr \in Armed(l) /\ Dispatch(other, next, status) /\ Running(l)
    BY DEF QueryTimeout, IInv, LookupsRun
  <1>3. Balanced(next) /\ Sequenced(next)
    BY <1>2, ExpiredBalanced
  <1>4. /\ addr \in DOMAIN l.query_table
        /\ next.query_table = With(l.query_table, addr, Dead(l.query_table[addr]))
    BY <1>2 DEF Expired, Armed
  <1> HIDE DEF next
  <1>5. Exhausted(next)
    BY <1>2, <1>3, DispatchGivesUp
  <1> HIDE DEF l
  <1>6. /\ DOMAIN next.query_table = DOMAIN l.query_table
        /\ \A a \in DOMAIN l.query_table \ {addr} : next.query_table[a] = l.query_table[a]
        /\ next.query_table[addr].is_alive = l.query_table[addr].is_alive
    BY <1>4 DEF With, Dead
  <1>7. AliveIn(next) = AliveIn(l)
    BY <1>4, <1>6 DEF AliveIn
  <1>8. Settles(l, addr, AliveIn(l))
    BY <1>5, <1>6, <1>7 DEF Exhausted, Settles
  <1> QED BY <1>1, <1>8 DEF l

\* An answer that does so is, too, or makes enough nodes alive.
LEMMA AnswerExhausts ==
    ASSUME IInv, NEW other \in Id, NEW peer \in Peers, NEW nodes \in Reply,
           ReceiveLookupRes(peer, other, nodes),
           NEW id \in DOMAIN lookup_table, NEW r \in lookup_table[id].results, r \in Result,
           status[r] = "queued", status'[r] = "not_found"
    PROVE  /\ id = other
           /\ Settles(lookup_table[id], peer.addr, AliveIn(lookup_table[id]) \cup {peer.addr})
  <1> DEFINE l == lookup_table[other]
             metric == Xor(peer.id, other)
             next == Answered(l, peer.addr, metric)
  <1>1. other \in DOMAIN lookup_table /\ peer.addr \in DOMAIN l.query_table
    BY DEF ReceiveLookupRes
  <1>2. id = other
    BY <1>1, ReceiveLookupResWorks, FailsItsOwn
  <1>3. LookupUpdate(other, next, nodes, status) /\ Running(l)
    BY <1>1 DEF ReceiveLookupRes, IInv, LookupsRun
  <1>4. metric \in Id
    BY DEF Xor, Id
  <1> HIDE DEF metric
  <1>5. Balanced(next)
    BY <1>1, <1>3, <1>4, AnsweredBalanced
  <1>6. next.query_table = With(l.query_table, peer.addr, Alive(metric))
    BY DEF Answered
  <1> HIDE DEF next
  <1>7. Exhausted(next)
    BY <1>3, <1>5, UpdateGivesUp
  <1> HIDE DEF l
  <1>8. /\ DOMAIN next.query_table = DOMAIN l.query_table
        /\ \A a \in DOMAIN l.query_table \ {peer.addr} : next.query_table[a] = l.query_table[a]
        /\ next.query_table[peer.addr].is_alive
    BY <1>1, <1>6 DEF With, Alive
  <1>9. AliveIn(next) = AliveIn(l) \cup {peer.addr}
    BY <1>1, <1>8 DEF AliveIn
  <1>10. Settles(l, peer.addr, AliveIn(l) \cup {peer.addr})
    BY <1>7, <1>8, <1>9 DEF Exhausted, Settles
  <1> QED BY <1>2, <1>10 DEF l

\* A bootstrap gives no running lookup up: one has a request outstanding.
LEMMA BootstrapFailsNone ==
    ASSUME IInv, NEW addr \in BootstrapAddr, Bootstrap(addr),
           NEW id \in DOMAIN lookup_table, NEW r \in lookup_table[id].results, r \in Result,
           status[r] = "queued", status'[r] = "not_found"
    PROVE  FALSE
  <1>1. id = Self
    BY BootstrapWorks, FailsItsOwn
  <1>2. LookupUpdate(Self, lookup_table[id], << [id |-> ZeroId, addr |-> addr] >>, status)
    BY <1>1 DEF Bootstrap
  <1>3. Running(lookup_table[id])
    BY DEF IInv, LookupsRun
  <1>4. lookup_table[id].num_sources = 0
    BY <1>1, <1>2, <1>3, UpdateGivesUp DEF Running
  <1>5. Armed(lookup_table[id]) = {}
    BY <1>3, <1>4, FiniteLookup, FS_EmptySet DEF Running, Balanced
  <1> QED BY <1>3, <1>5 DEF Running

\* "Lookup failed" is reported only by the answer or the timeout that settles
\* the last address the lookup had learnt of, or once enough nodes are alive.
THEOREM FailsExhausted == Spec => FailureIsExhaustive
  <1> DEFINE ByTimeout(id) ==
                 \E a \in Addr : /\ QueryTimeout(id, a)
                                 /\ Settles(lookup_table[id], a, AliveIn(lookup_table[id]))
             ByAnswer(id) ==
                 \E peer \in Peers, nodes \in Reply :
                    /\ ReceiveLookupRes(peer, id, nodes)
                    /\ Settles(lookup_table[id], peer.addr,
                               AliveIn(lookup_table[id]) \cup {peer.addr})
  <1>1. ASSUME IInv, [Next]_vars, NEW id \in DOMAIN lookup_table,
               NEW r \in lookup_table[id].results, status'[r] = "not_found"
        PROVE  ByTimeout(id) \/ ByAnswer(id)
    <2>1. r \in Result /\ status[r] = "queued" /\ status \in [Result -> Status]
      BY <1>1 DEF IInv, TypeOK, ResultOwned, LookupsRun, Running, Balanced, Fields
    <2>2. CASE \E addr \in BootstrapAddr : Bootstrap(addr)
      BY <1>1, <2>1, <2>2, BootstrapFailsNone
    <2>3. ASSUME NEW q \in Result, NEW other \in Id, StartLookup(q, other) PROVE FALSE
      <3> DEFINE st == [status EXCEPT ![q] = "queued"]
      <3>1. Works(other, {q}, st)
        BY <1>1, <2>3, StartLookupWorks
      <3>2. st[r] # "not_found"
        BY <2>1
      <3> HIDE DEF st
      <3>3. id = other
        BY <1>1, <2>1, <3>1, <3>2, FailsItsOwn
      <3> QED BY <2>3, <3>3 DEF StartLookup
    <2>4. ASSUME NEW other \in Id, Refresh(other) PROVE FALSE
      <3> DEFINE replaced == IF other \in DOMAIN lookup_table
                             THEN lookup_table[other].results ELSE {}
                 st == Resolve(status, replaced, "cancelled")
      <3>1. Works(other, {}, st)
        BY <1>1, <2>4, RefreshWorks
      <3>2. st[r] # "not_found"
        BY <2>1 DEF Resolve
      <3> HIDE DEF st
      <3>3. r \in {}
        BY <1>1, <2>1, <3>1, <3>2, FailsItsOwn
      <3> QED BY <3>3
    <2>5. ASSUME NEW other \in Id, NEW addr \in Addr, QueryTimeout(other, addr)
          PROVE  ByTimeout(id)
      BY <1>1, <2>1, <2>5, TimeoutExhausts
    <2>6. ASSUME NEW peer \in Peers, NEW other \in Id, NEW nodes \in Reply,
                 ReceiveLookupRes(peer, other, nodes)
          PROVE  ByAnswer(id)
      <3>1. /\ id = other
            /\ Settles(lookup_table[id], peer.addr, AliveIn(lookup_table[id]) \cup {peer.addr})
        BY <1>1, <2>1, <2>6, AnswerExhausts
      <3>2. ReceiveLookupRes(peer, id, nodes)
        BY <2>6, <3>1
      <3> QED BY <3>1, <3>2
    <2>7. ASSUME NEW q \in Result,
                 \/ RejectLookup(q) \/ ConnectionEstablished(q)
                 \/ ConnectionTimeout(q) \/ DeliverFailure(q)
                 \/ \E other \in Id : JoinLookup(q, other)
          PROVE  FALSE
      BY <1>1, <2>1, <2>7 DEF RejectLookup, ConnectionEstablished, ConnectionTimeout,
                              DeliverFailure, JoinLookup
    <2>8. CASE UNCHANGED vars \/ Tick \/ \E peer \in Peers, other \in Id : ServeLookup(peer, other)
      BY <1>1, <2>1, <2>8 DEF vars, Tick, ServeLookup
    <2> HIDE DEF ByTimeout, ByAnswer
    <2> QED
      BY <1>1, <2>2, <2>3, <2>4, <2>5, <2>6, <2>7, <2>8, LookupAssumption
      DEF Next, UserStep, NetworkStep, TimerStep
  <1>2. ASSUME IInv, [Next]_vars PROVE FailsWhenExhausted
    BY <1>1, <1>2 DEF FailsWhenExhausted, Settles, AliveIn
  <1> QED BY <1>2, Invariant, PTL DEF Spec, FailureIsExhaustive
=============================================================================
