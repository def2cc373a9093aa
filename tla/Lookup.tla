------------------------------- MODULE Lookup -------------------------------
(***************************************************************************)
(* The lookups of one DHT client (src/src/dht-client.c): bootstrap, the    *)
(* lookups a user asks for and the periodic ones, the requests each of     *)
(* them has outstanding, and the asynchronous results it owes its callers. *)
(* One GLib main loop runs every callback to its end, so that a callback   *)
(* is one action; what interleaves are callbacks, timers and datagrams.    *)
(*                                                                         *)
(* The network loses, delays, duplicates and reorders datagrams: a peer    *)
(* that was ever asked may answer at any later time, any number of times   *)
(* or never.  Identifiers in the answers need not be those of the tables,  *)
(* because a peer may have restarted with another key or moved.            *)
(***************************************************************************)
EXTENDS RoutingTable, FiniteSets

CONSTANTS Peers,             \* contacts that exist besides ourselves
          SelfAddr,          \* the address peers know us by
          DHT_CONCURRENCY,   \* number of concurrent requests per lookup
          Targets,           \* identifiers a user looks up
          BootstrapAddr,     \* addresses a user bootstraps from
          RefreshTargets,    \* bound: identifiers a periodic lookup may draw
          Result,            \* the calls of dht_client_lookup_async
          MaxReply           \* bound: nodes named in one lookup response

ASSUME LookupAssumption ==
    /\ Peers \subseteq Contact
    /\ \A peer \in Peers : peer.id # Self
    /\ IsFiniteSet(Addr) /\ SelfAddr \in Addr
    /\ DHT_CONCURRENCY \in Nat \ {0}
    /\ Targets \subseteq Id /\ RefreshTargets \subseteq Id
    /\ BootstrapAddr \subseteq Addr
    /\ MaxReply \in Nat

VARIABLES table,            \* the routing table
          lookup_table,     \* running lookups, by the identifier looked for
          connection_table, \* connections being set up for a result
          status,           \* what has become of every result
          delivered,        \* results whose callback has run
          asked             \* <<addr, id>>: addr was sent a request for id

vars == <<table, lookup_table, connection_table, status, delivered, asked>>

Query == [metric : Id, timeout_source : BOOLEAN, is_finished : BOOLEAN, is_alive : BOOLEAN]

Failure == {"invalid", "not_found", "timed_out", "cancelled"}
Status == {"unused", "queued", "connecting", "connected"} \cup Failure

\* What peers answer a lookup request with: some of the contacts that exist,
\* we among them.
Reply == UNION {[1 .. n -> Peers \cup {[id |-> Self, addr |-> SelfAddr]}] : n \in 0 .. MaxReply}

-----------------------------------------------------------------------------
(***************************************************************************)
(* A lookup is a record: num_sources counts its armed request timers,      *)
(* query_table holds a query per address, query_sequence the addresses in  *)
(* the order of their distance, results the calls waiting for it.          *)
(***************************************************************************)
IsLookup(l) ==
    /\ l = [num_sources |-> l.num_sources, query_table |-> l.query_table,
            query_sequence |-> l.query_sequence, results |-> l.results]
    /\ l.num_sources \in Nat
    /\ DOMAIN l.query_table \subseteq Addr
    /\ l.query_table \in [DOMAIN l.query_table -> Query]
    /\ l.query_sequence \in [1 .. Cardinality(DOMAIN l.query_table) -> DOMAIN l.query_table]
    /\ \A p, q \in DOMAIN l.query_sequence : p < q => l.query_sequence[p] # l.query_sequence[q]
    /\ l.results \subseteq Result

NewLookup(results) == [num_sources |-> 0, query_table |-> <<>>,
                       query_sequence |-> <<>>, results |-> results]

NewQuery(metric) == [metric |-> metric, timeout_source |-> FALSE,
                     is_finished |-> FALSE, is_alive |-> FALSE]

Waiting(query) == ~query.is_finished /\ ~query.timeout_source

\* The addresses of the lookup whose timer is armed.
Armed(l) == {a \in DOMAIN l.query_table : l.query_table[a].timeout_source}

Without(f, x) == [y \in DOMAIN f \ {x} |-> f[y]]

With(f, x, value) == [y \in DOMAIN f \cup {x} |-> IF y = x THEN value ELSE f[y]]

Resolve(st, results, outcome) == [r \in Result |-> IF r \in results THEN outcome ELSE st[r]]

-----------------------------------------------------------------------------
(***************************************************************************)
(* dht_lookup_dispatch walks along the sequence and asks every waiting     *)
(* query it meets, until DHT_CONCURRENCY requests are outstanding or       *)
(* DHT_NODE_COUNT live nodes have been passed.                             *)
(***************************************************************************)
\* Mutant: off by one.
ToAskOneMore(l) ==
    LET query(p) == l.query_table[l.query_sequence[p]]
        waiting == {p \in DOMAIN l.query_sequence : Waiting(query(p))}
        alive == {p \in DOMAIN l.query_sequence : query(p).is_alive}
    IN  {p \in waiting :
            /\ l.num_sources + Cardinality({q \in waiting : q < p}) <= DHT_CONCURRENCY
            /\ Cardinality({q \in alive : q < p}) < DHT_NODE_COUNT}

\* Mutant: one request at a time, however many slots are free.
ToAskSingle(l) ==
    LET waiting == {p \in DOMAIN l.query_sequence : Waiting(l.query_table[l.query_sequence[p]])}
    IN  {p \in waiting : l.num_sources < DHT_CONCURRENCY /\ \A q \in waiting : q >= p}

\* Mutant: the walk stops behind DHT_NODE_COUNT queries, dead ones included.
ToAskFirstFew(l) ==
    LET waiting == {p \in DOMAIN l.query_sequence : Waiting(l.query_table[l.query_sequence[p]])}
    IN  {p \in waiting :
            /\ l.num_sources + Cardinality({q \in waiting : q < p}) < DHT_CONCURRENCY
            /\ p <= DHT_NODE_COUNT}

ToAsk(l) ==
    LET query(p) == l.query_table[l.query_sequence[p]]
        waiting == {p \in DOMAIN l.query_sequence : Waiting(query(p))}
        alive == {p \in DOMAIN l.query_sequence : query(p).is_alive}
    IN  {p \in waiting :
            /\ l.num_sources + Cardinality({q \in waiting : q < p}) < DHT_CONCURRENCY
            /\ Cardinality({q \in alive : q < p}) < DHT_NODE_COUNT}

Arm(query) == [query EXCEPT !.timeout_source = TRUE]

Ask(l, sent) ==
    [num_sources |-> l.num_sources + Cardinality(sent),
     query_table |-> [a \in DOMAIN l.query_table |->
                         IF a \in sent THEN Arm(l.query_table[a]) ELSE l.query_table[a]],
     query_sequence |-> l.query_sequence,
     results |-> l.results]

\* Mutant: a lookup nobody waits for is forgotten instead of removed.
IsFailedIfAwaited(l) == l.num_sources = 0 /\ l.results # {}

IsFailed(l) == l.num_sources = 0

\* The whole of it, for the lookup of id in state l and the results in state
\* st: a lookup without outstanding requests has failed.
Dispatch(id, l, st) ==
    LET sent == {l.query_sequence[p] : p \in ToAsk(l)}
        next == Ask(l, sent)
    IN  /\ asked' = asked \cup {<<a, id>> : a \in sent}
        /\ IF IsFailed(next)
           THEN /\ lookup_table' = Without(lookup_table, id)
                /\ status' = Resolve(st, l.results, "not_found")
           ELSE /\ lookup_table' = With(lookup_table, id, next)
                /\ status' = st

(***************************************************************************)
(* dht_lookup_update takes in the nodes of a response or of our own table. *)
(* New addresses become queries.  g_sequence keeps the queries sorted by   *)
(* metric and puts one behind those of equal metric that came before it.   *)
(***************************************************************************)
Insert(l, id, nodes) ==
    LET fresh == {a \in Addr \ DOMAIN l.query_table : \E k \in DOMAIN nodes : nodes[k].addr = a}
        first(a) == CHOOSE k \in DOMAIN nodes :
                        nodes[k].addr = a /\ \A j \in 1 .. k - 1 : nodes[j].addr # a
    IN  [l EXCEPT !.query_table = [a \in DOMAIN @ \cup fresh |->
                                      IF a \in fresh THEN NewQuery(Xor(id, nodes[first(a)].id))
                                                     ELSE @[a]]]

Arrivals(l, nodes) == l.query_sequence \o [k \in DOMAIN nodes |-> nodes[k].addr]

\* The sequences in which sorting by metric can leave addresses that came in
\* the order of arrivals: there is exactly one.
\* Mutant: an address may take the place of another.
SortingsRepeated(queries, arrivals) ==
    {s \in [1 .. Cardinality(DOMAIN queries) -> DOMAIN queries] :
        \A i, j \in DOMAIN s : i < j => ~Less(queries[s[j]].metric, queries[s[i]].metric)}

Sortings(queries, arrivals) ==
    LET first(a) == CHOOSE k \in DOMAIN arrivals :
                        arrivals[k] = a /\ \A j \in 1 .. k - 1 : arrivals[j] # a
        inOrder(a, b) == \/ Less(queries[a].metric, queries[b].metric)
                         \/ queries[a].metric = queries[b].metric /\ first(a) < first(b)
    IN  {s \in [1 .. Cardinality(DOMAIN queries) -> DOMAIN queries] :
            \A i, j \in DOMAIN s : i < j => s[i] # s[j] /\ inOrder(s[i], s[j])}

\* Own entries are skipped.
Others(nodes) == SelectSeq(nodes, LAMBDA node : node.id # Self)

\* The entry that names the target, if there is one: the first such.
TargetIn(nodes, id) ==
    {node \in Contact : \E k \in DOMAIN nodes : /\ nodes[k] = node /\ node.id = id
                                                /\ \A j \in 1 .. k - 1 : nodes[j].id # id}

\* The target itself is known: every result gets a connection to it.
Connect(id, l, node, st) ==
    /\ connection_table' = [r \in DOMAIN connection_table \cup l.results |->
                               IF r \in l.results THEN [id |-> id, sockaddr |-> node.addr]
                                                  ELSE connection_table[r]]
    /\ status' = Resolve(st, l.results, "connecting")
    /\ lookup_table' = Without(lookup_table, id)
    /\ asked' = asked

LookupUpdate(id, l, nodes, st) ==
    LET others == Others(nodes)
        next == Insert(l, id, others)
    IN  \/ \E node \in TargetIn(others, id) : Connect(id, l, node, st)
        \/ /\ TargetIn(others, id) = {}
           /\ \E s \in Sortings(next.query_table, Arrivals(l, others)) :
                 Dispatch(id, [next EXCEPT !.query_sequence = s], st)
           /\ connection_table' = connection_table

-----------------------------------------------------------------------------
Init == /\ table = EmptyTable
        /\ lookup_table = <<>>
        /\ connection_table = <<>>
        /\ status = [r \in Result |-> "unused"]
        /\ delivered = {}
        /\ asked = {}

\* dht_client_bootstrap: ask a node known by its address only for ourselves.
Bootstrap(addr) ==
    /\ LET l == IF Self \in DOMAIN lookup_table THEN lookup_table[Self] ELSE NewLookup({})
       IN  LookupUpdate(Self, l, << [id |-> ZeroId, addr |-> addr] >>, status)
    /\ UNCHANGED <<table, delivered>>

\* dht_client_lookup_async: reject our own identifier, join the lookup that is
\* running, or start one with the nodes of our table.
RejectLookup(r) ==
    /\ status[r] = "unused"
    /\ status' = [status EXCEPT ![r] = "invalid"]
    /\ UNCHANGED <<table, lookup_table, connection_table, delivered, asked>>

JoinLookup(r, id) ==
    /\ status[r] = "unused"
    /\ id # Self /\ id \in DOMAIN lookup_table
    /\ lookup_table' = [lookup_table EXCEPT ![id].results = @ \cup {r}]
    /\ status' = [status EXCEPT ![r] = "queued"]
    /\ UNCHANGED <<table, connection_table, delivered, asked>>

StartLookup(r, id) ==
    /\ status[r] = "unused"
    /\ id # Self /\ id \notin DOMAIN lookup_table
    /\ table' = Search(table, id).table
    /\ LookupUpdate(id, NewLookup({r}), Search(table, id).nodes,
                    [status EXCEPT ![r] = "queued"])
    /\ UNCHANGED delivered

\* Mutant: the results of the lookup that is replaced are dropped.
RefreshSilent(id) ==
    /\ \E nbits \in 0 .. Len(table.buckets) - 1 :
          \A i \in Bits : i < nbits => id[i] = Self[i]
    /\ LookupUpdate(id, NewLookup({}), Search(table, id).nodes, status)
    /\ table' = Search(table, id).table
    /\ UNCHANGED delivered

\* dht_client_refresh_cb: look up a random identifier of a random bucket.  A
\* lookup that runs for the same identifier is destroyed and its results are
\* cancelled.
Refresh(id) ==
    /\ \E nbits \in 0 .. Len(table.buckets) - 1 :
          \A i \in Bits : i < nbits => id[i] = Self[i]
    /\ LET replaced == IF id \in DOMAIN lookup_table THEN lookup_table[id].results ELSE {}
       IN  LookupUpdate(id, NewLookup({}), Search(table, id).nodes,
                        Resolve(status, replaced, "cancelled"))
    /\ table' = Search(table, id).table
    /\ UNCHANGED delivered

\* MSG_LOOKUP_REQ: enter the sender and answer from the table.
ServeLookup(peer, id) ==
    /\ table' = Search(Update(table, peer.id, peer.addr, TRUE), id).table
    /\ UNCHANGED <<lookup_table, connection_table, status, delivered, asked>>

Alive(metric) == [metric |-> metric, timeout_source |-> FALSE,
                  is_finished |-> TRUE, is_alive |-> TRUE]

\* The sequence after the metric of an address has changed: an entry stays where
\* it is if the one behind it has the new metric, and otherwise goes behind all
\* that have it.
Resorted(l, addr, metric) ==
    LET sequence == l.query_sequence
        stays == \E p \in 2 .. Len(sequence) :
                     sequence[p - 1] = addr /\ l.query_table[sequence[p]].metric = metric
    IN  IF l.query_table[addr].metric = metric \/ stays
        THEN sequence
        ELSE Append(SelectSeq(sequence, LAMBDA a : a # addr), addr)

\* Mutant: a late answer frees a slot as well.
AnsweredAlways(l, addr, metric) ==
    [num_sources |-> l.num_sources - 1,
     query_table |-> With(l.query_table, addr, Alive(metric)),
     query_sequence |-> Resorted(l, addr, metric),
     results |-> l.results]

Answered(l, addr, metric) ==
    [num_sources |-> IF l.query_table[addr].timeout_source
                     THEN l.num_sources - 1 ELSE l.num_sources,
     query_table |-> With(l.query_table, addr, Alive(metric)),
     query_sequence |-> Resorted(l, addr, metric),
     results |-> l.results]

\* MSG_LOOKUP_RES: enter the sender, credit the query sent to its address, if
\* the lookup is still running, and take in the nodes it names.
ReceiveLookupRes(peer, id, nodes) ==
    /\ <<peer.addr, id>> \in asked
    /\ table' = Update(table, peer.id, peer.addr, TRUE)
    /\ IF id \in DOMAIN lookup_table /\ peer.addr \in DOMAIN lookup_table[id].query_table
       THEN LookupUpdate(id, Answered(lookup_table[id], peer.addr, Xor(peer.id, id)),
                         nodes, status)
       ELSE UNCHANGED <<lookup_table, connection_table, status, asked>>
    /\ UNCHANGED delivered

\* Mutant: a query that has timed out is tried again.
ExpiredUnfinished(l, addr) ==
    [num_sources |-> l.num_sources - 1,
     query_table |-> With(l.query_table, addr, NewQuery(l.query_table[addr].metric)),
     query_sequence |-> l.query_sequence,
     results |-> l.results]

Dead(query) == [metric |-> query.metric, timeout_source |-> FALSE,
                is_finished |-> TRUE, is_alive |-> query.is_alive]

Expired(l, addr) ==
    [num_sources |-> l.num_sources - 1,
     query_table |-> With(l.query_table, addr, Dead(l.query_table[addr])),
     query_sequence |-> l.query_sequence,
     results |-> l.results]

\* dht_query_timeout_cb
QueryTimeout(id, addr) ==
    /\ id \in DOMAIN lookup_table
    /\ addr \in Armed(lookup_table[id])
    /\ table' = Update(table, Xor(lookup_table[id].query_table[addr].metric, id), addr, FALSE)
    /\ Dispatch(id, Expired(lookup_table[id], addr), status)
    /\ UNCHANGED <<connection_table, delivered>>

\* MSG_CONNECTION_RES completes the connection (module Connection has the
\* handshake); the callback of the result runs at once.
ConnectionEstablished(r) ==
    /\ r \in DOMAIN connection_table
    /\ connection_table' = Without(connection_table, r)
    /\ status' = [status EXCEPT ![r] = "connected"]
    /\ delivered' = delivered \cup {r}
    /\ UNCHANGED <<table, lookup_table, asked>>

\* Mutant: the connection stays in the table.
ConnectionTimeoutKept(r) ==
    /\ r \in DOMAIN connection_table
    /\ status' = [status EXCEPT ![r] = "timed_out"]
    /\ UNCHANGED <<table, lookup_table, connection_table, delivered, asked>>

\* dht_connection_timeout_cb, for a connection we asked for.
ConnectionTimeout(r) ==
    /\ r \in DOMAIN connection_table
    /\ connection_table' = Without(connection_table, r)
    /\ status' = [status EXCEPT ![r] = "timed_out"]
    /\ UNCHANGED <<table, lookup_table, delivered, asked>>

\* g_simple_async_result_complete_in_idle: the main loop runs the callback of
\* a result that has failed.
DeliverFailure(r) ==
    /\ status[r] \in Failure /\ r \notin delivered
    /\ delivered' = delivered \cup {r}
    /\ UNCHANGED <<table, lookup_table, connection_table, status, asked>>

\* Time passes for the routing table.
Tick == /\ table' = Aged(table)
        /\ UNCHANGED <<lookup_table, connection_table, status, delivered, asked>>

UserStep == \/ \E addr \in BootstrapAddr : Bootstrap(addr)
            \/ \E r \in Result : \/ RejectLookup(r)
                                 \/ \E id \in Targets : JoinLookup(r, id) \/ StartLookup(r, id)

NetworkStep == \/ \E peer \in Peers, id \in Id : ServeLookup(peer, id)
               \/ \E peer \in Peers, id \in Id, nodes \in Reply :
                     ReceiveLookupRes(peer, id, nodes)
               \/ \E r \in Result : ConnectionEstablished(r)

TimerStep == \/ \E id \in RefreshTargets : Refresh(id)
             \/ \E id \in Id, addr \in Addr : QueryTimeout(id, addr)
             \/ \E r \in Result : ConnectionTimeout(r) \/ DeliverFailure(r)
             \/ Tick

Next == UserStep \/ NetworkStep \/ TimerStep

Spec == Init /\ [][Next]_vars

\* The main loop runs every timer that is due and every idle callback; it owes
\* nothing to the network or to the user.
Fairness == /\ \A id \in Id, addr \in Addr : WF_vars(QueryTimeout(id, addr))
            /\ \A r \in Result : WF_vars(ConnectionTimeout(r)) /\ WF_vars(DeliverFailure(r))

LiveSpec == Spec /\ Fairness

-----------------------------------------------------------------------------
TypeOK ==
    /\ DOMAIN lookup_table \subseteq Id
    /\ \A id \in DOMAIN lookup_table : IsLookup(lookup_table[id])
    /\ DOMAIN connection_table \subseteq Result
    /\ \A r \in DOMAIN connection_table : connection_table[r] \in [id : Id, sockaddr : Addr]
    /\ status \in [Result -> Status]
    /\ delivered \subseteq Result
    /\ asked \subseteq Addr \X Id

(***************************************************************************)
(* The counter num_sources, which decides when a lookup has failed and     *)
(* how many requests it may still send, agrees with the timers that are    *)
(* armed, whatever the order of late, repeated and missing answers.        *)
(***************************************************************************)
SourcesCounted ==
    \A id \in DOMAIN lookup_table :
        lookup_table[id].num_sources = Cardinality(Armed(lookup_table[id]))

(***************************************************************************)
(* A lookup never has more than DHT_CONCURRENCY requests outstanding, as   *)
(* the constant's comment says.                                            *)
(***************************************************************************)
ConcurrencyBound ==
    \A id \in DOMAIN lookup_table : Cardinality(Armed(lookup_table[id])) <= DHT_CONCURRENCY

(***************************************************************************)
(* A lookup that is in the table between two callbacks has a request       *)
(* outstanding: nothing but its timers and answers drives it on, so one    *)
(* without would keep its callers waiting for ever.                        *)
(***************************************************************************)
NoStalledLookup == \A id \in DOMAIN lookup_table : Armed(lookup_table[id]) # {}

(***************************************************************************)
(* No slot is left idle: when a lookup has fewer than DHT_CONCURRENCY      *)
(* requests outstanding, every query it holds back comes behind            *)
(* DHT_NODE_COUNT live nodes.  Every callback that frees a slot or finds a *)
(* node must dispatch again.                                               *)
(***************************************************************************)
NoIdleSlot ==
    \A id \in DOMAIN lookup_table :
        LET l == lookup_table[id]
            query(p) == l.query_table[l.query_sequence[p]]
        IN  l.num_sources < DHT_CONCURRENCY =>
                \A p \in DOMAIN l.query_sequence :
                    Waiting(query(p)) =>
                        Cardinality({q \in 1 .. p - 1 : query(q).is_alive}) >= DHT_NODE_COUNT

(***************************************************************************)
(* A result has exactly one owner: the lookup whose list it is on while it *)
(* is queued, the connection that carries it while that is set up, and the *)
(* main loop or the caller afterwards.  Two owners would complete it       *)
(* twice, none would never complete it.                                    *)
(***************************************************************************)
ResultOwned ==
    /\ \A r \in Result :
          /\ status[r] = "queued" <=> \E id \in DOMAIN lookup_table : r \in lookup_table[id].results
          /\ status[r] = "connecting" <=> r \in DOMAIN connection_table
    /\ \A id1, id2 \in DOMAIN lookup_table :
          id1 # id2 => lookup_table[id1].results \cap lookup_table[id2].results = {}

(***************************************************************************)
(* A callback runs at most once, with the outcome it was completed with:   *)
(* no later answer, timeout or cancellation reaches a result that has been *)
(* completed.                                                              *)
(***************************************************************************)
CompletedOnce ==
    [][\A r \in Result : status[r] \in Failure \cup {"connected"} =>
                            status'[r] = status[r] /\ (r \in delivered => r \in delivered')]_vars

\* Why the results of a lookup may be told not_found in a step.
FailsWhenExhausted ==
    \A id \in DOMAIN lookup_table :
        (\E r \in lookup_table[id].results : status'[r] = "not_found") =>
            LET queries == lookup_table[id].query_table
                open == {a \in DOMAIN queries : ~queries[a].is_finished}
                alive == {a \in DOMAIN queries : queries[a].is_alive}
                exhausted(a, live) == open \subseteq {a} \/ Cardinality(live) >= DHT_NODE_COUNT
            IN  \/ \E a \in Addr : QueryTimeout(id, a) /\ exhausted(a, alive)
                \/ \E peer \in Peers, nodes \in Reply :
                      /\ ReceiveLookupRes(peer, id, nodes)
                      /\ exhausted(peer.addr, alive \cup {peer.addr})

(***************************************************************************)
(* "Lookup failed" is reported only when the search was exhaustive: every  *)
(* address the lookup had learnt of has answered or timed out, the one     *)
(* this step settles included, or enough live nodes were found.            *)
(***************************************************************************)
FailureIsExhaustive == [][FailsWhenExhausted]_vars

(***************************************************************************)
(* The lookups implement LookupService: every call of                      *)
(* dht_client_lookup_async is answered, its callback runs once, and with   *)
(* fair timers it does so without any help from the network.               *)
(***************************************************************************)
Answers == [r \in Result |-> IF status[r] = "unused" THEN "none"
                             ELSE IF r \in delivered THEN status[r] ELSE "owed"]

Service == INSTANCE LookupService WITH answer <- Answers, Outcome <- Failure \cup {"connected"}

Serves == Service!Spec
=============================================================================
