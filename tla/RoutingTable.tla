---------------------------- MODULE RoutingTable ----------------------------
(***************************************************************************)
(* The routing table of a DHT client: the list of buckets that             *)
(* dht_client_update fills and splits and dht_client_search reads and      *)
(* prunes (src/src/dht-client.c).  The module holds the data structure     *)
(* only; Buckets gives it a behaviour of its own, Lookup uses it inside    *)
(* the client.                                                             *)
(*                                                                         *)
(* A table is a record of the fields the code keeps:                       *)
(*   buckets    sequence of buckets, each a sequence of nodes, head first; *)
(*              buckets[i + 1] is the bucket the code reaches with         *)
(*              nbits = i, and num_buckets is the length of the sequence   *)
(*   num_peers  the counter behind the "peers" property                    *)
(* A node keeps its age instead of its timestamp, in units of which        *)
(* DHT_LINGER make the linger time; ages past that are not told apart.     *)
(***************************************************************************)
EXTENDS DhtId, Sequences, SequencesExt, FiniteSetsExt

CONSTANTS Self,            \* identifier of this client
          Addr,            \* socket addresses
          DHT_NODE_COUNT,  \* number of nodes per bucket
          DHT_LINGER       \* age at which a dead node is deleted

ASSUME RoutingTableAssumption ==
    /\ Self \in Id
    /\ DHT_NODE_COUNT \in Nat \ {0}
    /\ DHT_LINGER \in Nat \ {0}

Contact == [id : Id, addr : Addr]
Node == [id : Id, addr : Addr, is_alive : BOOLEAN, age : 0 .. DHT_LINGER]

\* dht_client_init: one empty bucket.
EmptyTable == [buckets |-> << <<>> >>, num_peers |-> 0]

AliveNode(id, addr) == [id |-> id, addr |-> addr, is_alive |-> TRUE, age |-> 0]

\* A set of natural numbers in ascending order.
Ascending(P) ==
    [j \in 1 .. Cardinality(P) |-> CHOOSE k \in P : Cardinality({i \in P : i <= k}) = j]

\* The elements of s that are in S, in the order of s.
Only(s, S) ==
    LET places == Ascending({k \in DOMAIN s : s[k] \in S})
    IN  [j \in DOMAIN places |-> s[places[j]]]

NodesOf(tbl) == UNION {ToSet(tbl.buckets[i]) : i \in DOMAIN tbl.buckets}

\* The bucket an identifier belongs to: the first one that is the last of the
\* list or whose bit differs between the identifier and our own.
BucketIndex(buckets, id) ==
    CHOOSE i \in DOMAIN buckets :
        /\ i = Len(buckets) \/ id[i - 1] # Self[i - 1]
        /\ \A j \in 1 .. i - 1 : id[j - 1] = Self[j - 1]

(***************************************************************************)
(* Splitting the last bucket.  The nodes that share bit nbits with us are  *)
(* unlinked one by one and chained behind a new bucket.  g_list_concat is  *)
(* given the last link, not the head of the chain, so that the new bucket  *)
(* starts at the one but last of the moved nodes; the loop variable count  *)
(* still counts them all.                                                  *)
(***************************************************************************)
LastTwo(s) == SubSeq(s, IF Len(s) > 2 THEN Len(s) - 1 ELSE 1, Len(s))

\* Mutant: the nodes are told apart by the wrong bit.
SplitLastOffByOne(buckets) ==
    LET nbits == Len(buckets)
        full == Last(buckets)
        near == {node \in ToSet(full) : node.id[nbits] = Self[nbits]}
        moved == Only(full, near)
        stay == Only(full, ToSet(full) \ near)
    IN  [buckets |-> Append(Append(Front(buckets), stay), LastTwo(moved)),
         count |-> Len(moved)]

SplitLast(buckets) ==
    LET nbits == Len(buckets) - 1
        full == Last(buckets)
        near == {node \in ToSet(full) : node.id[nbits] = Self[nbits]}
        moved == Only(full, near)
        stay == Only(full, ToSet(full) \ near)
    IN  [buckets |-> Append(Append(Front(buckets), stay), LastTwo(moved)),
         count |-> Len(moved)]

\* The loop goes on while count says that the new last bucket is full.  Each
\* turn looks at one more bit, so that IdBits turns are enough.
SplitBuckets(buckets) ==
    LET split[turn \in 0 .. IdBits] ==
            IF turn = 0 THEN [buckets |-> buckets, count |-> Len(Last(buckets))]
            ELSE LET before == split[turn - 1]
                 IN  IF before.count = DHT_NODE_COUNT
                     THEN SplitLast(before.buckets)
                     ELSE before
    IN  split[IdBits].buckets

(***************************************************************************)
(* dht_client_update: a node has answered or asked (is_alive) or has let a *)
(* request time out.                                                       *)
(***************************************************************************)
UpdateKnown(node, addr, is_alive) ==
    IF is_alive THEN AliveNode(node.id, addr)
    ELSE IF node.addr = addr THEN [node EXCEPT !.is_alive = FALSE]
    ELSE node

\* Mutant: a node that has timed out is not recognised when it is heard again.
KnownAlive(bucket, id) == {k \in DOMAIN bucket : bucket[k].id = id /\ bucket[k].is_alive}

Known(bucket, id) == {k \in DOMAIN bucket : bucket[k].id = id}

\* Mutant: off by one.
IsOverfull(bucket) == Len(bucket) > DHT_NODE_COUNT

IsFull(bucket) == Len(bucket) = DHT_NODE_COUNT

\* Mutant: any node gives way to a newcomer.
ReplaceableAny(bucket) == DOMAIN bucket

Replaceable(bucket) == {k \in DOMAIN bucket : ~bucket[k].is_alive}

\* Mutant: a node that makes a bucket split is not counted.
InsertNodeUncounted(tbl, b, node) ==
    LET inserted == [tbl.buckets EXCEPT ![b] = <<node>> \o @]
        split == b = Len(tbl.buckets) /\ IsFull(inserted[b])
    IN  [buckets |-> IF b = Len(tbl.buckets) THEN SplitBuckets(inserted) ELSE inserted,
         num_peers |-> IF split THEN tbl.num_peers ELSE tbl.num_peers + 1]

\* Mutant: the nodes that a split moves are taken off the count.
InsertNodeMoved(tbl, b, node) ==
    LET inserted == [tbl.buckets EXCEPT ![b] = <<node>> \o @]
        split == b = Len(tbl.buckets) /\ IsFull(inserted[b])
    IN  [buckets |-> IF b = Len(tbl.buckets) THEN SplitBuckets(inserted) ELSE inserted,
         num_peers |-> tbl.num_peers + 1 - IF split THEN SplitLast(inserted).count ELSE 0]

InsertNode(tbl, b, node) ==
    LET inserted == [tbl.buckets EXCEPT ![b] = <<node>> \o @]
    IN  [buckets |-> IF b = Len(tbl.buckets) THEN SplitBuckets(inserted) ELSE inserted,
         num_peers |-> tbl.num_peers + 1]

Update(tbl, id, addr, is_alive) ==
    LET b == BucketIndex(tbl.buckets, id)
        bucket == tbl.buckets[b]
        known == Known(bucket, id)
        replaceable == Replaceable(bucket)
    IN  IF known # {} THEN
            LET k == Min(known)
            IN  [tbl EXCEPT !.buckets[b][k] = UpdateKnown(bucket[k], addr, is_alive)]
        ELSE IF ~is_alive THEN tbl
        ELSE IF ~IsFull(bucket) THEN InsertNode(tbl, b, AliveNode(id, addr))
        ELSE IF replaceable = {} THEN tbl
        ELSE [tbl EXCEPT !.buckets[b][Max(replaceable)] = AliveNode(id, addr)]

(***************************************************************************)
(* dht_client_search: the nodes to name for an identifier, and the table   *)
(* without the dead nodes the search came across.  Buckets whose bit       *)
(* differs between the identifier and ours are visited from the first to   *)
(* the last one, then the others on the way back.                          *)
(***************************************************************************)
\* Mutant: the buckets skipped on the way out are visited in the same direction.
VisitOrderForward(buckets, id) ==
    LET differs == {i \in DOMAIN buckets : id[i - 1] # Self[i - 1]}
    IN  Ascending(differs) \o Ascending(DOMAIN buckets \ differs)

VisitOrder(buckets, id) ==
    LET differs == {i \in DOMAIN buckets : id[i - 1] # Self[i - 1]}
    IN  Ascending(differs) \o Reverse(Ascending(DOMAIN buckets \ differs))

Eligible(node) == node.is_alive \/ node.age < DHT_LINGER

Search(tbl, id) ==
    LET order == VisitOrder(tbl.buckets, id)
        visited == FlattenSeq([v \in DOMAIN order |-> tbl.buckets[order[v]]])
        eligible == Only(visited, {node \in ToSet(visited) : Eligible(node)})
        count == IF Len(eligible) < DHT_NODE_COUNT THEN Len(eligible) ELSE DHT_NODE_COUNT
        stop == IF count < DHT_NODE_COUNT THEN Len(visited)
                ELSE SelectInSeq(visited, LAMBDA node : node = eligible[count])
        deleted == {k \in 1 .. stop : ~Eligible(visited[k])}
        kept(bucket) == Only(bucket, ToSet(bucket) \ {visited[k] : k \in deleted})
    IN  [nodes |-> [k \in 1 .. count |-> [id |-> eligible[k].id, addr |-> eligible[k].addr]],
         table |-> [buckets |-> [i \in DOMAIN tbl.buckets |-> kept(tbl.buckets[i])],
                    num_peers |-> tbl.num_peers - Cardinality(deleted)]]

\* The clock moves on: every node is older, and dead ones may now be deleted.
Aged(tbl) ==
    LET older(node) == [node EXCEPT !.age = IF @ < DHT_LINGER THEN @ + 1 ELSE @]
    IN  [tbl EXCEPT !.buckets = [i \in DOMAIN @ |-> [k \in DOMAIN @[i] |-> older(@[i][k])]]]
=============================================================================
