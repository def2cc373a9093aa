------------------------------- MODULE Buckets -------------------------------
(***************************************************************************)
(* The life of a routing table on its own (src/src/dht-client.c): the      *)
(* calls that receive_cb, the query timeout and the lookups make on it, in *)
(* any order the network and the user can bring about.                     *)
(***************************************************************************)
EXTENDS RoutingTable

CONSTANT Peers       \* the contacts <<id, addr>> that exist: a peer that moves
                     \* to another address or restarts with another key has several

\* A bucket of one node would be split until the last bit, and the bucket after
\* it would be one too many; the code has 16 nodes a bucket.
ASSUME BucketsAssumption == /\ Peers \subseteq Contact
                            /\ \A peer \in Peers : peer.id # Self
                            /\ DHT_NODE_COUNT # 1

VARIABLE table

TypeOK == /\ table.buckets \in Seq(Seq(Node))
          /\ table.num_peers \in Nat

Init == table = EmptyTable

\* A lookup request or response of a peer other than ourselves.
Heard(peer) == table' = Update(table, peer.id, peer.addr, TRUE)

\* dht_query_timeout_cb: a request to the peer was not answered.
TimedOut(peer) == table' = Update(table, peer.id, peer.addr, FALSE)

\* A search for an identifier, by a lookup of ours or of a peer.
Searched(id) == table' = Search(table, id).table

Tick == table' = Aged(table)

Next == \/ \E peer \in Peers : Heard(peer) \/ TimedOut(peer)
        \/ \E id \in Id : Searched(id)
        \/ Tick

Spec == Init /\ [][Next]_table

-----------------------------------------------------------------------------
Nodes == NodesOf(table)
Places == UNION {{i} \X DOMAIN table.buckets[i] : i \in DOMAIN table.buckets}
NodeCount == Cardinality(Places)

(***************************************************************************)
(* Every node is where dht_client_update will look for it: splits,         *)
(* replacements and deletions leave it in the bucket of its identifier.    *)
(***************************************************************************)
NodesInTheirBucket ==
    \A i \in DOMAIN table.buckets :
        \A node \in ToSet(table.buckets[i]) : BucketIndex(table.buckets, node.id) = i

(***************************************************************************)
(* No peer is entered twice, whatever the order in which it was replaced,  *)
(* lost by a split, deleted and heard again, and we never enter ourselves. *)
(***************************************************************************)
NoPeerTwice ==
    /\ NodeCount = Cardinality({node.id : node \in Nodes})
    /\ \A node \in Nodes : node.id # Self

(***************************************************************************)
(* Buckets stay within DHT_NODE_COUNT, and the last one, which the split   *)
(* loop must leave with room, below it.  The reply buffer of a search and  *)
(* the arrays of DHT_NODE_COUNT nodes its callers pass depend on it.       *)
(***************************************************************************)
BucketsBounded ==
    /\ \A i \in DOMAIN table.buckets : Len(table.buckets[i]) <= DHT_NODE_COUNT
    /\ Len(Last(table.buckets)) < DHT_NODE_COUNT
    /\ Len(table.buckets) <= IdBits

(***************************************************************************)
(* The unsigned counter num_peers never counts fewer nodes than there are, *)
(* so that deleting dead nodes never takes it below zero.                  *)
(***************************************************************************)
PeersNeverUnderflow == table.num_peers >= NodeCount

(***************************************************************************)
(* The promise the lookups are built on: a search returns as many eligible *)
(* nodes as it may, and no node it leaves out is nearer to the identifier  *)
(* than one it returns, unless they share a bucket.  The code never        *)
(* compares distances: the order in which it visits buckets stands for     *)
(* them.                                                                   *)
(***************************************************************************)
SearchNearest ==
    \A id \in Id :
        LET found == ToSet(Search(table, id).nodes)
            eligible == {node \in Nodes : Eligible(node)}
            left == {node \in eligible : [id |-> node.id, addr |-> node.addr] \notin found}
            size == Cardinality(eligible)
        IN  /\ Cardinality(found) = IF size < DHT_NODE_COUNT THEN size ELSE DHT_NODE_COUNT
            /\ \A near \in found, far \in left :
                  \/ Less(Xor(near.id, id), Xor(far.id, id))
                  \/ BucketIndex(table.buckets, near.id) = BucketIndex(table.buckets, far.id)

(***************************************************************************)
(* A newcomer takes the place of a dead node and never of a live one.  In  *)
(* every step that does not split a bucket a node that was alive stays in  *)
(* the table; and whenever a peer is heard that does not make a bucket     *)
(* split, it is in the table, alive and with the address it is heard from, *)
(* unless its bucket is full of live nodes.                                *)
(***************************************************************************)
OnlyDeadReplaced ==
    /\ [][Len(table'.buckets) = Len(table.buckets) =>
              \A node \in Nodes :
                  node.is_alive => \E later \in Nodes' : later.id = node.id]_table
    /\ [](\A peer \in Peers :
              LET after == Update(table, peer.id, peer.addr, TRUE)
                  bucket == table.buckets[BucketIndex(table.buckets, peer.id)]
              IN  Len(after.buckets) = Len(table.buckets) =>
                      \/ AliveNode(peer.id, peer.addr) \in NodesOf(after)
                      \/ IsFull(bucket) /\ \A node \in ToSet(bucket) : node.is_alive)

(***************************************************************************)
(* The counter behind the "peers" property is the number of nodes in the   *)
(* table, as the property's description says.                              *)
(***************************************************************************)
PeersCounted == table.num_peers = NodeCount
=============================================================================
