------------------------------ MODULE MCBuckets ------------------------------
(***************************************************************************)
(* A small instance of Buckets: four-bit identifiers, buckets of three.    *)
(***************************************************************************)
EXTENDS Buckets

CONSTANTS a1, a2, a3, a4

Bits4(w, x, y, z) == [i \in 0 .. 3 |-> <<w, x, y, z>>[i + 1]]
Peer(id, addr) == [id |-> id, addr |-> addr]

MCSelf == Bits4(0, 0, 0, 1)

\* A crowd of four in our half of the identifiers that splits the first bucket
\* and fills the second, one of them also at another address, and a peer that
\* makes the second split as well.
MCCrowd == {Peer(Bits4(0, 1, 0, 0), a1), Peer(Bits4(0, 1, 0, 1), a2),
            Peer(Bits4(0, 1, 1, 0), a3), Peer(Bits4(0, 1, 1, 1), a4),
            Peer(Bits4(0, 1, 1, 0), a1), Peer(Bits4(0, 0, 1, 0), a2)}

\* With a peer in the other half, which takes the place of the dead.
MCPeers == MCCrowd \cup {Peer(Bits4(1, 0, 0, 0), a4)}
=============================================================================
