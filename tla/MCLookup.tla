------------------------------- MODULE MCLookup -------------------------------
(***************************************************************************)
(* Small instances of Lookup.                                              *)
(***************************************************************************)
EXTENDS Lookup

CONSTANTS a0, a1, a2, a3, r1, r2

Bits2(x, y) == [i \in 0 .. 1 |-> <<x, y>>[i + 1]]
Peer(id, addr) == [id |-> id, addr |-> addr]

\* Two peers that a user and a periodic lookup ask for the same identifier at
\* the same time; one of them restarts as the node they look for.
MCSelf == Bits2(0, 1)
MCPeers == {Peer(Bits2(1, 0), a1), Peer(Bits2(0, 0), a2), Peer(Bits2(1, 1), a2)}
MCTargets == {Bits2(1, 1)}

\* Three peers, none of them the target, more than a bucket holds.
Bits3(x, y, z) == [i \in 0 .. 2 |-> <<x, y, z>>[i + 1]]
MCSelf3 == Bits3(0, 0, 1)
MCPeers3 == {Peer(Bits3(1, 0, 0), a1), Peer(Bits3(1, 0, 1), a2), Peer(Bits3(1, 1, 0), a3)}
MCTargets3 == {Bits3(1, 1, 1)}
=============================================================================
