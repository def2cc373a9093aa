------------------------------- MODULE DhtId -------------------------------
(***************************************************************************)
(* Node identifiers of the distributed hash table and the metric on them   *)
(* (src/src/dht-common.c).  A DhtId is a string of DHT_ID_SIZE bytes; it   *)
(* is modelled as the function from bit positions to bits that those bytes *)
(* spell, position 0 being the most significant bit of the first byte.     *)
(* Only the number of bits is reduced.                                     *)
(***************************************************************************)
EXTENDS Integers

CONSTANT IdBits      \* number of bits of an identifier (8 * DHT_ID_SIZE)

ASSUME IdBitsAssumption == IdBits \in Nat \ {0}

Bits == 0 .. IdBits - 1

Id == [Bits -> {0, 1}]

\* dht_id_xor: the distance between two identifiers is their bitwise XOR.
Xor(a, b) == [i \in Bits |-> IF a[i] = b[i] THEN 0 ELSE 1]

\* dht_id_compare: memcmp orders identifiers by the first bit they differ in.
Less(a, b) == \E i \in Bits : /\ a[i] < b[i]
                              /\ \A j \in Bits : j < i => a[j] = b[j]

\* The identifier dht_client_bootstrap gives to a node it knows by address only.
ZeroId == [i \in Bits |-> 0]
=============================================================================
