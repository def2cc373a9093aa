------------------------------ MODULE SecureCall ------------------------------
(***************************************************************************)
(* What the connection handshake of the DHT clients promises to the        *)
(* application: a call is opened by its caller for one callee and one pair *)
(* of keys, and the callee, nobody else, joins it at most once, holding    *)
(* the same keys the other way round.  The callee may never come: the last *)
(* message of the handshake is not acknowledged.                           *)
(***************************************************************************)
CONSTANTS Node, Key

VARIABLES opened,   \* calls that a caller holds a session of
          joined    \* calls that the callee has a session of, too

Call == [caller : Node, callee : Node, send : Key, receive : Key]

Init == opened = {} /\ joined = {}

\* The keys of a call are its own.
Open(call) ==
    /\ call \in Call /\ call.caller # call.callee
    /\ \A other \in opened : {call.send, call.receive} \cap {other.send, other.receive} = {}
    /\ opened' = opened \cup {call}
    /\ UNCHANGED joined

Join(call) ==
    /\ call \in opened \ joined
    /\ joined' = joined \cup {call}
    /\ UNCHANGED opened

Next == \E call \in opened' : Open(call) \/ Join(call)

Spec == Init /\ [][Next]_<<opened, joined>>
=============================================================================
