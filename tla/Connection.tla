----------------------------- MODULE Connection -----------------------------
(***************************************************************************)
(* The handshake by which two DHT clients set up a call                    *)
(* (src/src/dht-client.c): the caller sends a connection request from its  *)
(* main socket, the callee answers from a socket it makes for the call,    *)
(* the caller confirms from a socket of its own, and each side ends with a *)
(* connected socket and two keys.                                          *)
(*                                                                         *)
(* Datagrams are lost, delayed, duplicated and reordered: net holds every  *)
(* datagram ever sent, and one of them may be received at any time, any    *)
(* number of times, or never.  Clients keep to the protocol.               *)
(*                                                                         *)
(* A node stands for its key pair, its identifier and the address of its   *)
(* main socket.  Nonces are fresh random keys; the socket made for a       *)
(* connection is named by the nonce the connection is filed under.         *)
(***************************************************************************)
EXTENDS Naturals, FiniteSets

CONSTANTS Node, Nonce

VARIABLES listen,           \* per node: the "listen" property
          connection_table, \* connections being set up, by nonce, of all nodes
          drawn,            \* nonces drawn so far, and who drew them
          net,              \* datagrams sent so far
          sessions          \* connections handed over to the application

vars == <<listen, connection_table, drawn, net, sessions>>

\* dht_key_derive: what hashing the shared secret of two nodes with two nonces
\* yields, the key and the authentication tag alike.  Results are equal only
\* if all the inputs are.
Derived(node, peer, tx, rx) == [shared |-> {node, peer}, tx |-> tx, rx |-> rx]

Shared == {{node, peer} : node, peer \in Node}
Key == [shared : Shared, tx : Nonce, rx : Nonce]
NoKey == [shared |-> {}]

\* A connection of owner with the node id.  sockaddr is the address a caller
\* sent its request to; auth_tag is what the peer must prove to know.
DhtConnection == [owner : Node, id : Node, is_remote : BOOLEAN, sockaddr : Node,
                  enc_key : Key \cup {NoKey}, dec_key : Key \cup {NoKey},
                  auth_tag : Key \cup {NoKey}]

MsgConnection1 == [type : {"REQ"}, to : Node, pubkey : Node, nonce : Nonce]
MsgConnection2 == [type : {"RES2"}, to : Node, pubkey : Node, nonce : Nonce,
                   peer_nonce : Nonce, auth_tag : Key]
MsgConnection3 == [type : {"RES3"}, to : Node, from : Nonce,
                   peer_nonce : Nonce, auth_tag : Key]

\* A session: socket is the node's own socket, peer_socket the one it is
\* connected to.
Session == [node : Node, peer : Node, is_remote : BOOLEAN, socket : Nonce,
            peer_socket : Nonce, enc_key : Key, dec_key : Key]

TypeOK == /\ listen \in [Node -> BOOLEAN]
          /\ DOMAIN connection_table \subseteq DOMAIN drawn
          /\ connection_table \in [DOMAIN connection_table -> DhtConnection]
          /\ DOMAIN drawn \subseteq Nonce
          /\ drawn \in [DOMAIN drawn -> Node]
          /\ net \subseteq MsgConnection1 \cup MsgConnection2 \cup MsgConnection3
          /\ sessions \subseteq Session

Init == /\ listen = [n \in Node |-> FALSE]
        /\ connection_table = <<>>
        /\ drawn = <<>>
        /\ net = {}
        /\ sessions = {}

-----------------------------------------------------------------------------
With(f, x, value) == [y \in DOMAIN f \cup {x} |-> IF y = x THEN value ELSE f[y]]
Without(f, x) == [y \in DOMAIN f \ {x} |-> f[y]]

\* The connection node n has filed under a nonce, or not.
Filed(n, nonce) == nonce \in DOMAIN connection_table /\ connection_table[nonce].owner = n

\* Mutant: the connection is left in the table.
StealNothing(nonce) == connection_table' = connection_table

\* g_hash_table_steal
Steal(nonce) == connection_table' = Without(connection_table, nonce)

\* Mutant: the callee gets the keys of the caller.
HandOverSwapped(nonce, connection, peer_socket) ==
    [node |-> connection.owner, peer |-> connection.id, is_remote |-> connection.is_remote,
     socket |-> nonce, peer_socket |-> peer_socket,
     enc_key |-> IF connection.is_remote THEN connection.dec_key ELSE connection.enc_key,
     dec_key |-> IF connection.is_remote THEN connection.enc_key ELSE connection.dec_key]

\* What the application is given.
HandOver(nonce, connection, peer_socket) ==
    [node |-> connection.owner, peer |-> connection.id, is_remote |-> connection.is_remote,
     socket |-> nonce, peer_socket |-> peer_socket,
     enc_key |-> connection.enc_key, dec_key |-> connection.dec_key]

\* The user goes on or off line.
SetListen(n) == /\ listen' = [listen EXCEPT ![n] = ~@]
                /\ UNCHANGED <<connection_table, drawn, net, sessions>>

\* A lookup has found the identifier of callee at an address, which may by now
\* be that of another node (dht_lookup_update, for one result).
Dial(caller, callee, address, nonce) ==
    /\ caller # callee /\ nonce \notin DOMAIN drawn
    /\ drawn' = With(drawn, nonce, caller)
    /\ connection_table' =
          With(connection_table, nonce,
               [owner |-> caller, id |-> callee, is_remote |-> FALSE, sockaddr |-> address,
                enc_key |-> NoKey, dec_key |-> NoKey, auth_tag |-> NoKey])
    /\ net' = net \cup {[type |-> "REQ", to |-> address, pubkey |-> caller, nonce |-> nonce]}
    /\ UNCHANGED <<listen, sessions>>

\* MSG_CONNECTION_REQ.  Without a socket the request is dropped, as if lost.
ReceiveRequest(msg, nonce) ==
    LET n == msg.to
    IN  /\ n # msg.pubkey /\ listen[n]
        /\ nonce \notin DOMAIN drawn
        /\ drawn' = With(drawn, nonce, n)
        /\ connection_table' =
              With(connection_table, nonce,
                   [owner |-> n, id |-> msg.pubkey, is_remote |-> TRUE, sockaddr |-> n,
                    enc_key |-> Derived(n, msg.pubkey, nonce, msg.nonce),
                    dec_key |-> Derived(n, msg.pubkey, msg.nonce, nonce),
                    auth_tag |-> Derived(n, msg.pubkey, msg.nonce, nonce)])
        /\ net' = net \cup {[type |-> "RES2", to |-> msg.pubkey, pubkey |-> n, nonce |-> nonce,
                             peer_nonce |-> msg.nonce,
                             auth_tag |-> Derived(n, msg.pubkey, nonce, msg.nonce)]}
        /\ UNCHANGED <<listen, sessions>>

\* Mutants: one key is forgotten, or the two are swapped.
DeriveHalf(n, msg) ==
    [connection_table[msg.peer_nonce] EXCEPT
        !.enc_key = Derived(n, msg.pubkey, msg.peer_nonce, msg.nonce),
        !.auth_tag = Derived(n, msg.pubkey, msg.nonce, msg.peer_nonce)]

DeriveSwapped(n, msg) ==
    [connection_table[msg.peer_nonce] EXCEPT
        !.enc_key = Derived(n, msg.pubkey, msg.nonce, msg.peer_nonce),
        !.dec_key = Derived(n, msg.pubkey, msg.peer_nonce, msg.nonce),
        !.auth_tag = Derived(n, msg.pubkey, msg.nonce, msg.peer_nonce)]

Derive(n, msg) ==
    [connection_table[msg.peer_nonce] EXCEPT
        !.enc_key = Derived(n, msg.pubkey, msg.peer_nonce, msg.nonce),
        !.dec_key = Derived(n, msg.pubkey, msg.nonce, msg.peer_nonce),
        !.auth_tag = Derived(n, msg.pubkey, msg.nonce, msg.peer_nonce)]

\* Mutant: a response is expected from anybody.
ExpectedFromAny(n, msg) ==
    Filed(n, msg.peer_nonce) /\ ~connection_table[msg.peer_nonce].is_remote

\* A response is expected from the node that was dialled.
Expected(n, msg) ==
    /\ Filed(n, msg.peer_nonce)
    /\ ~connection_table[msg.peer_nonce].is_remote
    /\ connection_table[msg.peer_nonce].id = msg.pubkey

\* MSG_CONNECTION_RES of the length of MsgConnection2.  The keys are stored
\* before the tag is compared and before the socket is made, so that a failure
\* leaves the connection in the table with them.
ResponseFails(msg) ==
    /\ Expected(msg.to, msg)
    /\ connection_table' = [connection_table EXCEPT ![msg.peer_nonce] = Derive(msg.to, msg)]
    /\ UNCHANGED <<listen, drawn, net, sessions>>

ReceiveResponse(msg) ==
    LET n == msg.to
        connection == Derive(n, msg)
    IN  /\ Expected(n, msg)
        /\ connection.auth_tag = msg.auth_tag
        /\ net' = net \cup {[type |-> "RES3", to |-> connection.sockaddr, from |-> msg.peer_nonce,
                             peer_nonce |-> msg.nonce, auth_tag |-> connection.enc_key]}
        /\ Steal(msg.peer_nonce)
        /\ sessions' = sessions \cup {HandOver(msg.peer_nonce, connection, msg.nonce)}
        /\ UNCHANGED <<listen, drawn>>

\* MSG_CONNECTION_RES of the length of MsgConnection3.  A callee that does not
\* listen any more drops the connection without a signal.
ReceiveConfirmation(msg) ==
    LET n == msg.to
        connection == connection_table[msg.peer_nonce]
    IN  /\ Filed(n, msg.peer_nonce)
        /\ connection.is_remote
        /\ connection.auth_tag = msg.auth_tag
        /\ Steal(msg.peer_nonce)
        /\ sessions' = IF listen[n]
                       THEN sessions \cup {HandOver(msg.peer_nonce, connection, msg.from)}
                       ELSE sessions
        /\ UNCHANGED <<listen, drawn, net>>

\* dht_connection_timeout_cb
Timeout(nonce) ==
    /\ nonce \in DOMAIN connection_table
    /\ connection_table' = Without(connection_table, nonce)
    /\ UNCHANGED <<listen, drawn, net, sessions>>

Next ==
    \/ \E n \in Node : SetListen(n)
    \/ \E caller, callee, address \in Node, nonce \in Nonce : Dial(caller, callee, address, nonce)
    \/ \E msg \in net : \/ msg.type = "REQ" /\ \E nonce \in Nonce : ReceiveRequest(msg, nonce)
                        \/ msg.type = "RES2" /\ (ReceiveResponse(msg) \/ ResponseFails(msg))
                        \/ msg.type = "RES3" /\ ReceiveConfirmation(msg)
    \/ \E nonce \in Nonce : Timeout(nonce)

Spec == Init /\ [][Next]_vars

-----------------------------------------------------------------------------
\* Two sessions are the ends of one call: the nodes mean each other, each
\* socket is connected to the other, and what one encrypts the other decrypts.
Mirrored(s, t) ==
    /\ s.node = t.peer /\ s.peer = t.node
    /\ s.socket = t.peer_socket /\ s.peer_socket = t.socket
    /\ s.enc_key = t.dec_key /\ s.dec_key = t.enc_key

(***************************************************************************)
(* When the callee is told of a new connection, its caller already holds   *)
(* the other end of it, whatever datagrams were repeated, reordered or     *)
(* delivered to the wrong node on the way.                                 *)
(***************************************************************************)
CalleeHasCaller ==
    \A s \in sessions : s.is_remote => \E t \in sessions : ~t.is_remote /\ Mirrored(s, t)

(***************************************************************************)
(* What the callee still has on file for a caller's session fits it, so    *)
(* that the confirmation, once it arrives, completes the same call.        *)
(***************************************************************************)
CallerMatchesFile ==
    \A s \in sessions :
        ~s.is_remote /\ s.peer_socket \in DOMAIN connection_table =>
            LET connection == connection_table[s.peer_socket]
            IN  /\ connection.owner = s.peer /\ connection.id = s.node
                /\ connection.enc_key = s.dec_key /\ connection.dec_key = s.enc_key

(***************************************************************************)
(* No key ever encrypts for two sessions, and each nonce becomes a session *)
(* at most once: repeated requests and responses make no second call out   *)
(* of one.                                                                 *)
(***************************************************************************)
KeysUnshared ==
    \A s, t \in sessions : s # t => s.enc_key # t.enc_key /\ s.socket # t.socket

(***************************************************************************)
(* A connection that was handed over is off the table: neither a repeated  *)
(* datagram nor its timer can complete or destroy it a second time.        *)
(***************************************************************************)
HandedOverOnce == \A s \in sessions : s.socket \notin DOMAIN connection_table

(***************************************************************************)
(* The handshake implements SecureCall.                                    *)
(***************************************************************************)
OpenedCalls == {[caller |-> s.node, callee |-> s.peer, send |-> s.enc_key, receive |-> s.dec_key] :
                    s \in {t \in sessions : ~t.is_remote}}
JoinedCalls == {[caller |-> s.peer, callee |-> s.node, send |-> s.dec_key, receive |-> s.enc_key] :
                    s \in {t \in sessions : t.is_remote}}

Calls == INSTANCE SecureCall WITH opened <- OpenedCalls, joined <- JoinedCalls

Implements == Calls!Spec
=============================================================================
