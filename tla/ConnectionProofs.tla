--------------------------- MODULE ConnectionProofs ---------------------------
(***************************************************************************)
(* Proofs about Connection, for any number of nodes and connections.       *)
(*                                                                         *)
(* The agreement of the two ends of a call is not inductive by itself: it  *)
(* rests on who drew a nonce (Owned), on what a response in flight         *)
(* promises about the connection its nonce is filed under (Responses), on  *)
(* the caller that stands behind a confirmation in flight (Confirmations)  *)
(* and on the keys of a session being those of its two nonces (Keyed).     *)
(***************************************************************************)
EXTENDS Connection, TLAPS

\* A connection is filed with the node that drew its nonce, and is with another.
Owned == \A x \in DOMAIN connection_table :
            /\ connection_table[x].owner = drawn[x]
            /\ connection_table[x].owner # connection_table[x].id

\* The connection filed under nonce y answers the request of caller with x.
Answers(y, callee, caller, x) ==
    y \in DOMAIN connection_table =>
        /\ connection_table[y].is_remote
        /\ connection_table[y].owner = callee /\ connection_table[y].id = caller
        /\ connection_table[y].enc_key = Derived(callee, caller, y, x)
        /\ connection_table[y].dec_key = Derived(callee, caller, x, y)

Responses == \A msg \in net : msg.type = "RES2" =>
                /\ msg.nonce \in DOMAIN drawn /\ drawn[msg.nonce] = msg.pubkey
                /\ Answers(msg.nonce, msg.pubkey, msg.to, msg.peer_nonce)

Confirmations == \A msg \in net : msg.type = "RES3" =>
                    \E s \in sessions : /\ ~s.is_remote
                                        /\ s.socket = msg.from /\ s.peer_socket = msg.peer_nonce

Keyed == \A s \in sessions :
            /\ s.node # s.peer
            /\ s.socket \in DOMAIN drawn /\ s.socket \notin DOMAIN connection_table
            /\ s.enc_key = Derived(s.node, s.peer, s.socket, s.peer_socket)
            /\ s.dec_key = Derived(s.node, s.peer, s.peer_socket, s.socket)

\* What a caller's session promises about the connection of its callee.
Backed == \A s \in sessions : ~s.is_remote =>
            /\ s.peer_socket \in DOMAIN drawn
            /\ Answers(s.peer_socket, s.peer, s.node, s.socket)

OnePerNonce == \A s, t \in sessions : s.socket = t.socket => s = t

IInv == /\ TypeOK /\ Owned /\ Responses /\ Confirmations
        /\ Keyed /\ Backed /\ OnePerNonce /\ CalleeHasCaller

-----------------------------------------------------------------------------
\* The initial state satisfies the invariant.
LEMMA InitInvariant == Init => IInv
  BY DEF Init, IInv, TypeOK, Owned, Responses, Confirmations, Keyed, Backed,
         OnePerNonce, CalleeHasCaller

\* Going on or off line touches nothing the invariant speaks of.
LEMMA SetListenInvariant == ASSUME IInv, NEW n \in Node, SetListen(n) PROVE IInv'
  <1>1. TypeOK'
    BY DEF IInv, TypeOK, SetListen
  <1> QED
    BY <1>1 DEF IInv, SetListen, Owned, Responses, Answers, Confirmations, Keyed, Backed,
                OnePerNonce, CalleeHasCaller

\* A timer or a confirmation takes a connection off the table, which every
\* conjunct survives.
LEMMA TimeoutInvariant == ASSUME IInv, NEW nonce \in Nonce, Timeout(nonce) PROVE IInv'
  <1>1. TypeOK'
    BY DEF IInv, TypeOK, Timeout, Without
  <1>2. Owned'
    BY DEF IInv, Owned, Timeout, Without
  <1>3. Responses' /\ Backed'
    BY DEF IInv, Responses, Backed, Answers, Timeout, Without
  <1>4. Keyed'
    BY DEF IInv, Keyed, Timeout, Without
  <1> QED
    BY <1>1, <1>2, <1>3, <1>4 DEF IInv, Timeout, Confirmations, OnePerNonce, CalleeHasCaller

\* Dialling files a connection under a fresh nonce, so that no promise about
\* a nonce in use is touched.
LEMMA DialInvariant ==
    ASSUME IInv, NEW caller \in Node, NEW callee \in Node, NEW address \in Node,
           NEW nonce \in Nonce, Dial(caller, callee, address, nonce)
    PROVE  IInv'
  <1>1. TypeOK'
    <2>1. connection_table' \in [DOMAIN connection_table' -> DhtConnection]
      BY DEF IInv, TypeOK, Dial, With, DhtConnection
    <2>2. DOMAIN drawn' \subseteq Nonce /\ drawn' \in [DOMAIN drawn' -> Node]
      BY DEF IInv, TypeOK, Dial, With
    <2>3. DOMAIN connection_table' \subseteq DOMAIN drawn'
      BY DEF IInv, TypeOK, Dial, With
    <2>4. net' \subseteq MsgConnection1 \cup MsgConnection2 \cup MsgConnection3
      BY DEF IInv, TypeOK, Dial, MsgConnection1
    <2> QED BY <2>1, <2>2, <2>3, <2>4 DEF IInv, TypeOK, Dial
  <1>2. Owned'
    BY DEF IInv, TypeOK, Owned, Dial, With
  <1>3. Responses'
    BY DEF IInv, Responses, Answers, Dial, With
  <1>4. Confirmations'
    BY DEF IInv, Confirmations, Dial
  <1>5. Keyed'
    BY DEF IInv, Keyed, Dial, With
  <1>6. Backed'
    BY DEF IInv, Backed, Answers, Dial, With
  <1> QED
    BY <1>1, <1>2, <1>3, <1>4, <1>5, <1>6 DEF IInv, Dial, OnePerNonce, CalleeHasCaller

\* A request files a connection under a fresh nonce and sends the response that
\* the connection answers with.
LEMMA RequestInvariant ==
    ASSUME IInv, NEW msg \in net, msg.type = "REQ", NEW nonce \in Nonce,
           ReceiveRequest(msg, nonce)
    PROVE  IInv'
  <1> DEFINE n == msg.to
             response == [type |-> "RES2", to |-> msg.pubkey, pubkey |-> n, nonce |-> nonce,
                          peer_nonce |-> msg.nonce,
                          auth_tag |-> Derived(n, msg.pubkey, nonce, msg.nonce)]
             connection == [owner |-> n, id |-> msg.pubkey, is_remote |-> TRUE, sockaddr |-> n,
                            enc_key |-> Derived(n, msg.pubkey, nonce, msg.nonce),
                            dec_key |-> Derived(n, msg.pubkey, msg.nonce, nonce),
                            auth_tag |-> Derived(n, msg.pubkey, msg.nonce, nonce)]
  <1>1. msg \in MsgConnection1
    BY DEF IInv, TypeOK, MsgConnection1, MsgConnection2, MsgConnection3
  <1>2. n \in Node /\ msg.pubkey \in Node /\ msg.nonce \in Nonce
    BY <1>1 DEF MsgConnection1
  <1>3. /\ nonce \notin DOMAIN drawn /\ n # msg.pubkey
        /\ drawn' = With(drawn, nonce, n)
        /\ connection_table' = With(connection_table, nonce, connection)
        /\ net' = net \cup {response}
        /\ listen' = listen /\ sessions' = sessions
    BY DEF ReceiveRequest
  <1>4. /\ Derived(n, msg.pubkey, nonce, msg.nonce) \in Key
        /\ Derived(n, msg.pubkey, msg.nonce, nonce) \in Key
    BY <1>2 DEF Derived, Key, Shared
  <1>5. TypeOK'
    <2>1. connection \in DhtConnection
      BY <1>2, <1>4 DEF DhtConnection
    <2>2. connection_table' \in [DOMAIN connection_table' -> DhtConnection]
      BY <1>3, <2>1 DEF IInv, TypeOK, With
    <2>3. DOMAIN drawn' \subseteq Nonce /\ drawn' \in [DOMAIN drawn' -> Node]
      BY <1>2, <1>3 DEF IInv, TypeOK, With
    <2>4. DOMAIN connection_table' \subseteq DOMAIN drawn'
      BY <1>3 DEF IInv, TypeOK, With
    <2>5. response \in MsgConnection2
      BY <1>2, <1>4 DEF MsgConnection2
    <2> QED BY <1>3, <2>2, <2>3, <2>4, <2>5 DEF IInv, TypeOK
  <1>6. Owned'
    BY <1>3 DEF IInv, TypeOK, Owned, With
  <1>7. Responses'
    <2>1. /\ nonce \in DOMAIN drawn' /\ drawn'[nonce] = n
          /\ Answers(nonce, n, msg.pubkey, msg.nonce)'
      BY <1>3 DEF Answers, With
    <2>2. \A m \in net : m.type = "RES2" =>
             /\ m.nonce \in DOMAIN drawn' /\ drawn'[m.nonce] = m.pubkey
             /\ Answers(m.nonce, m.pubkey, m.to, m.peer_nonce)'
      BY <1>3 DEF IInv, Responses, Answers, With
    <2> QED BY <1>3, <2>1, <2>2 DEF Responses
  <1>8. Confirmations'
    BY <1>3 DEF IInv, Confirmations
  <1>9. Keyed'
    BY <1>3 DEF IInv, Keyed, With
  <1>10. Backed'
    BY <1>3 DEF IInv, Backed, Answers, With
  <1> QED
    BY <1>3, <1>5, <1>6, <1>7, <1>8, <1>9, <1>10 DEF IInv, OnePerNonce, CalleeHasCaller

\* A response that finds no socket rewrites keys of a connection that is the
\* caller's, on which nothing rests.
LEMMA ResponseFailsInvariant ==
    ASSUME IInv, NEW msg \in net, msg.type = "RES2", ResponseFails(msg)
    PROVE  IInv'
  <1> DEFINE x == msg.peer_nonce
  <1>1. msg \in MsgConnection2
    BY DEF IInv, TypeOK, MsgConnection1, MsgConnection2, MsgConnection3
  <1>2. /\ x \in DOMAIN connection_table
        /\ ~connection_table[x].is_remote
        /\ connection_table' = [connection_table EXCEPT ![x] = Derive(msg.to, msg)]
        /\ UNCHANGED <<listen, drawn, net, sessions>>
    BY DEF ResponseFails, Expected, Filed
  <1>3. connection_table[x] \in DhtConnection
    BY <1>2 DEF IInv, TypeOK
  <1>4. Derive(msg.to, msg) \in DhtConnection
    <2>1. /\ Derived(msg.to, msg.pubkey, x, msg.nonce) \in Key
          /\ Derived(msg.to, msg.pubkey, msg.nonce, x) \in Key
      BY <1>1 DEF MsgConnection2, Derived, Key, Shared
    <2> QED BY <1>3, <2>1 DEF Derive, DhtConnection
  <1>5. /\ Derive(msg.to, msg).owner = connection_table[x].owner
        /\ Derive(msg.to, msg).id = connection_table[x].id
    BY <1>3 DEF Derive, DhtConnection
  <1>6. TypeOK'
    BY <1>2, <1>4 DEF IInv, TypeOK
  <1>7. Owned'
    BY <1>2, <1>5 DEF IInv, Owned
  <1>8. Responses' /\ Backed'
    BY <1>2 DEF IInv, Responses, Backed, Answers
  <1>9. Keyed'
    BY <1>2 DEF IInv, Keyed
  <1> QED
    BY <1>2, <1>6, <1>7, <1>8, <1>9 DEF IInv, Confirmations, OnePerNonce, CalleeHasCaller

\* A response completes the caller's end.  What it says about the callee's
\* connection becomes what the session relies on.
LEMMA ResponseInvariant ==
    ASSUME IInv, NEW msg \in net, msg.type = "RES2", ReceiveResponse(msg)
    PROVE  IInv'
  <1> DEFINE n == msg.to
             x == msg.peer_nonce
             y == msg.nonce
             connection == Derive(n, msg)
             session == HandOver(x, connection, y)
             confirmation == [type |-> "RES3", to |-> connection.sockaddr, from |-> x,
                              peer_nonce |-> y, auth_tag |-> connection.enc_key]
  <1>1. /\ msg \in MsgConnection2
        /\ n \in Node /\ x \in Nonce /\ y \in Nonce /\ msg.pubkey \in Node
    BY DEF IInv, TypeOK, MsgConnection1, MsgConnection2, MsgConnection3
  <1>2. /\ x \in DOMAIN connection_table
        /\ connection_table[x].owner = n
        /\ ~connection_table[x].is_remote
        /\ connection_table[x].id = msg.pubkey
        /\ net' = net \cup {confirmation}
        /\ connection_table' = Without(connection_table, x)
        /\ sessions' = sessions \cup {session}
        /\ UNCHANGED <<listen, drawn>>
    BY DEF ReceiveResponse, Expected, Filed, Steal
  <1>3. connection_table[x] \in DhtConnection
    BY <1>2 DEF IInv, TypeOK
  <1>4. /\ Derived(n, msg.pubkey, x, y) \in Key
        /\ Derived(n, msg.pubkey, y, x) \in Key
    BY <1>1 DEF Derived, Key, Shared
  <1>5. /\ connection.owner = n /\ connection.id = msg.pubkey /\ ~connection.is_remote
        /\ connection.enc_key = Derived(n, msg.pubkey, x, y)
        /\ connection.dec_key = Derived(n, msg.pubkey, y, x)
        /\ connection.sockaddr \in Node
    BY <1>2, <1>3 DEF Derive, DhtConnection
  <1>6. session = [node |-> n, peer |-> msg.pubkey, is_remote |-> FALSE, socket |-> x,
                   peer_socket |-> y, enc_key |-> Derived(n, msg.pubkey, x, y),
                   dec_key |-> Derived(n, msg.pubkey, y, x)]
    <2>1. connection.is_remote = FALSE
      BY <1>2, <1>3 DEF Derive, DhtConnection
    <2> QED BY <1>5, <2>1 DEF HandOver
  <1>7. TypeOK'
    <2>1. session \in Session
      BY <1>1, <1>4, <1>6 DEF Session
    <2>2. confirmation \in MsgConnection3
      BY <1>1, <1>4, <1>5 DEF MsgConnection3
    <2>3. connection_table' \in [DOMAIN connection_table' -> DhtConnection]
      BY <1>2 DEF IInv, TypeOK, Without
    <2> QED BY <1>2, <2>1, <2>2, <2>3 DEF IInv, TypeOK, Without
  <1>8. Owned'
    BY <1>2 DEF IInv, Owned, Without
  <1>9. Responses'
    <2>1. confirmation.type # "RES2"
      OBVIOUS
    <2> QED BY <1>2, <2>1 DEF IInv, Responses, Answers, Without
  <1>10. Confirmations'
    BY <1>2, <1>6 DEF IInv, Confirmations
  <1>11. Keyed'
    <2>1. x \in DOMAIN drawn /\ x \notin DOMAIN connection_table'
      BY <1>2 DEF IInv, TypeOK, Without
    <2>2. \A s \in sessions : s.socket \notin DOMAIN connection_table'
      BY <1>2 DEF IInv, Keyed, Without
    <2>3. n # msg.pubkey
      BY <1>2 DEF IInv, Owned
    <2> QED BY <1>2, <1>6, <2>1, <2>2, <2>3 DEF IInv, Keyed
  <1>12. Backed'
    <2>1. y \in DOMAIN drawn /\ Answers(y, msg.pubkey, n, x)'
      BY <1>2 DEF IInv, Responses, Answers, Without
    <2>2. \A s \in sessions : ~s.is_remote =>
             s.peer_socket \in DOMAIN drawn' /\ Answers(s.peer_socket, s.peer, s.node, s.socket)'
      BY <1>2 DEF IInv, Backed, Answers, Without
    <2> QED BY <1>2, <1>6, <2>1, <2>2 DEF Backed
  <1>13. OnePerNonce'
    <2>1. \A s \in sessions : s.socket # x
      BY <1>2 DEF IInv, Keyed
    <2>2. session.socket = x
      BY <1>6
    <2>3. \A a, b \in sessions : a.socket = b.socket => a = b
      BY DEF IInv, OnePerNonce
    <2> HIDE DEF session
    <2> QED BY <1>2, <2>1, <2>2, <2>3 DEF OnePerNonce
  <1>14. CalleeHasCaller'
    BY <1>2, <1>6 DEF IInv, CalleeHasCaller
  <1> QED
    BY <1>7, <1>8, <1>9, <1>10, <1>11, <1>12, <1>13, <1>14 DEF IInv

\* A confirmation completes the callee's end, if it still listens.  The caller
\* behind the confirmation holds the mirrored end.
LEMMA ConfirmationInvariant ==
    ASSUME IInv, NEW msg \in net, msg.type = "RES3", ReceiveConfirmation(msg)
    PROVE  IInv'
  <1> DEFINE n == msg.to
             y == msg.peer_nonce
             connection == connection_table[y]
             session == HandOver(y, connection, msg.from)
  <1>1. /\ y \in DOMAIN connection_table
        /\ connection.is_remote
        /\ connection_table' = Without(connection_table, y)
        /\ sessions' = sessions \/ sessions' = sessions \cup {session}
        /\ UNCHANGED <<listen, drawn, net>>
    BY DEF ReceiveConfirmation, Filed, Steal
  <1>2. connection \in DhtConnection
    BY <1>1 DEF IInv, TypeOK
  <1>3. PICK s \in sessions : ~s.is_remote /\ s.socket = msg.from /\ s.peer_socket = y
    BY DEF IInv, Confirmations
  <1>4. /\ s \in Session
        /\ s.enc_key = Derived(s.node, s.peer, s.socket, y)
        /\ s.dec_key = Derived(s.node, s.peer, y, s.socket)
    BY <1>3 DEF IInv, TypeOK, Keyed
  <1>5. /\ connection.owner = s.peer /\ connection.id = s.node
        /\ connection.enc_key = Derived(s.peer, s.node, y, s.socket)
        /\ connection.dec_key = Derived(s.peer, s.node, s.socket, y)
    BY <1>1, <1>3 DEF IInv, Backed, Answers
  <1>6. connection.enc_key = s.dec_key /\ connection.dec_key = s.enc_key
    BY <1>4, <1>5 DEF Derived
  <1>7. session = [node |-> s.peer, peer |-> s.node, is_remote |-> TRUE, socket |-> y,
                   peer_socket |-> s.socket, enc_key |-> s.dec_key, dec_key |-> s.enc_key]
    <2>1. connection.is_remote = TRUE
      BY <1>1, <1>2 DEF DhtConnection
    <2> QED BY <1>3, <1>5, <1>6, <2>1 DEF HandOver
  <1>8. TypeOK'
    <2>1. session \in Session
      BY <1>3, <1>4, <1>7 DEF Session
    <2>2. connection_table' \in [DOMAIN connection_table' -> DhtConnection]
      BY <1>1 DEF IInv, TypeOK, Without
    <2> QED BY <1>1, <2>1, <2>2 DEF IInv, TypeOK, Without
  <1>9. Owned'
    BY <1>1 DEF IInv, Owned, Without
  <1>10. Responses'
    BY <1>1 DEF IInv, Responses, Answers, Without
  <1>11. Confirmations'
    BY <1>1 DEF IInv, Confirmations
  <1>12. Keyed'
    <2>1. y \in DOMAIN drawn /\ y \notin DOMAIN connection_table'
      BY <1>1 DEF IInv, TypeOK, Without
    <2>2. \A t \in sessions : t.socket \notin DOMAIN connection_table'
      BY <1>1 DEF IInv, Keyed, Without
    <2>3. /\ session.enc_key = Derived(session.node, session.peer, y, session.peer_socket)
          /\ session.dec_key = Derived(session.node, session.peer, session.peer_socket, y)
      <3>1. /\ session.node = s.peer /\ session.peer = s.node /\ session.peer_socket = s.socket
            /\ session.enc_key = s.dec_key /\ session.dec_key = s.enc_key
        BY <1>7
      <3> HIDE DEF session
      <3> QED BY <1>5, <1>6, <3>1
    <2> QED BY <1>1, <1>7, <2>1, <2>2, <2>3 DEF IInv, Keyed
  <1>13. Backed'
    <2>1. \A t \in sessions : ~t.is_remote =>
             t.peer_socket \in DOMAIN drawn' /\ Answers(t.peer_socket, t.peer, t.node, t.socket)'
      BY <1>1 DEF IInv, Backed, Answers, Without
    <2> QED BY <1>1, <1>7, <2>1 DEF Backed
  <1>14. OnePerNonce'
    <2>1. \A t \in sessions : t.socket # y
      BY <1>1 DEF IInv, Keyed
    <2>2. session.socket = y
      BY <1>7
    <2>3. \A a, b \in sessions : a.socket = b.socket => a = b
      BY DEF IInv, OnePerNonce
    <2> HIDE DEF session
    <2> QED BY <1>1, <2>1, <2>2, <2>3 DEF OnePerNonce
  <1>15. CalleeHasCaller'
    <2>1. Mirrored(session, s)
      BY <1>3, <1>7 DEF Mirrored
    <2> QED BY <1>1, <1>3, <2>1 DEF IInv, CalleeHasCaller
  <1> QED
    BY <1>8, <1>9, <1>10, <1>11, <1>12, <1>13, <1>14, <1>15 DEF IInv

-----------------------------------------------------------------------------
\* The invariant is inductive.
LEMMA StepInvariant == IInv /\ [Next]_vars => IInv'
  <1> SUFFICES ASSUME IInv, [Next]_vars PROVE IInv'
    OBVIOUS
  <1>1. ASSUME NEW n \in Node, SetListen(n) PROVE IInv'
    BY <1>1, SetListenInvariant
  <1>2. ASSUME NEW caller \in Node, NEW callee \in Node, NEW address \in Node,
               NEW nonce \in Nonce, Dial(caller, callee, address, nonce)
        PROVE  IInv'
    BY <1>2, DialInvariant
  <1>3. ASSUME NEW msg \in net, msg.type = "REQ", NEW nonce \in Nonce, ReceiveRequest(msg, nonce)
        PROVE  IInv'
    BY <1>3, RequestInvariant
  <1>4. ASSUME NEW msg \in net, msg.type = "RES2", ReceiveResponse(msg) PROVE IInv'
    BY <1>4, ResponseInvariant
  <1>5. ASSUME NEW msg \in net, msg.type = "RES2", ResponseFails(msg) PROVE IInv'
    BY <1>5, ResponseFailsInvariant
  <1>6. ASSUME NEW msg \in net, msg.type = "RES3", ReceiveConfirmation(msg) PROVE IInv'
    BY <1>6, ConfirmationInvariant
  <1>7. ASSUME NEW nonce \in Nonce, Timeout(nonce) PROVE IInv'
    BY <1>7, TimeoutInvariant
  <1>8. ASSUME UNCHANGED vars PROVE IInv'
    <2> USE <1>8 DEF vars
    <2>1. TypeOK'
      BY DEF IInv, TypeOK
    <2>2. Owned' /\ Responses' /\ Backed'
      BY DEF IInv, Owned, Responses, Backed, Answers
    <2> QED BY <2>1, <2>2 DEF IInv, Confirmations, Keyed, OnePerNonce, CalleeHasCaller
  <1> QED
    BY <1>1, <1>2, <1>3, <1>4, <1>5, <1>6, <1>7, <1>8 DEF Next

\* The invariant holds throughout.
THEOREM Invariant == Spec => []IInv
  BY InitInvariant, StepInvariant, PTL DEF Spec

\* Every variable of the handshake keeps its type.
THEOREM TypeCorrect == Spec => []TypeOK
  <1>1. IInv => TypeOK
    BY DEF IInv
  <1> QED BY <1>1, Invariant, PTL

\* When a callee is told of a new connection, the caller holds the other end,
\* with the same keys the other way round and the sockets connected crosswise.
THEOREM Agreement == Spec => []CalleeHasCaller
  <1>1. IInv => CalleeHasCaller
    BY DEF IInv
  <1> QED BY <1>1, Invariant, PTL

\* A connection that is still on the callee's file fits the caller's session.
THEOREM FileMatches == Spec => []CallerMatchesFile
  <1>1. IInv => CallerMatchesFile
    <2> SUFFICES ASSUME IInv, NEW s \in sessions, ~s.is_remote,
                        s.peer_socket \in DOMAIN connection_table
                 PROVE  LET connection == connection_table[s.peer_socket]
                        IN  /\ connection.owner = s.peer /\ connection.id = s.node
                            /\ connection.enc_key = s.dec_key /\ connection.dec_key = s.enc_key
      BY DEF CallerMatchesFile
    <2>1. Answers(s.peer_socket, s.peer, s.node, s.socket)
      BY DEF IInv, Backed
    <2>2. /\ s.enc_key = Derived(s.node, s.peer, s.socket, s.peer_socket)
          /\ s.dec_key = Derived(s.node, s.peer, s.peer_socket, s.socket)
      BY DEF IInv, Keyed
    <2> QED BY <2>1, <2>2 DEF Answers, Derived
  <1> QED BY <1>1, Invariant, PTL

\* No key encrypts for two sessions and no nonce becomes two of them.
THEOREM Unshared == Spec => []KeysUnshared
  <1>1. IInv => KeysUnshared
    <2> SUFFICES ASSUME IInv, NEW s \in sessions, NEW t \in sessions, s # t
                 PROVE  s.enc_key # t.enc_key /\ s.socket # t.socket
      BY DEF KeysUnshared
    <2>1. s.socket # t.socket
      BY DEF IInv, OnePerNonce
    <2>2. ASSUME NEW u \in sessions PROVE u.enc_key.tx = u.socket
      <3>1. u.enc_key = Derived(u.node, u.peer, u.socket, u.peer_socket)
        BY DEF IInv, Keyed
      <3> QED BY <3>1 DEF Derived
    <2> QED BY <2>1, <2>2
  <1> QED BY <1>1, Invariant, PTL

\* A connection is handed over once.
THEOREM Once == Spec => []HandedOverOnce
  <1>1. IInv => HandedOverOnce
    BY DEF IInv, HandedOverOnce, Keyed
  <1> QED BY <1>1, Invariant, PTL

-----------------------------------------------------------------------------
\* The call of a caller's session, and that of a callee's session.
CallerCall(s) == [caller |-> s.node, callee |-> s.peer, send |-> s.enc_key, receive |-> s.dec_key]
CalleeCall(s) == [caller |-> s.peer, callee |-> s.node, send |-> s.dec_key, receive |-> s.enc_key]

\* A response opens a call: its keys are those of a nonce that no session has.
LEMMA ResponseOpens ==
    ASSUME IInv, NEW msg \in net, msg.type = "RES2", ReceiveResponse(msg)
    PROVE  Calls!Next
  <1> DEFINE n == msg.to
             x == msg.peer_nonce
             y == msg.nonce
             session == HandOver(x, Derive(n, msg), y)
             call == CallerCall(session)
  <1>1. /\ n \in Node /\ x \in Nonce /\ y \in Nonce /\ msg.pubkey \in Node
    BY DEF IInv, TypeOK, MsgConnection1, MsgConnection2, MsgConnection3
  <1>2. /\ x \in DOMAIN connection_table
        /\ connection_table[x].owner = n
        /\ connection_table[x].is_remote = FALSE
        /\ connection_table[x].id = msg.pubkey
        /\ sessions' = sessions \cup {session}
    BY DEF ReceiveResponse, Expected, Filed, IInv, TypeOK, DhtConnection
  <1>3. session = [node |-> n, peer |-> msg.pubkey, is_remote |-> FALSE, socket |-> x,
                   peer_socket |-> y, enc_key |-> Derived(n, msg.pubkey, x, y),
                   dec_key |-> Derived(n, msg.pubkey, y, x)]
    <2>1. connection_table[x] \in DhtConnection
      BY <1>2 DEF IInv, TypeOK
    <2> QED BY <1>2, <2>1 DEF HandOver, Derive, DhtConnection
  <1>4. call = [caller |-> n, callee |-> msg.pubkey, send |-> Derived(n, msg.pubkey, x, y),
                receive |-> Derived(n, msg.pubkey, y, x)]
    BY <1>3 DEF CallerCall
  <1>5. call \in Calls!Call /\ call.caller # call.callee
    <2>1. n # msg.pubkey
      BY <1>2 DEF IInv, Owned
    <2>2. Derived(n, msg.pubkey, x, y) \in Key /\ Derived(n, msg.pubkey, y, x) \in Key
      BY <1>1 DEF Derived, Key, Shared
    <2> QED BY <1>1, <1>4, <2>1, <2>2 DEF Calls!Call
  <1>6. ASSUME NEW other \in OpenedCalls
        PROVE  {call.send, call.receive} \cap {other.send, other.receive} = {}
    <2>1. PICK t \in sessions : ~t.is_remote /\ other = CallerCall(t)
      BY DEF OpenedCalls, CallerCall
    <2>2. t.socket # x /\ t.peer_socket # x
      BY <1>2, <2>1 DEF IInv, Keyed, Backed, Answers
    <2>3. /\ other.send = Derived(t.node, t.peer, t.socket, t.peer_socket)
          /\ other.receive = Derived(t.node, t.peer, t.peer_socket, t.socket)
      BY <2>1 DEF CallerCall, IInv, Keyed
    <2>4. other.send.tx # x /\ other.send.rx # x /\ other.receive.tx # x /\ other.receive.rx # x
      BY <2>2, <2>3 DEF Derived
    <2>5. call.send.tx = x /\ call.receive.rx = x
      BY <1>4 DEF Derived
    <2> HIDE DEF call
    <2> QED BY <2>4, <2>5
  <1>7. OpenedCalls' = OpenedCalls \cup {call}
    <2>1. session.is_remote = FALSE
      BY <1>3
    <2> HIDE DEF session
    <2> QED BY <1>2, <2>1 DEF OpenedCalls, CallerCall
  <1>8. JoinedCalls' = JoinedCalls
    <2>1. session.is_remote = TRUE => FALSE
      BY <1>3
    <2>2. session.is_remote = FALSE
      BY <1>3
    <2> HIDE DEF session
    <2> QED BY <1>2, <2>1, <2>2 DEF JoinedCalls
  <1>9. Calls!Open(call)
    BY <1>5, <1>6, <1>7, <1>8 DEF Calls!Open
  <1>10. call \in OpenedCalls'
    BY <1>7
  <1> QED BY <1>9, <1>10 DEF Calls!Next

\* A confirmation joins the call of the caller behind it, or is ignored.
LEMMA ConfirmationJoins ==
    ASSUME IInv, NEW msg \in net, msg.type = "RES3", ReceiveConfirmation(msg)
    PROVE  Calls!Next \/ sessions' = sessions
  <1> DEFINE y == msg.peer_nonce
             session == HandOver(y, connection_table[y], msg.from)
  <1>1. /\ y \in DOMAIN connection_table
        /\ connection_table[y].is_remote = TRUE
        /\ sessions' = sessions \/ sessions' = sessions \cup {session}
    BY DEF ReceiveConfirmation, Filed, IInv, TypeOK, DhtConnection
  <1> SUFFICES ASSUME sessions' = sessions \cup {session} PROVE Calls!Next
    BY <1>1
  <1>2. PICK s \in sessions : ~s.is_remote /\ s.socket = msg.from /\ s.peer_socket = y
    BY DEF IInv, Confirmations
  <1>3. /\ s.enc_key = Derived(s.node, s.peer, s.socket, y)
        /\ s.dec_key = Derived(s.node, s.peer, y, s.socket)
    BY <1>2 DEF IInv, Keyed
  <1>4. /\ connection_table[y].owner = s.peer /\ connection_table[y].id = s.node
        /\ connection_table[y].enc_key = Derived(s.peer, s.node, y, s.socket)
        /\ connection_table[y].dec_key = Derived(s.peer, s.node, s.socket, y)
    BY <1>1, <1>2 DEF IInv, Backed, Answers
  <1>5. /\ session.node = s.peer /\ session.peer = s.node
        /\ session.is_remote = TRUE /\ session.socket = y
        /\ session.enc_key = s.dec_key /\ session.dec_key = s.enc_key
    BY <1>1, <1>3, <1>4 DEF HandOver, Derived
  <1>6. CalleeCall(session) = CallerCall(s)
    BY <1>5 DEF CalleeCall, CallerCall
  <1>7. CallerCall(s) \in OpenedCalls
    BY <1>2 DEF OpenedCalls, CallerCall
  <1>8. CallerCall(s) \notin JoinedCalls
    <2> SUFFICES ASSUME NEW t \in sessions, t.is_remote, CallerCall(s) = CalleeCall(t)
                 PROVE  FALSE
      BY DEF JoinedCalls, CalleeCall
    <2>1. s.dec_key = t.enc_key
      BY DEF CallerCall, CalleeCall
    <2>2. t.enc_key = Derived(t.node, t.peer, t.socket, t.peer_socket)
      BY DEF IInv, Keyed
    <2>3. t.socket = y
      BY <1>3, <2>1, <2>2 DEF Derived
    <2> QED BY <1>1, <2>3 DEF IInv, Keyed
  <1>9. JoinedCalls' = JoinedCalls \cup {CallerCall(s)}
    <2> HIDE DEF session
    <2> QED BY <1>5, <1>6 DEF JoinedCalls, CalleeCall
  <1>10. OpenedCalls' = OpenedCalls
    <2> HIDE DEF session
    <2> QED BY <1>5 DEF OpenedCalls
  <1>11. CallerCall(s) \in OpenedCalls' /\ Calls!Join(CallerCall(s))
    BY <1>7, <1>8, <1>9, <1>10 DEF Calls!Join
  <1> QED BY <1>11 DEF Calls!Next

\* The handshake implements SecureCall: every step opens a call, joins one or
\* changes nothing the application sees.
THEOREM Refinement == Spec => Implements
  <1>1. Init => Calls!Init
    BY DEF Init, Calls!Init, OpenedCalls, JoinedCalls
  <1>2. ASSUME IInv, [Next]_vars PROVE [Calls!Next]_<<OpenedCalls, JoinedCalls>>
    <2>1. sessions' = sessions => UNCHANGED <<OpenedCalls, JoinedCalls>>
      BY DEF OpenedCalls, JoinedCalls
    <2>2. CASE sessions' = sessions
      BY <2>1, <2>2
    <2>3. ASSUME NEW msg \in net, msg.type = "RES2", ReceiveResponse(msg) PROVE Calls!Next
      BY <1>2, <2>3, ResponseOpens
    <2>4. ASSUME NEW msg \in net, msg.type = "RES3", ReceiveConfirmation(msg)
          PROVE  Calls!Next \/ sessions' = sessions
      BY <1>2, <2>4, ConfirmationJoins
    <2> QED
      BY <1>2, <2>2, <2>3, <2>4
      DEF Next, vars, SetListen, Dial, ReceiveRequest, ResponseFails, Timeout
  <1> QED BY <1>1, <1>2, Invariant, PTL DEF Spec, Implements, Calls!Spec
=============================================================================
