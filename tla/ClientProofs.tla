---------------------------- MODULE ClientProofs ----------------------------
(***************************************************************************)
(* Proofs about Client, for any number of objects, sessions, lookups,      *)
(* ports and keys: a client lives as long as it is needed and no longer,   *)
(* the current one and no replaced one takes calls, and the configuration  *)
(* names the port that is held.  What the steps of a call do to the call   *)
(* itself is taken from CallProofs.                                        *)
(***************************************************************************)
EXTENDS Client, FiniteSetTheorems, TLAPS

P == INSTANCE CallProofs WITH EnableVideo <- FALSE

\* n results are owed, owed[c] of them by client c: they can be numbered, and
\* every number belongs to a client.
Shares(n, owed) ==
    \E T \in SUBSET Nat :
        /\ IsFiniteSet(T) /\ Cardinality(T) = n
        /\ \E owner \in [T -> Client] :
              \A c \in Client : owed[c] = Cardinality({t \in T : owner[t] = c})

Debts == [c \in Client |-> Owed(c)]

\* The application waits for what the clients owe.
DebtsCounted == running => Shares(lookups, Debts)

\* Referenced, and nobody owes a result without a reference for it.  A replaced
\* client that can take calls is held by its results only, socket or not.
ReferencesCounted ==
    /\ Referenced
    /\ running => \A c \in Client :
          /\ clients[c].ref_count >= Owed(c)
          /\ clients[c].connected /\ c # app_client => clients[c].ref_count = Owed(c)

\* The current client has the property the application believes it has.
ListenerKnown ==
    running =>
        /\ clients[app_client].listen = listen /\ clients[app_client].connected
        /\ \A c \in Live \ {app_client} : clients[c].listen /\ clients[c].connected => overlapped

\* Between two runs of the process nobody waits and nobody is deaf.
AtRest == ~running => lookups = 0 /\ listen

IInv == /\ TypeOK /\ P!IInv
        /\ ReferencesCounted /\ DebtsCounted
        /\ ListenerKnown /\ Configured /\ AtRest

-----------------------------------------------------------------------------
\* Nobody owes more than there is.
LEMMA ShareBound ==
    ASSUME NEW n, NEW owed, Shares(n, owed)
    PROVE  /\ n \in Nat
           /\ \A c \in Client : owed[c] \in Nat /\ owed[c] <= n
  <1>1. PICK T \in SUBSET Nat :
                /\ IsFiniteSet(T) /\ Cardinality(T) = n
                /\ \E owner \in [T -> Client] :
                      \A c \in Client : owed[c] = Cardinality({t \in T : owner[t] = c})
    BY DEF Shares
  <1>2. PICK owner \in [T -> Client] :
                \A c \in Client : owed[c] = Cardinality({t \in T : owner[t] = c})
    BY <1>1
  <1>3. n \in Nat
    BY <1>1, FS_CardinalityType
  <1>4. ASSUME NEW c \in Client PROVE owed[c] \in Nat /\ owed[c] <= n
    <2> DEFINE S == {t \in T : owner[t] = c}
    <2>1. S \subseteq T /\ owed[c] = Cardinality(S)
      BY <1>2
    <2> HIDE DEF S
    <2>2. IsFiniteSet(S) /\ Cardinality(S) <= Cardinality(T)
      BY <1>1, <2>1, FS_Subset
    <2>3. Cardinality(S) \in Nat
      BY <2>2, FS_CardinalityType
    <2> QED BY <1>1, <2>1, <2>2, <2>3
  <1> QED BY <1>3, <1>4

\* What nobody owes has no share.
LEMMA SharesNothing ==
    ASSUME NEW owed, \A c \in Client : owed[c] = 0
    PROVE  Shares(0, owed)
  <1> DEFINE owner == [t \in {} |-> 0]
  <1>1. IsFiniteSet({}) /\ Cardinality({}) = 0 /\ {} \in SUBSET Nat
    BY FS_EmptySet
  <1>2. owner \in [{} -> Client]
    OBVIOUS
  <1>3. \A c \in Client : {t \in {} : owner[t] = c} = {}
    OBVIOUS
  <1> HIDE DEF owner
  <1> QED BY <1>1, <1>2, <1>3 DEF Shares

\* A new result gets a number that is not in use.
LEMMA ShareAdded ==
    ASSUME NEW n, NEW owed, Shares(n, owed), NEW c \in Client, NEW more,
           \A d \in Client : more[d] = IF d = c THEN owed[d] + 1 ELSE owed[d]
    PROVE  Shares(n + 1, more)
  <1>1. PICK T \in SUBSET Nat :
                /\ IsFiniteSet(T) /\ Cardinality(T) = n
                /\ \E owner \in [T -> Client] :
                      \A d \in Client : owed[d] = Cardinality({t \in T : owner[t] = d})
    BY DEF Shares
  <1>2. PICK owner \in [T -> Client] :
                \A d \in Client : owed[d] = Cardinality({t \in T : owner[t] = d})
    BY <1>1
  <1>3. n \in Nat
    BY <1>1, FS_CardinalityType
  <1>4. PICK x \in 1 .. n + 1 : x \notin T
    <2>1. IsFiniteSet(1 .. n + 1) /\ Cardinality(1 .. n + 1) = n + 1
      BY <1>3, FS_Interval
    <2>2. ~(1 .. n + 1 \subseteq T)
      BY <1>1, <1>3, <2>1, FS_Subset
    <2> QED BY <2>2
  <1> DEFINE T2 == T \cup {x}
             owner2 == [t \in T2 |-> IF t = x THEN c ELSE owner[t]]
  <1>5. /\ T2 \in SUBSET Nat /\ IsFiniteSet(T2) /\ Cardinality(T2) = n + 1
        /\ owner2 \in [T2 -> Client]
    BY <1>1, <1>3, <1>4, FS_AddElement
  <1>6. ASSUME NEW d \in Client PROVE more[d] = Cardinality({t \in T2 : owner2[t] = d})
    <2> DEFINE S == {t \in T : owner[t] = d}
               S2 == {t \in T2 : owner2[t] = d}
    <2>1. S \subseteq T /\ owed[d] = Cardinality(S) /\ x \notin S
      BY <1>2, <1>4
    <2>2. S2 = IF d = c THEN S \cup {x} ELSE S
      BY <1>4
    <2> HIDE DEF S, S2
    <2>3. IsFiniteSet(S)
      BY <1>1, <2>1, FS_Subset
    <2>4. Cardinality(S \cup {x}) = Cardinality(S) + 1
      BY <2>1, <2>3, FS_AddElement
    <2>5. more[d] = Cardinality(S2)
      BY <2>1, <2>2, <2>4
    <2> QED BY <2>5 DEF S2
  <1> HIDE DEF T2, owner2
  <1> QED BY <1>5, <1>6 DEF Shares

\* A result less, of one client.
LEMMA ShareTaken ==
    ASSUME NEW n, NEW owed, Shares(n, owed), NEW c \in Client, owed[c] # 0, NEW less,
           \A d \in Client : less[d] = IF d = c THEN owed[d] - 1 ELSE owed[d]
    PROVE  Shares(n - 1, less)
  <1>1. PICK T \in SUBSET Nat :
                /\ IsFiniteSet(T) /\ Cardinality(T) = n
                /\ \E owner \in [T -> Client] :
                      \A d \in Client : owed[d] = Cardinality({t \in T : owner[t] = d})
    BY DEF Shares
  <1>2. PICK owner \in [T -> Client] :
                \A d \in Client : owed[d] = Cardinality({t \in T : owner[t] = d})
    BY <1>1
  <1>3. n \in Nat
    BY <1>1, FS_CardinalityType
  <1>4. PICK x \in T : owner[x] = c
    BY <1>2, FS_EmptySet
  <1> DEFINE T2 == T \ {x}
             owner2 == [t \in T2 |-> owner[t]]
  <1>5. /\ T2 \in SUBSET Nat /\ IsFiniteSet(T2) /\ Cardinality(T2) = n - 1
        /\ owner2 \in [T2 -> Client]
    BY <1>1, <1>3, <1>4, FS_RemoveElement
  <1>6. ASSUME NEW d \in Client PROVE less[d] = Cardinality({t \in T2 : owner2[t] = d})
    <2> DEFINE S == {t \in T : owner[t] = d}
               S2 == {t \in T2 : owner2[t] = d}
    <2>1. S \subseteq T /\ owed[d] = Cardinality(S) /\ (x \in S <=> d = c)
      BY <1>2, <1>4
    <2>2. S2 = IF d = c THEN S \ {x} ELSE S
      BY <1>4
    <2> HIDE DEF S, S2
    <2>3. IsFiniteSet(S)
      BY <1>1, <2>1, FS_Subset
    <2>4. x \in S => Cardinality(S \ {x}) = Cardinality(S) - 1
      BY <2>3, FS_RemoveElement
    <2>5. less[d] = Cardinality(S2)
      BY <2>1, <2>2, <2>4
    <2> QED BY <2>5 DEF S2
  <1> HIDE DEF T2, owner2
  <1> QED BY <1>5, <1>6 DEF Shares

\* Shares depends on what each client owes only.
LEMMA SharesKept ==
    ASSUME NEW n, NEW owed, Shares(n, owed), NEW same, \A d \in Client : same[d] = owed[d]
    PROVE  Shares(n, same)
  BY DEF Shares

-----------------------------------------------------------------------------
\* The steps of a call, as CallProofs knows them.
LEMMA CallSteps ==
    /\ Calls!CallStart => P!CallStart
    /\ Calls!StopButton => P!StopButton
    /\ Calls!LookupFailed => P!LookupFailed
    /\ Calls!DialogRun => P!DialogRun
    /\ Calls!DialogReturn => P!DialogReturn
    /\ Calls!Dismiss => P!Dismiss
    /\ \A response \in {"yes", "no"} : Calls!Respond(response) => P!Respond(response)
  <1>1. Calls!EndCall => P!EndCall
    BY DEF Calls!EndCall, P!EndCall, Calls!Destroy, P!Destroy
  <1>2. Calls!CallStop => P!CallStop
    BY <1>1 DEF Calls!CallStop, P!CallStop, Calls!widgets, P!widgets
  <1>3. Calls!CallStart => P!CallStart
    BY DEF Calls!CallStart, P!CallStart
  <1>4. Calls!StopButton => P!StopButton
    BY <1>2 DEF Calls!StopButton, P!StopButton
  <1>5. Calls!LookupFailed => P!LookupFailed
    BY DEF Calls!LookupFailed, P!LookupFailed
  <1>6. Calls!Looping <=> P!Looping
    BY DEF Calls!Looping, P!Looping, Calls!Last, P!Last
  <1>7. Calls!DialogRun => P!DialogRun
    BY <1>6 DEF Calls!DialogRun, P!DialogRun, Calls!widgets, P!widgets
  <1>8. Calls!DialogReturn => P!DialogReturn
    BY <1>1, <1>6 DEF Calls!DialogReturn, P!DialogReturn, Calls!widgets, P!widgets, Calls!Last, P!Last,
                      Calls!Front, P!Front, Calls!Live, P!Live, Calls!Accept, P!Accept,
                      Calls!DestroyDialog, P!DestroyDialog
  <1>9. \A response \in {"yes", "no"} : Calls!Respond(response) => P!Respond(response)
    BY DEF Calls!Respond, P!Respond, Calls!widgets, P!widgets, Calls!Last, P!Last
  <1>10. Calls!Dismiss => P!Dismiss
    BY DEF Calls!Dismiss, P!Dismiss, Calls!widgets, P!widgets, Calls!Last, P!Last,
           Calls!Front, P!Front
  <1> QED BY <1>3, <1>4, <1>5, <1>7, <1>8, <1>9, <1>10

\* The same for the steps of one session.
LEMMA SessionSteps ==
    ASSUME NEW s \in Session
    PROVE  /\ Calls!LookupFinished(s) => P!LookupFinished(s)
           /\ Calls!NewConnection(s) => P!NewConnection(s)
           /\ Calls!NewPayloadType(s) => P!NewPayloadType(s)
           /\ Calls!Hangup(s) => P!Hangup(s)
           /\ Calls!AcceptCb(s) => P!AcceptCb(s)
  <1>1. Calls!LookupFinished(s) => P!LookupFinished(s)
    BY DEF Calls!LookupFinished, P!LookupFinished, Calls!Launch, P!Launch
  <1>2. Calls!NewConnection(s) => P!NewConnection(s)
    BY DEF Calls!NewConnection, P!NewConnection, Calls!Launch, P!Launch
  <1>3. Calls!NewPayloadType(s) => P!NewPayloadType(s)
    BY DEF Calls!NewPayloadType, P!NewPayloadType, Calls!Live, P!Live, Calls!widgets, P!widgets
  <1>4. Calls!Hangup(s) => P!Hangup(s)
    <2>1. Calls!EndCall => P!EndCall
      BY DEF Calls!EndCall, P!EndCall, Calls!Destroy, P!Destroy
    <2>2. Calls!CallStop => P!CallStop
      BY <2>1 DEF Calls!CallStop, P!CallStop, Calls!widgets, P!widgets
    <2> QED BY <2>2 DEF Calls!Hangup, P!Hangup, Calls!Live, P!Live
  <1>5. Calls!AcceptCb(s) => P!AcceptCb(s)
    <2>1. Calls!Looping <=> P!Looping
      BY DEF Calls!Looping, P!Looping, Calls!Last, P!Last
    <2> QED BY <2>1 DEF Calls!AcceptCb, P!AcceptCb, Calls!Live, P!Live, Calls!Accept, P!Accept,
                        Calls!widgets, P!widgets
  <1> QED BY <1>1, <1>2, <1>3, <1>4, <1>5

\* Both instances have the same types.
LEMMA SameTypes == P!TypeOK <=> Calls!TypeOK
  BY DEF P!TypeOK, Calls!TypeOK, P!Live, Calls!Live, P!RtpSession, Calls!RtpSession,
         P!Dialog, Calls!Dialog, P!Stacked, Calls!Stacked, P!Last, Calls!Last, P!Callback, Calls!Callback, P!widgets, Calls!widgets

-----------------------------------------------------------------------------
\* g_object_unref drops one reference, and with the last one the object.
LEMMA Unreferenced ==
    ASSUME NEW x \in DhtClient, x.ref_count > 0
    PROVE  /\ Unref(x) \in DhtClient
           /\ Unref(x).ref_count = x.ref_count - 1
           /\ Unref(x).pending = x.pending /\ Unref(x).failed = x.failed
           /\ Unref(x).has_socket => x.has_socket
           /\ Unref(x).connected => x.connected
           /\ x.ref_count # 1 => /\ Unref(x).port = x.port /\ Unref(x).key = x.key
                                 /\ Unref(x).listen = x.listen
                                 /\ Unref(x).connected = x.connected
  <1>1. CASE x.ref_count = 1
    <2>1. Unref(x) = [ref_count |-> 0, has_socket |-> FALSE, port |-> NoPort, listen |-> FALSE,
                      connected |-> FALSE, key |-> NoKey, pending |-> x.pending, failed |-> x.failed]
      BY <1>1 DEF Unref, Free
    <2>2. x.pending \in 0 .. MaxLookups /\ x.failed \in 0 .. MaxLookups
      BY DEF DhtClient
    <2> QED BY <1>1, <2>1, <2>2, ClientAssumption DEF DhtClient
  <1>2. CASE x.ref_count # 1
    BY <1>2, ClientAssumption DEF Unref, DhtClient
  <1> QED BY <1>1, <1>2

\* A client starts, with or without a socket, with one reference.
LEMMA NewClient ==
    ASSUME NEW key \in Key \cup {NoKey}, NEW has_socket \in BOOLEAN
    PROVE  /\ Free \in DhtClient /\ New(key, has_socket) \in DhtClient
           /\ New(key, has_socket).ref_count = 1
           /\ ~New(key, has_socket).listen /\ New(key, has_socket).connected = FALSE
           /\ New(key, has_socket).pending = 0 /\ New(key, has_socket).failed = 0
           /\ New(key, has_socket).has_socket = has_socket /\ New(key, has_socket).key = key
  <1>1. Free \in DhtClient
    BY ClientAssumption DEF Free, DhtClient
  <1>2. 1 \in 0 .. MaxLookups + 1
    BY ClientAssumption
  <1>3. New(key, has_socket) \in DhtClient
    BY <1>1, <1>2 DEF New, DhtClient
  <1> QED BY <1>1, <1>3 DEF New, Free

\* What the proofs use of the state of a running application.
LEMMA Running ==
    ASSUME IInv, running
    PROVE  /\ app_client \in Client /\ clients \in [Client -> DhtClient]
           /\ \A c \in Client :
                 /\ clients[c] \in DhtClient
                 /\ clients[c].ref_count >= Owed(c) /\ Owed(c) \in Nat /\ Owed(c) <= lookups
                 /\ clients[c].has_socket \/ clients[c].connected =>
                       c = app_client \/ clients[c].ref_count = Owed(c)
           /\ clients[app_client].ref_count = Owed(app_client) + 1
           /\ Shares(lookups, Debts) /\ lookups \in 0 .. MaxLookups
  <1>1. app_client \in Client /\ clients \in [Client -> DhtClient]
    BY DEF IInv, TypeOK, Live
  <1>2. Shares(lookups, Debts)
    BY DEF IInv, DebtsCounted
  <1>3. \A c \in Client : Owed(c) \in Nat /\ Owed(c) <= lookups
    BY <1>2, ShareBound DEF Debts
  <1>4. lookups \in 0 .. MaxLookups
    BY DEF IInv, P!IInv, P!TypeOK
  <1> QED BY <1>1, <1>2, <1>3, <1>4 DEF IInv, ReferencesCounted, Referenced

\* A step of Call, with the clients left as cs.
LEMMA ListeningInvariant ==
    ASSUME IInv, P!IInv', NEW cs \in [Client -> DhtClient], Listening(cs),
           overlapped => overlapped',
           Shares(lookups', [c \in Client |-> cs[c].pending + cs[c].failed]),
           \A c \in Client :
              /\ cs[c].ref_count >= cs[c].pending + cs[c].failed
              /\ (cs[c].has_socket \/ cs[c].connected) /\ c # app_client =>
                    cs[c].ref_count = cs[c].pending + cs[c].failed
              /\ cs[c].ref_count > 0 /\ cs[c].listen /\ cs[c].connected =>
                    clients[c].ref_count > 0 /\ clients[c].listen /\ clients[c].connected,
           /\ cs[app_client].ref_count = cs[app_client].pending + cs[app_client].failed + 1
           /\ cs[app_client].connected = clients[app_client].connected
           /\ cs[app_client].port = clients[app_client].port
           /\ cs[app_client].key = clients[app_client].key
    PROVE  IInv'
  <1>1. /\ running /\ running' = running /\ app_client' = app_client /\ client' = client
        /\ config_port' = config_port /\ config_file' = config_file /\ key_file' = key_file
        /\ identity' = identity /\ unsaved' = unsaved
        /\ clients' = [cs EXCEPT ![app_client].listen = listen']
    BY DEF Listening, files
  <1>2. app_client \in Client
    BY <1>1, Running
  <1>3. /\ P!TypeOK' /\ Calls!TypeOK' /\ listen' \in BOOLEAN
    <2>1. P!TypeOK' <=> Calls!TypeOK'
      BY SameTypes, PTL
    <2>2. P!TypeOK' /\ P!widgets' \in BOOLEAN \X BOOLEAN \X BOOLEAN
      BY DEF P!IInv, P!TypeOK, P!widgets
    <2> QED BY <2>1, <2>2 DEF P!TypeOK, P!widgets
  <1>4. /\ clients' \in [Client -> DhtClient]
        /\ \A c \in Client :
              /\ clients'[c].ref_count = cs[c].ref_count /\ clients'[c].has_socket = cs[c].has_socket
              /\ clients'[c].port = cs[c].port /\ clients'[c].key = cs[c].key
              /\ clients'[c].connected = cs[c].connected
              /\ clients'[c].pending = cs[c].pending /\ clients'[c].failed = cs[c].failed
              /\ clients'[c].listen = IF c = app_client THEN listen' ELSE cs[c].listen
    <2> DEFINE listening == [cs[app_client] EXCEPT !.listen = listen']
    <2>1. cs[app_client] \in DhtClient
      BY <1>2
    <2>2. /\ listening \in DhtClient
          /\ listening.ref_count = cs[app_client].ref_count
          /\ listening.has_socket = cs[app_client].has_socket
          /\ listening.port = cs[app_client].port /\ listening.key = cs[app_client].key
          /\ listening.connected = cs[app_client].connected
          /\ listening.pending = cs[app_client].pending
          /\ listening.failed = cs[app_client].failed
          /\ listening.listen = listen'
      BY <1>3, <2>1 DEF DhtClient
    <2>3. clients' = [cs EXCEPT ![app_client] = listening]
      BY <1>1
    <2> HIDE DEF listening
    <2> QED BY <1>2, <2>2, <2>3
  <1>5. \A c \in Client : cs[c].pending \in Nat /\ cs[c].failed \in Nat /\ cs[c].ref_count \in Nat
    <2>1. \A c \in Client : cs[c] \in DhtClient
      OBVIOUS
    <2> QED BY <2>1, ClientAssumption DEF DhtClient
  <1>6. TypeOK'
    BY <1>1, <1>2, <1>3, <1>4, <1>5 DEF IInv, TypeOK, Live
  <1>7. ReferencesCounted'
    BY <1>1, <1>2, <1>4, <1>5 DEF ReferencesCounted, Referenced, Owed, Live
  <1>8. DebtsCounted'
    <2>1. \A c \in Client : Debts'[c] = [d \in Client |-> cs[d].pending + cs[d].failed][c]
      BY <1>4 DEF Debts, Owed
    <2>2. Shares(lookups', Debts')
      BY <2>1, SharesKept
    <2> QED BY <2>2 DEF DebtsCounted, Shares
  <1>9. ListenerKnown'
    <2>1. clients[app_client].connected
      BY <1>1 DEF IInv, ListenerKnown
    <2>2. ASSUME NEW c \in Live' \ {app_client}, clients'[c].listen, clients'[c].connected
          PROVE  overlapped'
      <3>1. c \in Live /\ clients[c].listen /\ clients[c].connected
        BY <1>4, <2>2 DEF Live
      <3> QED BY <1>1, <2>2, <3>1 DEF IInv, ListenerKnown
    <2> QED BY <1>1, <1>2, <1>4, <2>1, <2>2 DEF ListenerKnown
  <1>10. Configured' /\ AtRest'
    BY <1>1, <1>2, <1>4 DEF IInv, Configured, AtRest
  <1> QED BY <1>6, <1>7, <1>8, <1>9, <1>10 DEF IInv

\* A step of Call that leaves the clients alone and nobody waiting less.
LEMMA ClientsKept ==
    ASSUME IInv, P!IInv', Listening(clients), overlapped => overlapped', lookups' = lookups
    PROVE  IInv'
  <1>1. running
    BY DEF Listening
  <1>2. Shares(lookups', [c \in Client |-> clients[c].pending + clients[c].failed])
    BY <1>1, Running DEF Debts, Owed
  <1> QED BY <1>1, <1>2, Running, ListeningInvariant DEF Owed

\* The user dials: the current client owes one result more.
LEMMA CallStartKeeps == ASSUME IInv, CallStart PROVE IInv'
  <1>1. Calls!CallStart /\ running
    BY DEF CallStart, Listening
  <1>2. P!IInv' /\ lookups < MaxLookups /\ lookups' = lookups + 1 /\ overlapped' = overlapped
    BY <1>1, CallSteps, P!CallStartInvariant, ClientAssumption DEF IInv, P!CallStart
  <1>3. PICK invalid \in {0, 1} :
            Listening([clients EXCEPT ![app_client].ref_count = @ + 1,
                                      ![app_client].failed = @ + invalid,
                                      ![app_client].pending = @ + (1 - invalid)])
    BY DEF CallStart
  <1> DEFINE x == clients[app_client]
             asked == [x EXCEPT !.ref_count = @ + 1, !.failed = @ + invalid,
                                !.pending = @ + (1 - invalid)]
             cs == [clients EXCEPT ![app_client] = asked]
  <1>4. /\ x \in DhtClient /\ x.pending \in Nat /\ x.failed \in Nat
        /\ x.pending + x.failed <= lookups /\ x.ref_count = x.pending + x.failed + 1
    BY <1>1, Running, ClientAssumption DEF Owed, DhtClient
  <1>5. /\ asked \in DhtClient
        /\ asked.ref_count = x.ref_count + 1
        /\ asked.pending \in Nat /\ asked.failed \in Nat
        /\ asked.pending + asked.failed = x.pending + x.failed + 1
        /\ asked.listen = x.listen /\ asked.connected = x.connected
        /\ asked.port = x.port /\ asked.key = x.key
    <2>1. x.pending + x.failed < MaxLookups
      BY <1>1, <1>2, <1>4, Running, ClientAssumption
    <2>2. /\ x.ref_count + 1 \in 0 .. MaxLookups + 1
          /\ x.failed + invalid \in 0 .. MaxLookups /\ x.pending + (1 - invalid) \in 0 .. MaxLookups
      BY <1>4, <2>1, ClientAssumption
    <2> HIDE DEF x
    <2>3. asked \in DhtClient
      BY <1>4, <2>2 DEF DhtClient
    <2>4. /\ asked.ref_count = x.ref_count + 1
          /\ asked.pending = x.pending + (1 - invalid) /\ asked.failed = x.failed + invalid
          /\ asked.listen = x.listen /\ asked.connected = x.connected
          /\ asked.port = x.port /\ asked.key = x.key
      BY <1>4 DEF DhtClient
    <2> HIDE DEF asked
    <2> QED BY <1>4, <2>3, <2>4
  <1>6. cs \in [Client -> DhtClient] /\ \A c \in Client : cs[c] = IF c = app_client THEN asked ELSE clients[c]
    BY <1>1, <1>5, Running
  <1>7. Shares(lookups', [c \in Client |-> cs[c].pending + cs[c].failed])
    <2> DEFINE more == [c \in Client |-> cs[c].pending + cs[c].failed]
    <2>1. \A c \in Client : more[c] = IF c = app_client THEN Debts[c] + 1 ELSE Debts[c]
      <3> HIDE DEF asked, cs
      <3> QED BY <1>5, <1>6 DEF Debts, Owed
    <2> HIDE DEF more
    <2>2. Shares(lookups + 1, more)
      BY <1>1, <2>1, Running, ShareAdded
    <2> QED BY <1>2, <2>2 DEF more
  <1>8. Listening(cs)
    <2>1. [clients EXCEPT ![app_client].ref_count = @ + 1, ![app_client].failed = @ + invalid,
                          ![app_client].pending = @ + (1 - invalid)] = cs
      BY <1>1, Running
    <2> QED BY <1>3, <2>1
  <1> HIDE DEF cs, asked
  <1>9. /\ \A c \in Client :
              /\ cs[c].ref_count >= cs[c].pending + cs[c].failed
              /\ (cs[c].has_socket \/ cs[c].connected) /\ c # app_client =>
                    cs[c].ref_count = cs[c].pending + cs[c].failed
              /\ cs[c].ref_count > 0 /\ cs[c].listen /\ cs[c].connected =>
                    clients[c].ref_count > 0 /\ clients[c].listen /\ clients[c].connected
        /\ cs[app_client].ref_count = cs[app_client].pending + cs[app_client].failed + 1
    <2>1. x.ref_count > 0
      BY <1>4
    <2> QED BY <1>1, <1>4, <1>5, <1>6, <2>1, Running DEF Owed
  <1> QED BY <1>1, <1>2, <1>5, <1>6, <1>7, <1>8, <1>9, Running, ListeningInvariant

\* The calls start as CallProofs has it,
LEMMA CallInitially == P!Init => P!IInv
  BY P!Initially, ClientAssumption

\* and keep its invariant while they are left alone.
LEMMA CallKept ==
    ASSUME IInv, UNCHANGED call_vars
    PROVE  /\ P!IInv' /\ Calls!TypeOK' /\ lookups' = lookups /\ overlapped' = overlapped
           /\ listen' = listen
  <1>1. P!IInv'
    BY P!Consecution, ClientAssumption DEF IInv, call_vars, P!vars, P!widgets
  <1>2. P!TypeOK' <=> Calls!TypeOK'
    BY SameTypes, PTL
  <1> QED BY <1>1, <1>2 DEF P!IInv, call_vars

\* A result that a client owes fails,
LEMMA FailKeeps == ASSUME IInv, NEW c \in Client, Fail(c) PROVE IInv'
  <1>1. /\ running /\ running' = running /\ app_client' = app_client /\ client' = client
        /\ config_port' = config_port /\ config_file' = config_file /\ key_file' = key_file
        /\ identity' = identity /\ unsaved' = unsaved
        /\ UNCHANGED call_vars /\ clients[c].pending > 0
    BY DEF Fail, files
  <1> DEFINE x == clients[c]
             failed == [x EXCEPT !.pending = @ - 1, !.failed = @ + 1]
  <1>2. /\ x \in DhtClient /\ x.pending \in Nat /\ x.failed \in Nat /\ x.pending + x.failed <= MaxLookups
    BY <1>1, Running, ClientAssumption DEF Owed, DhtClient
  <1>3. /\ failed \in DhtClient
        /\ failed.pending + failed.failed = x.pending + x.failed
        /\ failed.ref_count = x.ref_count /\ failed.has_socket = x.has_socket
        /\ failed.listen = x.listen /\ failed.connected = x.connected
        /\ failed.port = x.port /\ failed.key = x.key
    <2> HIDE DEF x
    <2>1. x.pending > 0
      BY <1>1 DEF x
    <2>2. x.pending - 1 \in 0 .. MaxLookups /\ x.failed + 1 \in 0 .. MaxLookups
      BY <1>2, <2>1, ClientAssumption
    <2>3. failed \in DhtClient
      BY <1>2, <2>2 DEF DhtClient
    <2>4. /\ failed.pending = x.pending - 1 /\ failed.failed = x.failed + 1
          /\ failed.ref_count = x.ref_count /\ failed.has_socket = x.has_socket
          /\ failed.listen = x.listen /\ failed.connected = x.connected
          /\ failed.port = x.port /\ failed.key = x.key
      BY <1>2 DEF DhtClient
    <2> HIDE DEF failed
    <2> QED BY <1>2, <2>3, <2>4
  <1>4. clients' = [clients EXCEPT ![c] = failed]
    BY <1>1, Running DEF Fail
  <1> HIDE DEF failed
  <1>5. /\ clients' \in [Client -> DhtClient]
        /\ \A d \in Client :
              /\ clients'[d].ref_count = clients[d].ref_count
              /\ clients'[d].has_socket = clients[d].has_socket
              /\ clients'[d].listen = clients[d].listen /\ clients'[d].connected = clients[d].connected
              /\ clients'[d].port = clients[d].port /\ clients'[d].key = clients[d].key
              /\ clients'[d].pending + clients'[d].failed = clients[d].pending + clients[d].failed
    BY <1>1, <1>3, <1>4, Running
  <1> HIDE DEF x
  <1>6. P!IInv' /\ Calls!TypeOK' /\ lookups' = lookups /\ overlapped' = overlapped /\ listen' = listen
    BY <1>1, CallKept
  <1>7. TypeOK'
    BY <1>1, <1>5, <1>6, Running DEF IInv, TypeOK, Live
  <1>8. ReferencesCounted'
    BY <1>1, <1>5, Running DEF IInv, ReferencesCounted, Referenced, Owed, Live
  <1>9. DebtsCounted'
    <2>1. \A d \in Client : Debts'[d] = Debts[d]
      BY <1>5 DEF Debts, Owed
    <2>2. Shares(lookups, Debts')
      BY <1>1, <2>1, SharesKept, Running
    <2> QED BY <1>6, <2>2 DEF DebtsCounted, Shares
  <1>10. ListenerKnown' /\ Configured' /\ AtRest'
    BY <1>1, <1>5, <1>6, Running DEF IInv, ListenerKnown, Configured, AtRest, Live
  <1> QED BY <1>6, <1>7, <1>8, <1>9, <1>10 DEF IInv

\* A result of c is delivered, and its reference with it.
LEMMA Delivered ==
    ASSUME IInv, P!IInv', overlapped' = overlapped, lookups' = lookups - 1, NEW c \in Client,
           NEW paid \in DhtClient, NEW cs, cs = [clients EXCEPT ![c] = Unref(paid)], Listening(cs),
           Owed(c) > 0, paid.pending + paid.failed = Owed(c) - 1,
           paid.ref_count = clients[c].ref_count, paid.has_socket = clients[c].has_socket,
           paid.listen = clients[c].listen, paid.connected = clients[c].connected,
           paid.port = clients[c].port, paid.key = clients[c].key
    PROVE  IInv'
  <1> DEFINE y == Unref(paid)
  <1>1. running
    BY DEF Listening
  <1>2. /\ y \in DhtClient /\ y.ref_count = clients[c].ref_count - 1
        /\ y.pending + y.failed = Owed(c) - 1
        /\ y.has_socket => clients[c].has_socket
        /\ y.connected => clients[c].connected
        /\ clients[c].ref_count # 1 =>
              /\ y.port = clients[c].port /\ y.key = clients[c].key
              /\ y.listen = clients[c].listen /\ y.connected = clients[c].connected
    <2>1. paid.ref_count > 0
      BY <1>1, Running, ClientAssumption DEF DhtClient
    <2> QED BY <2>1, Unreferenced
  <1> HIDE DEF y
  <1>3. cs \in [Client -> DhtClient] /\ \A d \in Client : cs[d] = IF d = c THEN y ELSE clients[d]
    BY <1>1, <1>2, Running DEF y
  <1>4. Shares(lookups', [d \in Client |-> cs[d].pending + cs[d].failed])
    <2> DEFINE less == [d \in Client |-> cs[d].pending + cs[d].failed]
    <2>1. \A d \in Client : less[d] = IF d = c THEN Debts[d] - 1 ELSE Debts[d]
      BY <1>2, <1>3 DEF Debts, Owed
    <2>2. Debts[c] # 0
      BY <1>1, Running DEF Debts
    <2> HIDE DEF less
    <2>3. Shares(lookups - 1, less)
      BY <1>1, <2>1, <2>2, Running, ShareTaken
    <2> QED BY <2>3 DEF less
  <1>5. \A d \in Client : clients[d].ref_count \in Nat
    BY <1>1, Running, ClientAssumption DEF DhtClient
  <1>6. y.ref_count > 0 => clients[c].ref_count # 1 /\ clients[c].ref_count > 0
    BY <1>2, <1>5
  <1>7. c = app_client => clients[c].ref_count # 1
    BY <1>1, Running
  <1>8. \A d \in Client :
           /\ cs[d].ref_count >= cs[d].pending + cs[d].failed
           /\ (cs[d].has_socket \/ cs[d].connected) /\ d # app_client =>
                 cs[d].ref_count = cs[d].pending + cs[d].failed
           /\ cs[d].ref_count > 0 /\ cs[d].listen /\ cs[d].connected =>
                 clients[d].ref_count > 0 /\ clients[d].listen /\ clients[d].connected
    BY <1>1, <1>2, <1>3, <1>5, <1>6, Running DEF Owed
  <1>9. /\ cs[app_client].ref_count = cs[app_client].pending + cs[app_client].failed + 1
         /\ cs[app_client].connected = clients[app_client].connected
         /\ cs[app_client].port = clients[app_client].port
         /\ cs[app_client].key = clients[app_client].key
    BY <1>1, <1>2, <1>3, <1>5, <1>7, Running DEF Owed
  <1> QED BY <1>3, <1>4, <1>8, <1>9, ListeningInvariant

\* and its callback tells the application.
LEMMA DeliverFailureKeeps == ASSUME IInv, NEW c \in Client, DeliverFailure(c) PROVE IInv'
  <1> DEFINE x == clients[c]
             paid == [x EXCEPT !.failed = @ - 1]
             cs == [clients EXCEPT ![c] = Unref(paid)]
  <1>1. Calls!LookupFailed /\ x.failed > 0 /\ Listening(cs)
    BY DEF DeliverFailure
  <1>2. P!IInv' /\ lookups' = lookups - 1 /\ overlapped' = overlapped
    BY <1>1, CallSteps, P!LookupFailedInvariant, ClientAssumption DEF IInv, P!LookupFailed
  <1>3. x \in DhtClient /\ x.failed \in Nat /\ x.pending \in Nat
    BY <1>1, Running, ClientAssumption DEF DhtClient, Listening
  <1> HIDE DEF x, cs
  <1>4. /\ paid \in DhtClient /\ paid.pending + paid.failed = x.pending + x.failed - 1
        /\ paid.ref_count = x.ref_count /\ paid.has_socket = x.has_socket
        /\ paid.listen = x.listen /\ paid.connected = x.connected
        /\ paid.port = x.port /\ paid.key = x.key
    BY <1>1, <1>3, ClientAssumption DEF DhtClient
  <1>5. cs = [clients EXCEPT ![c] = Unref(paid)] /\ x = clients[c]
    BY DEF cs, x
  <1> HIDE DEF paid
  <1>6. Owed(c) = x.pending + x.failed /\ Owed(c) > 0
    BY <1>1, <1>3 DEF Owed, x
  <1>7. /\ paid.pending + paid.failed = Owed(c) - 1
        /\ paid.ref_count = clients[c].ref_count /\ paid.has_socket = clients[c].has_socket
        /\ paid.listen = clients[c].listen /\ paid.connected = clients[c].connected
        /\ paid.port = clients[c].port /\ paid.key = clients[c].key
    BY <1>3, <1>4, <1>5, <1>6
  <1> QED BY <1>1, <1>2, <1>4, <1>5, <1>6, <1>7, Delivered

\* A result delivers its connection.
LEMMA DeliverConnectionKeeps ==
    ASSUME IInv, NEW c \in Client, NEW s \in Session, DeliverConnection(c, s) PROVE IInv'
  <1> DEFINE x == clients[c]
             paid == [x EXCEPT !.pending = @ - 1]
             cs == [clients EXCEPT ![c] = Unref(paid)]
  <1>1. Calls!LookupFinished(s) /\ x.pending > 0 /\ Listening(cs)
    BY DEF DeliverConnection
  <1>2. P!IInv' /\ lookups' = lookups - 1 /\ overlapped' = overlapped
    BY <1>1, SessionSteps, P!LookupFinishedInvariant, ClientAssumption DEF IInv, P!LookupFinished
  <1>3. x \in DhtClient /\ x.failed \in Nat /\ x.pending \in Nat
    BY <1>1, Running, ClientAssumption DEF DhtClient, Listening
  <1> HIDE DEF x, cs
  <1>4. /\ paid \in DhtClient /\ paid.pending + paid.failed = x.pending + x.failed - 1
        /\ paid.ref_count = x.ref_count /\ paid.has_socket = x.has_socket
        /\ paid.listen = x.listen /\ paid.connected = x.connected
        /\ paid.port = x.port /\ paid.key = x.key
    BY <1>1, <1>3, ClientAssumption DEF DhtClient
  <1>5. cs = [clients EXCEPT ![c] = Unref(paid)] /\ x = clients[c]
    BY DEF cs, x
  <1> HIDE DEF paid
  <1>6. Owed(c) = x.pending + x.failed /\ Owed(c) > 0
    BY <1>1, <1>3 DEF Owed, x
  <1>7. /\ paid.pending + paid.failed = Owed(c) - 1
        /\ paid.ref_count = clients[c].ref_count /\ paid.has_socket = clients[c].has_socket
        /\ paid.listen = clients[c].listen /\ paid.connected = clients[c].connected
        /\ paid.port = clients[c].port /\ paid.key = clients[c].key
    BY <1>3, <1>4, <1>5, <1>6
  <1> QED BY <1>1, <1>2, <1>4, <1>5, <1>6, <1>7, Delivered

\* The current client listens when the application says so, and another one
\* only once somebody has called during a call.
LEMMA NewConnectionKeeps ==
    ASSUME IInv, NEW c \in Client, NEW s \in Session, NewConnection(c, s) PROVE IInv'
  <1>1. Calls!NewConnection(s) /\ Listening(clients) /\ running
    BY DEF NewConnection, Listening
  <1>2. listen \/ overlapped
    BY <1>1 DEF IInv, ListenerKnown, NewConnection
  <1>3. P!IInv' /\ lookups' = lookups /\ (overlapped => overlapped')
    BY <1>1, <1>2, SessionSteps, P!NewConnectionInvariant, ClientAssumption DEF IInv, P!NewConnection
  <1> QED BY <1>1, <1>3, ClientsKept

\* A step of the calls that is no business of a client's references.
LEMMA CallStepKeeps == ASSUME IInv, CallStep PROVE IInv'
  <1>1. Listening(clients)
    BY DEF CallStep
  <1> SUFFICES P!IInv' /\ lookups' = lookups /\ overlapped' = overlapped
    BY <1>1, ClientsKept
  <1> USE ClientAssumption DEF IInv
  <1>2. CASE Calls!StopButton
    BY <1>2, CallSteps, P!StopButtonInvariant DEF P!StopButton
  <1>3. CASE Calls!DialogRun
    BY <1>3, CallSteps, P!DialogRunInvariant DEF P!DialogRun
  <1>4. CASE Calls!DialogReturn
    BY <1>4, CallSteps, P!DialogReturnInvariant DEF P!DialogReturn
  <1>5. ASSUME NEW response \in {"yes", "no"}, Calls!Respond(response)
        PROVE  P!IInv' /\ lookups' = lookups /\ overlapped' = overlapped
    BY <1>5, CallSteps, P!RespondInvariant DEF P!Respond
  <1>6. ASSUME NEW s \in Session, Calls!NewPayloadType(s)
        PROVE  P!IInv' /\ lookups' = lookups /\ overlapped' = overlapped
    BY <1>6, SessionSteps, P!NewPayloadTypeInvariant DEF P!NewPayloadType
  <1>7. ASSUME NEW s \in Session, Calls!Hangup(s)
        PROVE  P!IInv' /\ lookups' = lookups /\ overlapped' = overlapped
    BY <1>7, SessionSteps, P!HangupInvariant DEF P!Hangup
  <1>8. ASSUME NEW s \in Session, Calls!AcceptCb(s)
        PROVE  P!IInv' /\ lookups' = lookups /\ overlapped' = overlapped
    BY <1>8, SessionSteps, P!AcceptCbInvariant DEF P!AcceptCb
  <1>9. CASE Calls!Dismiss
    BY <1>9, CallSteps, P!DismissInvariant DEF P!Dismiss
  <1> QED BY <1>2, <1>3, <1>4, <1>5, <1>6, <1>7, <1>8, <1>9 DEF CallStep

\* The program starts, with the files it finds.
LEMMA StartKeeps == ASSUME IInv, NEW c \in Client, NEW key \in Key, Start(c, key) PROVE IInv'
  <1> DEFINE port == config_port'
  <1>1. /\ ~running /\ running' = TRUE /\ app_client' = c /\ client' = c
        /\ LoadConfig /\ LoadKey(key) /\ UNCHANGED call_vars
    BY DEF Start
  <1>2. PICK has_socket \in BOOLEAN, bound \in BOOLEAN :
            clients' = [d \in Client |-> IF d # c THEN Free ELSE
                           [New(key, has_socket) EXCEPT !.port = IF bound THEN port ELSE NoPort,
                                                        !.listen = TRUE, !.connected = TRUE]]
    BY DEF Start
  <1>3. config_port' = port /\ port \in Port /\ config_file' \in Port \cup {NoPort}
    BY <1>1, ClientAssumption DEF IInv, TypeOK, LoadConfig
  <1>4. /\ key_file' \in Key \cup {NoKey} /\ unsaved' \in BOOLEAN
         /\ identity' = key /\ (unsaved' \/ key_file' = identity')
    <2>1. key_file \in Key \cup {NoKey} /\ (unsaved \/ key_file = identity)
      BY DEF IInv, TypeOK, Configured
    <2>2. CASE /\ key_file # NoKey /\ key = key_file /\ UNCHANGED key_file
               /\ identity' = (IF unsaved THEN key ELSE identity) /\ unsaved' = FALSE
      BY <2>1, <2>2
    <2>3. CASE /\ key_file' \in {key_file, key}
               /\ identity' = key /\ unsaved' = (key_file' # key)
      BY <2>1, <2>3
    <2> QED BY <1>1, <2>2, <2>3 DEF LoadKey
  <1> HIDE DEF port
  <1>5. /\ Free \in DhtClient /\ Free.ref_count = 0 /\ Free.pending = 0 /\ Free.failed = 0
        /\ Free.has_socket = FALSE /\ Free.connected = FALSE
    BY ClientAssumption DEF Free, DhtClient
  <1> DEFINE first == [New(key, has_socket) EXCEPT !.port = IF bound THEN port ELSE NoPort,
                                                   !.listen = TRUE, !.connected = TRUE]
  <1>6. /\ first \in DhtClient /\ first.ref_count = 1 /\ first.pending = 0 /\ first.failed = 0
        /\ first.listen /\ first.connected /\ first.key = key
        /\ first.port \in {port, NoPort}
    <2> DEFINE held == IF bound THEN port ELSE NoPort
    <2>1. held \in {port, NoPort} /\ held \in Port \cup {NoPort}
      BY <1>3
    <2>2. first = [New(key, has_socket) EXCEPT !.port = held, !.listen = TRUE, !.connected = TRUE]
      OBVIOUS
    <2>3. TRUE \in BOOLEAN /\ key \in Key \cup {NoKey}
      OBVIOUS
    <2> DEFINE x == New(key, has_socket)
    <2>4. x \in DhtClient /\ x.ref_count = 1 /\ x.pending = 0 /\ x.failed = 0 /\ x.key = key
      BY <2>3, NewClient
    <2> HIDE DEF held, first, x
    <2>5. first = [x EXCEPT !.port = held, !.listen = TRUE, !.connected = TRUE]
      BY <2>2 DEF x
    <2> QED BY <2>1, <2>4, <2>5 DEF DhtClient
  <1> HIDE DEF first
  <1>7. clients' \in [Client -> DhtClient] /\ \A d \in Client : clients'[d] = IF d = c THEN first ELSE Free
    BY <1>2, <1>5, <1>6 DEF first
  <1>8. P!IInv' /\ Calls!TypeOK' /\ lookups' = lookups /\ listen' = listen
    BY <1>1, CallKept
  <1>9. lookups = 0 /\ listen
    BY <1>1 DEF IInv, AtRest
  <1>10. TypeOK'
    BY <1>1, <1>3, <1>6, <1>7, <1>8, <1>4 DEF TypeOK, Live
  <1>11. ReferencesCounted'
    BY <1>1, <1>5, <1>6, <1>7 DEF ReferencesCounted, Referenced, Owed, Live
  <1>12. DebtsCounted'
    <2>1. \A d \in Client : Debts'[d] = 0
      BY <1>5, <1>6, <1>7 DEF Debts, Owed
    <2>2. Shares(0, Debts')
      BY <2>1, SharesNothing
    <2> QED BY <1>8, <1>9, <2>2 DEF DebtsCounted, Shares
  <1>13. ListenerKnown'
    <2>1. clients'[c].listen /\ listen' /\ clients'[c].connected
      BY <1>6, <1>7, <1>8, <1>9
    <2>2. clients'[c].listen = listen'
      BY <1>6, <1>7, <2>1, <1>8 DEF P!IInv, P!TypeOK, P!widgets
    <2>3. Live' \subseteq {c}
      BY <1>5, <1>7 DEF Live
    <2> QED BY <1>1, <2>1, <2>2, <2>3 DEF ListenerKnown
  <1>14. Configured' /\ AtRest'
    BY <1>1, <1>3, <1>6, <1>7, <1>4 DEF Configured, AtRest
  <1> QED BY <1>8, <1>10, <1>11, <1>12, <1>13, <1>14 DEF IInv

\* config_apply with another port, and a bind that succeeds: who still owes a
\* result has been asked by a user who waits and cannot be called.
LEMMA ReplaceKeeps ==
    ASSUME IInv, running, running' = running, UNCHANGED <<call_vars, client, key_file, identity, unsaved>>,
           NEW c \in Client \ Live, Owed(c) = 0, NEW port \in Port, Replace(c, port),
           config_file' \in {config_file, config_port'}
    PROVE  IInv'
  <1> DEFINE old == clients[app_client]
             y == Unref(old)
             new == Successor(port)
  <1>1. /\ app_client \in Live /\ app_client \in Client /\ c # app_client
        /\ old \in DhtClient /\ old.ref_count > 0 /\ old.ref_count = Owed(app_client) + 1
        /\ Owed(app_client) \in Nat
        /\ old.pending + old.failed = Owed(app_client)
    BY Running DEF IInv, TypeOK, Live, Owed
  <1>2. /\ y \in DhtClient /\ y.ref_count = Owed(app_client)
        /\ y.pending + y.failed = Owed(app_client)
        /\ y.ref_count # 0 => y.listen = old.listen /\ y.connected = old.connected
    <2>1. y.ref_count = old.ref_count - 1 /\ (y.ref_count # 0 => old.ref_count # 1)
      BY <1>1, Unreferenced
    <2> QED BY <1>1, <2>1, Unreferenced
  <1>3. P!IInv' /\ Calls!TypeOK' /\ lookups' = lookups /\ overlapped' = overlapped /\ listen' = listen
    BY CallKept
  <1>4. listen \in BOOLEAN
    BY DEF IInv, P!IInv, P!TypeOK, P!widgets
  <1>5. /\ new \in DhtClient /\ new.ref_count = 1 /\ new.pending = 0 /\ new.failed = 0
        /\ new.listen = listen /\ new.connected /\ new.key = old.key /\ new.port = port
    <2>1. old.key \in Key \cup {NoKey}
      BY <1>1 DEF DhtClient
    <2>2. new = [New(old.key, TRUE) EXCEPT !.port = port, !.listen = listen, !.connected = TRUE]
      BY DEF Successor
    <2>3. TRUE \in BOOLEAN /\ port \in Port \cup {NoPort}
      OBVIOUS
    <2> DEFINE x == New(old.key, TRUE)
    <2>4. x \in DhtClient /\ x.ref_count = 1 /\ x.pending = 0 /\ x.failed = 0 /\ x.key = old.key
      BY <2>1, <2>3, NewClient
    <2> HIDE DEF new, x
    <2>5. new = [x EXCEPT !.port = port, !.listen = listen, !.connected = TRUE]
      BY <2>2 DEF x
    <2> HIDE DEF old
    <2> QED BY <1>4, <2>3, <2>4, <2>5 DEF DhtClient
  <1>6. /\ app_client' = c /\ config_port' = port
        /\ clients' \in [Client -> DhtClient]
        /\ \A d \in Client : clients'[d] = IF d = c THEN new ELSE IF d = app_client THEN y ELSE clients[d]
    <2> HIDE DEF new
    <2>1. clients' = [clients EXCEPT ![c] = new, ![app_client] = y]
      BY <1>1, Running DEF Replace, new
    <2> QED BY <1>1, <1>2, <1>5, <2>1, Running DEF Replace
  <1> HIDE DEF new, y
  <1>7. TypeOK'
    BY <1>3, <1>5, <1>6 DEF IInv, TypeOK, Live
  <1>8. ReferencesCounted'
    <2>1. \A d \in Client :
             /\ clients'[d].ref_count >= clients'[d].pending + clients'[d].failed
             /\ clients'[d].has_socket \/ d = c =>
                   clients'[d].ref_count = clients'[d].pending + clients'[d].failed
                                           + (IF d = c THEN 1 ELSE 0)
             /\ clients'[d].connected /\ d # c =>
                   clients'[d].ref_count = clients'[d].pending + clients'[d].failed
             /\ clients'[d].pending + clients'[d].failed > 0 => clients'[d].ref_count > 0
      <3>1. ASSUME NEW d \in Client, d # c, d # app_client
            PROVE  /\ clients[d].ref_count >= Owed(d) /\ Owed(d) \in Nat
                   /\ clients[d].has_socket \/ clients[d].connected =>
                         clients[d].ref_count = Owed(d)
                   /\ Owed(d) = clients[d].pending + clients[d].failed
                   /\ clients[d].ref_count \in Nat
        BY <3>1, Running, ClientAssumption DEF Owed, DhtClient
      <3>2. ASSUME NEW d \in Client, d # c, d # app_client
            PROVE  /\ clients[d].ref_count >= clients[d].pending + clients[d].failed
                   /\ clients[d].has_socket \/ clients[d].connected =>
                         /\ clients[d].ref_count = clients[d].pending + clients[d].failed + 0
                         /\ clients[d].ref_count = clients[d].pending + clients[d].failed
                   /\ clients[d].pending + clients[d].failed > 0 => clients[d].ref_count > 0
        BY <3>1, <3>2
      <3> QED BY <1>1, <1>2, <1>5, <1>6, <3>2
    <2> QED BY <1>6, <2>1 DEF ReferencesCounted, Referenced, Owed, Live
  <1>9. DebtsCounted'
    <2>1. \A d \in Client : Debts'[d] = Debts[d]
      BY <1>1, <1>2, <1>5, <1>6 DEF Debts, Owed
    <2>2. Shares(lookups, Debts')
      BY <2>1, SharesKept, Running
    <2> QED BY <1>3, <2>2 DEF DebtsCounted, Shares
  <1>10. ListenerKnown'
    <2>1. ASSUME NEW d \in Live' \ {c}, clients'[d].listen, clients'[d].connected PROVE overlapped
      <3>1. CASE d = app_client
        <4>1. lookups > 0 /\ old.listen /\ old.connected
          BY <1>1, <1>2, <1>6, <2>1, <3>1, Running DEF Live
        <4>2. listen
          BY <4>1 DEF IInv, ListenerKnown
        <4> QED BY <4>1, <4>2, ClientAssumption DEF IInv, P!IInv, P!OneAtATime
      <3>2. CASE d # app_client
        BY <1>6, <2>1, <3>2 DEF IInv, ListenerKnown, Live
      <3> QED BY <3>1, <3>2
    <2> QED BY <1>3, <1>5, <1>6, <2>1 DEF ListenerKnown
  <1>11. Configured' /\ AtRest'
    BY <1>1, <1>5, <1>6 DEF IInv, Configured, AtRest
  <1> QED BY <1>3, <1>7, <1>8, <1>9, <1>10, <1>11 DEF IInv

\* g_socket_new has failed: the new client owes nothing and listens to nobody.
LEMMA LeakKeeps ==
    ASSUME IInv, running, running' = running, UNCHANGED <<call_vars, client, key_file, identity, unsaved>>,
           NEW c \in Client \ Live, Owed(c) = 0, Leak(c),
           config_file' \in {config_file, config_port'}
    PROVE  IInv'
  <1> DEFINE new == New(clients[app_client].key, FALSE)
  <1>1. /\ app_client \in Live /\ app_client \in Client /\ c # app_client
        /\ app_client' = app_client /\ config_port' = config_port
    BY Running DEF IInv, TypeOK, Live, Leak
  <1>2. /\ new \in DhtClient /\ new.ref_count = 1 /\ new.pending = 0 /\ new.failed = 0
        /\ ~new.listen /\ ~new.has_socket /\ ~new.connected
    <2>1. clients[app_client].key \in Key \cup {NoKey}
      BY <1>1, Running DEF DhtClient
    <2>2. New(clients[app_client].key, FALSE).has_socket = FALSE
      BY <2>1, NewClient
    <2> QED BY <2>1, <2>2, NewClient
  <1>3. P!IInv' /\ Calls!TypeOK' /\ lookups' = lookups /\ overlapped' = overlapped /\ listen' = listen
    BY CallKept
  <1>4. clients' = [clients EXCEPT ![c] = new]
    BY DEF Leak
  <1> HIDE DEF new
  <1>5. /\ clients' \in [Client -> DhtClient]
        /\ \A d \in Client : clients'[d] = IF d = c THEN new ELSE clients[d]
    BY <1>2, <1>4, Running
  <1>6. TypeOK'
    BY <1>1, <1>3, <1>5 DEF IInv, TypeOK, Live
  <1>7. ReferencesCounted'
    <2>1. \A d \in Client : d # c => clients'[d] = clients[d]
      BY <1>5
    <2>2. clients'[c] = new
      BY <1>5
    <2> QED BY <1>1, <1>2, <2>1, <2>2, Running DEF IInv, ReferencesCounted, Referenced, Owed, Live
  <1>8. DebtsCounted'
    <2>1. \A d \in Client : Debts'[d] = Debts[d]
      BY <1>2, <1>5 DEF Debts, Owed
    <2>2. Shares(lookups, Debts')
      BY <2>1, SharesKept, Running
    <2> QED BY <1>3, <2>2 DEF DebtsCounted, Shares
  <1>9. ListenerKnown'
    <2>1. ASSUME NEW d \in Live' \ {app_client}, clients'[d].listen, clients'[d].connected
          PROVE  overlapped
      BY <1>2, <1>5, <2>1 DEF IInv, ListenerKnown, Live
    <2>2. clients'[app_client] = clients[app_client]
      BY <1>1, <1>5
    <2> QED BY <1>1, <1>3, <2>1, <2>2 DEF IInv, ListenerKnown
  <1>10. Configured' /\ AtRest'
    BY <1>1, <1>5 DEF IInv, Configured, AtRest
  <1> QED BY <1>3, <1>6, <1>7, <1>8, <1>9, <1>10 DEF IInv

\* The user applies a configuration.
LEMMA ConfigApplyKeeps ==
    ASSUME IInv, NEW c \in Client, NEW port \in Port, ConfigApply(c, port) PROVE IInv'
  <1>1. /\ running /\ running' = running /\ UNCHANGED <<call_vars, client, key_file, identity, unsaved>>
        /\ c \in Client \ Live /\ Owed(c) = 0 /\ config_file' \in {config_file, config_port'}
    BY DEF ConfigApply
  <1>2. CASE Replace(c, port)
    BY <1>1, <1>2, ReplaceKeeps
  <1>3. CASE Leak(c)
    BY <1>1, <1>3, LeakKeeps
  <1>4. CASE Keep
    <2>1. UNCHANGED <<clients, app_client, config_port, running, client, key_file, identity, unsaved>>
      BY <1>1, <1>4 DEF Keep
    <2>2. P!IInv' /\ Calls!TypeOK' /\ lookups' = lookups /\ overlapped' = overlapped /\ listen' = listen
      BY <1>1, CallKept
    <2>3. TypeOK'
      BY <1>1, <2>1, <2>2 DEF IInv, TypeOK, Live
    <2>4. ReferencesCounted' /\ ListenerKnown' /\ Configured' /\ AtRest'
      BY <2>1, <2>2 DEF IInv, ReferencesCounted, Referenced, ListenerKnown, Configured, AtRest, Owed, Live
    <2>5. DebtsCounted'
      BY <2>1, <2>2 DEF IInv, DebtsCounted, Debts, Owed, Shares
    <2> QED BY <2>2, <2>3, <2>4, <2>5 DEF IInv
  <1> QED BY <1>2, <1>3, <1>4 DEF ConfigApply

\* The end of the process; only what the files hold outlives it.
LEMMA LeaveKeeps ==
    ASSUME IInv, Leave, clients' \in [Client -> DhtClient] PROVE IInv'
  <1>1. /\ ~running' /\ running' = FALSE /\ lookups' = 0 /\ listen' = TRUE
        /\ UNCHANGED <<app_client, client, files>>
    BY DEF Leave
  <1>2. P!Init'
    BY DEF Leave, P!Init, P!Unborn, Calls!Unborn
  <1>3. P!IInv'
    <2>1. P!Init' => P!IInv'
      BY CallInitially, PTL
    <2> QED BY <1>2, <2>1
  <1>4. P!TypeOK' <=> Calls!TypeOK'
    BY SameTypes, PTL
  <1>5. TypeOK'
    BY <1>1, <1>3, <1>4 DEF IInv, TypeOK, P!IInv, files
  <1>6. ReferencesCounted' /\ DebtsCounted' /\ ListenerKnown' /\ Configured' /\ AtRest'
    BY <1>1 DEF IInv, ReferencesCounted, Referenced, DebtsCounted, ListenerKnown, Configured, AtRest,
                files
  <1> QED BY <1>3, <1>5, <1>6 DEF IInv

\* The application ends,
LEMMA QuitKeeps == ASSUME IInv, Quit PROVE IInv'
  <1>1. clients \in [Client -> DhtClient]
    BY DEF IInv, TypeOK
  <1>2. CASE client \in Live
    <2>1. client \in Client /\ clients[client] \in DhtClient /\ clients[client].ref_count > 0
      BY <1>1, <1>2 DEF Live
    <2>2. Unref(clients[client]) \in DhtClient
      BY <2>1, Unreferenced
    <2>3. clients' = [clients EXCEPT ![client] = Unref(clients[client])]
      BY <1>2 DEF Quit
    <2>4. clients' \in [Client -> DhtClient]
      BY <1>1, <2>2, <2>3
    <2> QED BY <2>4, LeaveKeeps DEF Quit
  <1>3. CASE client \notin Live
    BY <1>1, <1>3, LeaveKeeps DEF Quit
  <1> QED BY <1>2, <1>3

\* or the process is killed.
LEMMA CrashKeeps == ASSUME IInv, Crash PROVE IInv'
  <1>1. Free \in DhtClient
    BY ClientAssumption DEF Free, DhtClient
  <1>2. clients' \in [Client -> DhtClient]
    BY <1>1 DEF Crash
  <1> QED BY <1>2, LeaveKeeps DEF Crash

-----------------------------------------------------------------------------
\* The invariant is true before the first start,
LEMMA Initially == Init => IInv
  <1> SUFFICES ASSUME Init PROVE IInv
    OBVIOUS
  <1>1. P!Init
    BY DEF Init, Calls!Init, P!Init, Calls!Unborn, P!Unborn
  <1>2. P!IInv /\ Calls!TypeOK
    BY <1>1, CallInitially, SameTypes DEF P!IInv
  <1>3. Free \in DhtClient
    BY ClientAssumption DEF Free, DhtClient
  <1>4. TypeOK
    BY <1>2, <1>3 DEF Init, TypeOK
  <1>5. ReferencesCounted /\ DebtsCounted /\ ListenerKnown /\ Configured /\ AtRest
    BY DEF Init, Calls!Init, ReferencesCounted, Referenced, DebtsCounted, ListenerKnown, Configured, AtRest
  <1> QED BY <1>2, <1>4, <1>5 DEF IInv

\* and every step keeps it.
LEMMA Consecution == IInv /\ [Next]_vars => IInv'
  <1> SUFFICES ASSUME IInv, [Next]_vars PROVE IInv'
    OBVIOUS
  <1>1. CASE CallStart
    BY <1>1, CallStartKeeps
  <1>2. CASE CallStep
    BY <1>2, CallStepKeeps
  <1>3. CASE Quit
    BY <1>3, QuitKeeps
  <1>4. CASE Crash
    BY <1>4, CrashKeeps
  <1>5. ASSUME NEW c \in Client, Fail(c) PROVE IInv'
    BY <1>5, FailKeeps
  <1>6. ASSUME NEW c \in Client, DeliverFailure(c) PROVE IInv'
    BY <1>6, DeliverFailureKeeps
  <1>7. ASSUME NEW c \in Client, NEW key \in Key, Start(c, key) PROVE IInv'
    BY <1>7, StartKeeps
  <1>8. ASSUME NEW c \in Client, NEW port \in Port, ConfigApply(c, port) PROVE IInv'
    BY <1>8, ConfigApplyKeeps
  <1>9. ASSUME NEW c \in Client, NEW s \in Session, DeliverConnection(c, s) PROVE IInv'
    BY <1>9, DeliverConnectionKeeps
  <1>10. ASSUME NEW c \in Client, NEW s \in Session, NewConnection(c, s) PROVE IInv'
    BY <1>10, NewConnectionKeeps
  <1>11. CASE UNCHANGED vars
    <2>1. UNCHANGED <<call_vars, running, clients, app_client, client, config_port, config_file,
                      key_file, identity, unsaved>>
      BY <1>11 DEF vars, files
    <2>2. P!IInv' /\ Calls!TypeOK' /\ lookups' = lookups /\ overlapped' = overlapped /\ listen' = listen
      BY <2>1, CallKept
    <2>3. TypeOK'
      BY <2>1, <2>2 DEF IInv, TypeOK, Live
    <2>4. ReferencesCounted' /\ ListenerKnown' /\ Configured' /\ AtRest'
      BY <2>1, <2>2 DEF IInv, ReferencesCounted, Referenced, ListenerKnown, Configured, AtRest, Owed, Live
    <2>5. DebtsCounted'
      BY <2>1, <2>2 DEF IInv, DebtsCounted, Debts, Owed, Shares
    <2> QED BY <2>2, <2>3, <2>4, <2>5 DEF IInv
  <1> QED BY <1>1, <1>2, <1>3, <1>4, <1>5, <1>6, <1>7, <1>8, <1>9, <1>10, <1>11 DEF Next

\* The inductive invariant.
THEOREM Invariant == Spec => []IInv
  BY Initially, Consecution, PTL DEF Spec

\* The types of Client, those of Call among them.
THEOREM TypeCorrect == Spec => []TypeOK
  <1>1. IInv => TypeOK
    BY DEF IInv
  <1> QED BY <1>1, Invariant, PTL

\* While the application runs, a client lives exactly as long as it is the
\* current one or owes a result.
THEOREM References == Spec => []Referenced
  <1>1. IInv => Referenced
    BY DEF IInv, ReferencesCounted
  <1> QED BY <1>1, Invariant, PTL

\* A user who is in no call and waits for none can be called by way of the
\* current client.  A replaced client takes calls only once somebody has called
\* during a call, and only while it owes a result.
THEOREM ListensOnce == Spec => []OneListener
  <1>1. IInv => OneListener
    <2> SUFFICES ASSUME IInv, running PROVE OneListener
      BY DEF OneListener
    <2>1. session = NoSession /\ lookups = 0 =>
              clients[app_client].listen /\ clients[app_client].connected
      BY DEF IInv, P!IInv, P!Reachable, ListenerKnown
    <2>2. ASSUME NEW c \in Live \ {app_client}, clients[c].listen, clients[c].connected
          PROVE  overlapped /\ Owed(c) > 0
      <3>1. overlapped
        BY <2>2 DEF IInv, ListenerKnown
      <3>2. clients[c].ref_count > 0 /\ clients[c].ref_count = Owed(c)
        BY <2>2, Running DEF Live
      <3> QED BY <3>1, <3>2
    <2> QED BY <2>1, <2>2 DEF OneListener
  <1> QED BY <1>1, Invariant, PTL

\* The configuration names the port that the current client holds, if it holds
\* one.  The user goes by one identity, which is the one of the key file, unless
\* a start could not read it, or could not write a new one.
THEOREM ConfigurationTrue == Spec => []Configured
  <1>1. IInv => Configured
    BY DEF IInv
  <1> QED BY <1>1, Invariant, PTL
=============================================================================
