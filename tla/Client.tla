------------------------------- MODULE Client -------------------------------
(***************************************************************************)
(* The client objects of the application: made at the start                *)
(* (src/src/main.c), replaced when the user changes the port (config_apply *)
(* in src/src/application.c), kept alive by the results they owe           *)
(* (src/src/dht-client.c), and dropped at the end.  Composed with Call,    *)
(* whose listen is the property of the current client.                     *)
(*                                                                         *)
(* What a client does without a caller, periodic lookups, the bootstrap    *)
(* and the connections of callees, holds no reference to it and dies with  *)
(* it; it is left to Lookup and Connection.                                *)
(***************************************************************************)
EXTENDS Naturals, FiniteSets

CONSTANTS Session, NoSession, MaxLookups,  \* as in Call
          Client,        \* client objects, or the memory they live in
          NoClient,      \* the null pointer
          Port, NoPort,  \* port numbers, and none
          DEFAULT_PORT,  \* written to a new configuration
          Key, NoKey     \* private keys, and none

ASSUME ClientAssumption ==
    /\ NoSession \notin Session /\ MaxLookups \in Nat \ {0}
    /\ NoClient \notin Client /\ NoPort \notin Port /\ NoKey \notin Key
    /\ DEFAULT_PORT \in Port

VARIABLES session, sessions, dialogs, call_dialog, idle, lookups,
          button_start, button_stop, listen, overlapped,  \* as in Call
          running,      \* between the start and the end of the process
          clients,      \* every client object
          app_client,   \* app->client
          client,       \* the argument of application_run
          config_port,  \* local-port in the configuration
          config_file,  \* local-port in user.cfg
          key_file,     \* the key in user.key
          identity,     \* history: the key the user goes by
          unsaved       \* history: a new key could not be written

\* Video only matters to the session itself.
Calls == INSTANCE Call WITH EnableVideo <- FALSE

call_vars == <<session, sessions, dialogs, call_dialog, idle, lookups,
               button_start, button_stop, listen, overlapped>>
files == <<config_port, config_file, key_file, identity, unsaved>>
vars == <<call_vars, running, clients, app_client, client, files>>

\* has_socket: g_socket_new did not fail.  connected: new_connection is the
\* handler of the signal.  pending and failed are its results: in lookups and
\* connections, and completed in idle.
DhtClient == [ref_count : 0 .. MaxLookups + 1, has_socket : BOOLEAN, port : Port \cup {NoPort},
              listen : BOOLEAN, connected : BOOLEAN, key : Key \cup {NoKey},
              pending : 0 .. MaxLookups, failed : 0 .. MaxLookups]

Free == [ref_count |-> 0, has_socket |-> FALSE, port |-> NoPort, listen |-> FALSE,
         connected |-> FALSE, key |-> NoKey, pending |-> 0, failed |-> 0]

\* dht_client_new and dht_client_init.
New(key, has_socket) == [Free EXCEPT !.ref_count = 1, !.has_socket = has_socket, !.key = key]

\* Every result holds a reference to its source object.
Owed(c) == clients[c].pending + clients[c].failed

Live == {c \in Client : clients[c].ref_count > 0}

\* g_object_unref; dht_client_finalize closes the socket.
Unref(c) == IF c.ref_count = 1 THEN [Free EXCEPT !.pending = c.pending, !.failed = c.failed]
                               ELSE [c EXCEPT !.ref_count = @ - 1]

\* A step of Call that leaves the clients as cs, but for what it writes to
\* the property of the current one.
Listening(cs) == /\ running
                 /\ clients' = [cs EXCEPT ![app_client].listen = listen']
                 /\ UNCHANGED <<running, app_client, client, files>>

-----------------------------------------------------------------------------
Init == /\ Calls!Init
        /\ running = FALSE
        /\ clients = [c \in Client |-> Free]
        /\ app_client = NoClient /\ client = NoClient
        /\ config_port = NoPort /\ config_file = NoPort /\ key_file = NoKey
        /\ identity = NoKey /\ unsaved = FALSE

\* startup loads user.cfg, or, missing or unreadable, sets and saves defaults.
LoadConfig ==
    /\ \/ config_file # NoPort /\ config_port' = config_file
       \/ config_port' = DEFAULT_PORT
    /\ config_file' \in {config_file, config_port'}

\* Mutant: a key is made whether one was read or not.
LoadKeyAnew(key) ==
    /\ key_file' \in {key_file, key}
    /\ \/ key_file # NoKey /\ identity' = (IF unsaved THEN key ELSE identity) /\ unsaved' = FALSE
       \/ identity' = key /\ unsaved' = (key_file' # key)

\* startup reads user.key, or, missing or unreadable, makes a random key and
\* replaces the file.  Whether it was written is not looked at.
LoadKey(key) ==
    \/ /\ key_file # NoKey /\ key = key_file
       /\ UNCHANGED key_file
       /\ identity' = (IF unsaved THEN key ELSE identity) /\ unsaved' = FALSE
    \/ /\ key_file' \in {key_file, key}
       /\ identity' = key /\ unsaved' = (key_file' # key)

\* startup, application_run and application_startup.  The user is told that
\* the bind has failed and goes on without.
Start(c, key) ==
    /\ ~running /\ running' = TRUE
    /\ app_client' = c /\ client' = c
    /\ LoadConfig
    /\ LoadKey(key)
    /\ \E has_socket, bound \in BOOLEAN :
          /\ bound => has_socket
          /\ clients' = [d \in Client |-> IF d # c THEN Free ELSE
                            [New(key, has_socket) EXCEPT
                                !.port = IF bound THEN config_port' ELSE NoPort,
                                !.listen = TRUE, !.connected = TRUE]]
    /\ UNCHANGED call_vars

\* call_start; a lookup of our own identifier fails in idle.
CallStart ==
    /\ Calls!CallStart
    /\ \E invalid \in {0, 1} :
          Listening([clients EXCEPT ![app_client].ref_count = @ + 1,
                                    ![app_client].failed = @ + invalid,
                                    ![app_client].pending = @ + (1 - invalid)])

\* A lookup or connection of a client fails: g_simple_async_result_complete_in_idle.
Fail(c) ==
    /\ running /\ clients[c].pending > 0
    /\ clients' = [clients EXCEPT ![c].pending = @ - 1, ![c].failed = @ + 1]
    /\ UNCHANGED <<call_vars, running, app_client, client, files>>

\* Mutant: the client that was asked listens again, current or not.
DeliverFailureAsked(c) ==
    /\ clients[c].failed > 0
    /\ Calls!LookupFailed
    /\ running
    /\ LET paid == [clients[c] EXCEPT !.failed = @ - 1, !.listen = TRUE]
       IN  clients' = [clients EXCEPT ![c] = Unref(paid)]
    /\ UNCHANGED <<running, app_client, client, files>>

\* The idle source calls back, then drops the result and with it a reference.
DeliverFailure(c) ==
    /\ clients[c].failed > 0
    /\ Calls!LookupFailed
    /\ LET paid == [clients[c] EXCEPT !.failed = @ - 1]
       IN  Listening([clients EXCEPT ![c] = Unref(paid)])

\* A connection is established: the callback runs in dht_client_receive_cb.
DeliverConnection(c, s) ==
    /\ clients[c].pending > 0 /\ clients[c].has_socket
    /\ Calls!LookupFinished(s)
    /\ LET paid == [clients[c] EXCEPT !.pending = @ - 1]
       IN  Listening([clients EXCEPT ![c] = Unref(paid)])

\* Any client that lives and listens emits new-connection.
NewConnection(c, s) ==
    /\ c \in Live /\ clients[c].has_socket /\ clients[c].listen /\ clients[c].connected
    /\ Calls!NewConnection(s)
    /\ Listening(clients)

\* What the user, the sessions and the main loop do.
CallStep ==
    /\ \/ Calls!StopButton \/ Calls!DialogRun \/ Calls!DialogReturn \/ Calls!Dismiss
       \/ \E response \in {"yes", "no"} : Calls!Respond(response)
       \/ \E s \in Session : Calls!NewPayloadType(s) \/ Calls!Hangup(s) \/ Calls!AcceptCb(s)
    /\ Listening(clients)

\* dht_client_bind: the port may be taken by another client of ours, which
\* lives on for its results, or by another program.
CanBind(port) == \A c \in Live : clients[c].port # port

\* The new client of config_apply.
Successor(port) ==
    [New(clients[app_client].key, TRUE) EXCEPT !.port = port, !.listen = listen, !.connected = TRUE]

\* Mutant: the application goes on with the client it has dropped.
ReplaceForgotten(c, port) ==
    /\ CanBind(port)
    /\ clients' = [clients EXCEPT ![c] = Successor(port), ![app_client] = Unref(@)]
    /\ config_port' = port
    /\ UNCHANGED app_client

\* Mutant: the old client is not dropped.
ReplaceKept(c, port) ==
    /\ CanBind(port)
    /\ clients' = [clients EXCEPT ![c] = Successor(port)]
    /\ app_client' = c
    /\ config_port' = port

\* config_apply with another port.
Replace(c, port) ==
    /\ CanBind(port)
    /\ clients' = [clients EXCEPT ![c] = Successor(port), ![app_client] = Unref(@)]
    /\ app_client' = c
    /\ config_port' = port

\* g_socket_bind without a socket fails without an error: the new client is
\* neither used nor dropped.
Leak(c) ==
    /\ clients' = [clients EXCEPT ![c] = New(clients[app_client].key, FALSE)]
    /\ UNCHANGED <<app_client, config_port>>

\* The bind fails, the new client is dropped; or the port is the same.
Keep == UNCHANGED <<clients, app_client, config_port>>

\* config_apply, of the bitrates and the bootstrap host too; dialogs are modal.
ConfigApply(c, port) ==
    /\ running /\ dialogs = <<>>
    /\ c \notin Live /\ Owed(c) = 0
    /\ Keep \/ (port # config_port /\ (Replace(c, port) \/ Leak(c)))
    /\ config_file' \in {config_file, config_port'}
    /\ UNCHANGED <<call_vars, running, client, key_file, identity, unsaved>>

\* The state of a call ends with the process.
Leave == /\ running /\ running' = FALSE
         /\ session' = NoSession /\ sessions' = [s \in Session |-> Calls!Unborn]
         /\ dialogs' = <<>> /\ call_dialog' = FALSE /\ idle' = <<>> /\ lookups' = 0
         /\ button_start' = TRUE /\ button_stop' = FALSE /\ listen' = TRUE
         /\ overlapped' = FALSE
         /\ UNCHANGED <<app_client, client, files>>

\* application_run after gtk_main: it drops its argument.
Quit == /\ dialogs = <<>>
        /\ Leave
        /\ clients' = IF client \in Live THEN [clients EXCEPT ![client] = Unref(@)] ELSE clients

\* The process is killed.
Crash == Leave /\ clients' = [c \in Client |-> Free]

Next == \/ CallStart \/ CallStep \/ Quit \/ Crash
        \/ \E c \in Client : \/ Fail(c) \/ DeliverFailure(c)
                             \/ \E key \in Key : Start(c, key)
                             \/ \E port \in Port : ConfigApply(c, port)
                             \/ \E s \in Session : DeliverConnection(c, s) \/ NewConnection(c, s)

Spec == Init /\ [][Next]_vars

-----------------------------------------------------------------------------
TypeOK ==
    /\ Calls!TypeOK
    /\ clients \in [Client -> DhtClient]
    /\ app_client \in Client \cup {NoClient} /\ client \in Client \cup {NoClient}
    /\ running \in BOOLEAN /\ (running => app_client \in Live)
    /\ config_port \in Port \cup {NoPort} /\ config_file \in Port \cup {NoPort}
    /\ key_file \in Key \cup {NoKey} /\ identity \in Key \cup {NoKey} /\ unsaved \in BOOLEAN

(***************************************************************************)
(* While the application runs, a client lives exactly as long as it is the *)
(* current one or owes a result: no callback gets an object that is gone,  *)
(* and no replaced client stays behind with its port.  (Those without a    *)
(* socket do; they have no port and never owe anything.)                   *)
(***************************************************************************)
Referenced ==
    running => \A c \in Client :
        /\ clients[c].has_socket \/ c = app_client =>
              clients[c].ref_count = Owed(c) + (IF c = app_client THEN 1 ELSE 0)
        /\ Owed(c) > 0 => c \in Live

(***************************************************************************)
(* A user who is in no call and waits for none can be called, by way of    *)
(* the current client, whatever client the last lookup was made with.  No  *)
(* replaced client takes calls, unless somebody has called during a call;  *)
(* and then it does so no longer than it owes a result.                    *)
(***************************************************************************)
OneListener ==
    running =>
        /\ session = NoSession /\ lookups = 0 =>
              clients[app_client].listen /\ clients[app_client].connected
        /\ \A c \in Live \ {app_client} :
              clients[c].listen /\ clients[c].connected => overlapped /\ Owed(c) > 0

(***************************************************************************)
(* "Local port to which the client is bound": the configuration names the  *)
(* port that the current client holds, unless its bind failed at the       *)
(* start.  The user keeps one identity, over replacements of the client,   *)
(* kills and restarts, but for a start at which the key file could not be  *)
(* read, or that follows one at which a new key could not be written.      *)
(***************************************************************************)
Configured ==
    /\ running => /\ clients[app_client].port \in {config_port, NoPort}
                  /\ clients[app_client].key = identity
    /\ unsaved \/ key_file = identity

(***************************************************************************)
(* "Cleanup": the application gives back the reference it holds, so that   *)
(* at the end only results hold its client.                                *)
(***************************************************************************)
CleanupReleases == [][Quit => clients'[app_client].ref_count = Owed(app_client)]_vars
=============================================================================
