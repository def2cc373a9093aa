# A TLA+ model of Nanotalk

Nanotalk is a distributed voice client. A client finds another one by its
identifier through a Kademlia-like hash table, sets up an encrypted connection
with it, and streams audio and video over it. This directory holds TLA+ modules
that model the client, configurations that check them with TLC, and proofs that
TLAPS checks. Paths below are relative to the repository's root; the code is in
`src/` of it (`src/src/` as seen from the directory above this one).

Contents: [inventory](#inventory), [modules](#modules), [runs](#runs),
[fairness](#fairness), [proofs](#proofs), [disagreements](#disagreements-found),
[limits](#what-is-not-modelled), [plan](#plan).

## Inventory

The program is one process. Everything but the media pipelines runs in one GLib
main loop, so that a callback runs to its end before the next one starts (with
one exception, below). What interleaves are callbacks: datagrams that arrive,
timers, idle callbacks, and the user.

| Component | State | Operations | Code |
|---|---|---|---|
| Identifiers | none | XOR metric, order | `dht-common.c` |
| Routing table | list of buckets of nodes, `num_buckets`, `num_peers` | `dht_client_update`, `dht_client_search` | `dht-client.c` |
| Lookups | `lookup_table` of lookups: query table, sorted query sequence, `num_sources`, results owed | `bootstrap`, `lookup_async`, `refresh_cb`, `receive_cb` for lookup messages, `query_timeout_cb` | `dht-client.c` |
| Handshake | `connection_table` by nonce, `listen` | dialling in `dht_lookup_update`, `receive_cb` for connection messages, `connection_timeout_cb` | `dht-client.c` |
| Calls | `session`, `call_dialog`, sensitivity of two buttons, `listen` | `call_start`, `call_stop`, `lookup_finished_cb`, `new_connection`, `dialog_run` | `application.c` |
| Media session | `on_hold`, keepalive timer, pipeline states | `launch`, `accept`, `destroy`, `bus_watch_cb`, `new_payload_type_cb`, `accept_cb` | `rtp-session.c` |
| Packet numbers | `roc` of a sink; `roc` and `seq_last` of every stream heard | `rtp_sink_render`, `rtp_src_create` | `rtp-sink.c`, `rtp-src.c` |
| Client objects | `app->client`, its port, `listen` and key; references held by the application and by results | `dht_client_new`, `dht_client_bind`, `dht_client_finalize`, results of `dht_client_lookup_async` | `dht-client.c` |
| Configuration, start-up, end | the files `user.cfg` and `user.key`, the key file in memory | `startup`, `application_run`, `config_apply` | `application.c`, `main.c` |
| Aliases | two tables of names | `editor_save` | `application.c` |

**How they interact.** The application calls `dht_client_lookup_async` and is
answered by a callback; it sets the property `listen`; it is told of incoming
calls by the signal `new-connection`. A lookup reads the routing table and every
message of a peer updates it. A lookup that meets its target turns its results
into connections; a connection ends by completing its result or by the signal.
Either hands a connected socket and two keys to the application, which makes a
media session of them. The session reports the end of a call by its signal
`hangup`. Its streaming threads reach the main loop in two ways only: bus
messages and the idle callback `accept_cb`.

**What is hard**, and what makes each component correct:

- *Routing table.* A long sequence of legal calls: fill, split, replace, lose,
  delete, hear again. Correct if each node is in the bucket of its identifier and
  there once, buckets are bounded, newcomers take the places of dead nodes and of no
  others, the counter does not wrap, and a search that never compares distances returns the nearest nodes.
- *Lookups.* Answers that are late, repeated, or come from another node than the
  one asked; a periodic lookup that replaces a user's. Correct if the counter
  that decides about failure agrees with the timers, the limit of concurrent
  requests is kept and used, every caller is answered once, and failure is
  reported only after an exhaustive search.
- *Handshake.* Lost, repeated and misdelivered datagrams, both sides calling at
  once, a timer racing an answer, keys stored before a step fails. Correct if a
  callee that has a session shares it with exactly the caller it believes in, and
  no key serves twice.
- *Calls.* `gtk_dialog_run` runs a main loop *inside* an idle callback, so that
  callbacks nest and dialogs stack, while `call_dialog` is one pointer; idle callbacks
  hold plain pointers; calls end in many ways. Correct if the user can always call and
  be called afterwards, with no dialog left in the way, every session can be ended, no session leaves hold without consent, and a session never falls
  silent.
- *Two users in a call.* The caller is in the call before the callee, the last
  message of the handshake may be lost, both may dial at once, and each end learns
  of the other's through media or silence only. Correct if no microphone opens
  unanswered, two users never have two calls with each other, and a call that one
  side has left ends.
- *Client objects.* Changing the port replaces the client while lookups of the
  old one are waiting, whose callbacks then act on the new one; binds, sockets and
  files may fail, and the process may be killed before a file is written. Correct
  if a client lives exactly as long as it is needed, the current client takes calls and
  a replaced one does not (it does after a call during a call, see `OneListener`), the
  configuration names the port that is held, and the identity of the user stays.
- *Packet numbers.* A 16-bit number whose high part each side counts for itself,
  with packets reordered around the roll-over. Correct if the two counters agree
  and no nonce repeats.

The list of hazards with their lines is in `PROJECT.json`.

## Modules

| Module | Models | Uses |
|---|---|---|
| `DhtId` | identifiers as functions from bit positions to bits, `Xor`, `Less` | |
| `RoutingTable` | the buckets as a data structure: `Update`, `Search`, `SplitLast`, `Aged` | `DhtId` |
| `Buckets` | the life of one routing table | `RoutingTable` |
| `Lookup` | the lookups of one client | `RoutingTable`, `LookupService` |
| `LookupService` | abstract: who asks is answered, once | |
| `Connection` | the handshake between any number of clients | `SecureCall` |
| `SecureCall` | abstract: what the handshake promises to the applications | |
| `Call` | application and media sessions of one user | |
| `Client` | the client objects of the application, composed with its calls | `Call` |
| `Talk` | two users who call each other | `Call`, twice |
| `RtpStream` | packet numbers of one direction of a call | |
| `LookupProofs`, `ConnectionProofs`, `RtpStreamProofs`, `BucketsProofs` | theorems | the module each is named after |
| `LookupOutcomeProofs` | theorems on what callers of a lookup are told | `LookupProofs` |
| `CallProofs` | theorems | `Call` |
| `ClientProofs` | theorems | `Client`, `CallProofs` |
| `TalkProofs` | theorems | `Talk`, `CallProofs` twice |
| `MC*` | small instances for TLC | the module each is named after |

Definitions keep the names of the code; `PROJECT.json` ("map") gives the lines of
each. Definitions marked "Mutant" are plausible mistakes used to confirm that a
property can fail; no specification uses them.

### RoutingTable, Buckets

A table is a record of `buckets`, a sequence of sequences of nodes with the head
first, and `num_peers`. Bit `i - 1` of an identifier is what bucket `i` decides
on. A node has an age instead of a timestamp: `Aged` makes all nodes older by one,
and `DHT_LINGER` units make the linger time of one hour; ages beyond it are the
same to the code. `Update` is `dht_client_update`: a known node is refreshed or,
when the address is the one that timed out, marked dead; a new one is inserted if
there is room, or takes the place of the last dead one. `InsertNode` counts the
node and splits as long as the last bucket is full. `SplitLast` does what the
splitting loop does, including that `g_list_concat(last, link)` leaves only the
last two of the moved nodes reachable (`LastTwo`) while `count` counts them all.
What a loop keeps of a list is `Only`, the elements of a set in their order.
`Search` returns the nodes and the table without the dead nodes it met on its way
before it had found enough.

`Buckets` has one action per kind of call: a peer is heard (`Heard`), a request to
it times out (`TimedOut`), somebody searches (`Searched`), time passes (`Tick`).

### Lookup, LookupService

State: `table`; `lookup_table`, a function from identifiers to lookups;
`connection_table`, the connections we asked for, by result; `status` and
`delivered`, what has become of each `GSimpleAsyncResult`; and `asked`, the
requests ever sent, which determines who may answer. A callback is one action:

| Action | Code |
|---|---|
| `Bootstrap` | `dht_client_bootstrap` |
| `RejectLookup`, `JoinLookup`, `StartLookup` | the three ways of `dht_client_lookup_async` |
| `Refresh` | `dht_client_refresh_cb` |
| `ServeLookup`, `ReceiveLookupRes` | `MSG_LOOKUP_REQ`, `MSG_LOOKUP_RES` of `dht_client_receive_cb` |
| `QueryTimeout`, `ConnectionTimeout` | the two timers |
| `ConnectionEstablished`, `DeliverFailure` | the callback of a result runs |
| `Tick` | the monotonic clock |

`LookupUpdate` and `Dispatch` are `dht_lookup_update` and `dht_lookup_dispatch`,
called from all of these as in the code. The walk of the dispatch is the set
`ToAsk` of positions it sends requests to. The sorted sequence is defined by what
sorting does (`Sortings`: the one sequence in the order of metric, and of arrival
among equals; `Resorted`: where an entry goes whose metric has changed), not by how
it searches. That the sequence is sorted therefore holds by definition and is no
property: what is checked is that it remains a permutation of the query table and
that the walk along it stops where it should. `DHT_TIMEOUT_MS` has no numerical meaning:
a timer fires at any time while it is armed. Peers answer with any sequence of at
most `MaxReply` existing contacts, ourselves included, and may be at another
address, or have another key, than the contact says.

`LookupService` is the promise of `dht_client_lookup_async`: a call is answered
with a connection or a failure, once, and the answer stays. `Lookup!Serves` is the
refinement, liveness included: a result is owed from the call to its callback, and
what it was told is what was delivered.

### Connection, SecureCall

A node stands for its key pair, its identifier and its address. `net` keeps every
datagram ever sent; receiving one leaves it there, which covers loss (never
received), delay, reordering and repetition. Nonces are fresh, and keys are
records of the inputs of `dht_key_derive`, equal only if these are. All nodes
share one `connection_table`, in which every entry has an owner: nonces are unique
and `Filed` lets a node see its own entries only. `Dial` is the part of
`dht_lookup_update` that creates a connection; its address may be another node's,
since a lookup's answer can be out of date. `ResponseFails` is the early exits of
the response's handler after it has stored keys. The clients keep to the protocol.

`SecureCall` says what an application may rely on: a call is opened by one caller
for one callee with keys no other call has; the callee, and nobody else, may join
it once. `Connection!Implements` is the refinement: the sessions of callers are
the opened calls, those of callees the joined ones.

### Call

State: `session` is `app->session`; `sessions` the objects with the life of each
(`unborn`, `live`, `freed`); `dialogs` the stack of dialogs on the screen;
`call_dialog` whether the pointer to the newest is set; `idle` the queue of idle
callbacks; `lookups` the number of unanswered lookups; the two buttons; `listen`.
`EndCall` and `CallStop` are `call_stop` after and with the test for a dialog.
`Accept` is `rtp_session_accept`. Buttons and the entry are covered by a modal
dialog. `NewPayloadType`, on the streaming thread, requires the receiver to be
enabled and queues `accept_cb`. `VideoError` is the branch of `bus_watch_cb` that
drops video and goes on; it stops the transmitting pipeline and is confined to the
time before the call is accepted.

A dialog has the `response` its loop has been given, if any. `Looping` says that the
innermost loop runs idle callbacks: an answered dialog ends its loop first.
`DialogRun` pushes a dialog; those below are `covered` from then on, which the
properties speak of and no action depends on. `DialogReturn` is the code behind
`gtk_dialog_run`; what becomes of the dialog is `DestroyDialog`: `application.c:140`
destroys whatever `app->call_dialog` points to, which is the dialog that returns
unless another was run inside it. That one has set the pointer to null by then, and
the outer dialog stays on the screen as `returned`: it is modal and keeps the grab,
its loop has ended, its buttons do nothing, and `call_stop` cannot find it. It goes
away when the user closes it (`Dismiss`), which GTK does without the application.

`Respond` is possible while a dialog runs even if it has been cancelled: the
hangup and the click may be dispatched in one iteration of the dialog's loop, and
the later of the two is what `gtk_dialog_run` returns.

`Reachable` is what a user is left with when no call is on: the client listens, the
buttons are back, and no dialog is in the way, but such as had another one over
them (disagreement 2).

Nothing keeps a peer from calling while a call is on (`listen` stays set), so the
model allows it, and `overlapped` remembers that it has happened: the properties
the code keeps only without it say so. `AcceptCb` of a session that is gone is
undefined behaviour; its outcomes are that the type check refuses the pointer, or
that the callback accepts a live session whose memory it is now.

### Client

The variables of `Call` with the same actions, for the current process, and what
surrounds them: `clients`, the client objects, each with its `ref_count`, socket,
port, `listen`, key, and the results it owes (`pending` in a lookup or a
connection, `failed` in the idle queue); `app_client`; `client`, the pointer that
`application_run` got; the port in the configuration in memory (`config_port`) and
in the file (`config_file`); and `key_file`. Two variables are histories: `identity`
is the user's identity, set anew only by a start that could not read the key file or
that follows one which could not write it, and `unsaved` says that the key of the
present or last process was not written. `listen` of `Call` is what the
application last wrote, always to the current client; every step of `Call` goes
through `Listening`, which writes it there.

| Action | Code |
|---|---|
| `Start` | `startup`, `application_run`, `application_startup`; the bind may fail. `LoadConfig` and `LoadKey` are the two files, which may be missing, unreadable, or not written: defaults and a new random key then take the place of what was there |
| `CallStart`, `Fail`, `DeliverFailure`, `DeliverConnection` | a result and its reference, from `dht_client_lookup_async` to the callback |
| `NewConnection` | the signal, of whichever client emits it |
| `ConfigApply` | `config_apply`: `Replace`, `Leak` (no socket), or `Keep` (same port, or it cannot be bound) |
| `Quit`, `Crash` | the end of `application_run`; the process is killed |
| `CallStep` | everything else of `Call` |

A port is taken while a client of ours that holds it lives (`CanBind`), so that
going back to the previous port fails as long as the replaced client owes a
result. Failing for another program's sake is always possible.

`OneListener` excuses a replaced client that takes calls only if `overlapped` is set,
a peer having called during a call, and only while it owes a result. The history
is not reset before the process ends, because neither is what it stands for: a
session that was pushed out of `app->session` lives on without an owner, and its
hangup, at any later time, sets `listen` while a lookup of the current client is
waiting; a change of the port then replaces a client that listens.

### Talk

Two instances of `Call`, `A` and `B`, with variables of their own, and what is
between them. `Connection` shows what the handshake guarantees; here there is
left of it what the applications can see: `requested` and `offered` count the
requests and responses on their way, `confirming` holds the callers' sessions
whose confirmation is on its way, `joined` the calls that both ends are in. A
request is served by a client that listens (`Offer`), and the confirmation is
taken by one that still or again does (`Join`). Of the media there is left `spoken`, the ends
that have ever sent any: the first of it is what `NewPayloadType` hears (`Hear`).
An end whose peer's session is gone, or has never been, stops hearing anything and
`rtp_src_create` fails once (`Silence`); any pipeline may fail at any time (`Break`).
`Dismiss` and the other actions of the dialogs are those of `Call`, for one user.

### RtpStream

A packet is its SSRC, its 16-bit number and the roll-over counter that went into
its nonce. The receiver's guess `RollOver` is the logic of `rtp_src_create`, and
`Receive` is possible if the guess makes the authentication succeed. `Half` stands
for 0x8000, `RocLimit` for 2^48. Packets may be lost, repeated and reordered
without limit.

## Runs

`tlc -config X.cfg M` in this directory. The longest, `lookup` and `talk`, take
two to three minutes.

| Run | Shows |
|---|---|
| `lookup` | two callers and a periodic lookup for one identifier, and a restarting peer: `TypeOK`, `NoStalledLookup`, `NoIdleSlot`, `ResultOwned`, `CompletedOnce`, and `Serves`: the lookups implement `LookupService` |
| `lookup_wide` | more peers than `DHT_NODE_COUNT`: `SourcesCounted`, `ConcurrencyBound`, `FailureIsExhaustive` |
| `connection` | `TypeOK`, `KeysUnshared`, `HandedOverOnce`, `CalleeHasCaller`, `CallerMatchesFile`, and `Implements`: the handshake implements `SecureCall` |
| `buckets` | `TypeOK`, `NodesInTheirBucket`, `NoPeerTwice`, `PeersNeverUnderflow`, `SearchNearest`, `BucketsBounded`, `OnlyDeadReplaced` |
| `buckets_counter` | violated: `PeersCounted` |
| `call` | `TypeOK`, `Reachable`, `KeptAlive`, `OneCall`, `HeldUntilAnswered`, `Announced`, with overlapping calls and stale callbacks |
| `call_answer` | violated: `AnswersShown` |
| `call_accept` | violated: `AcceptsSession` |
| `client` | `TypeOK`, `Referenced`, `OneListener`, `Configured` |
| `client_quit` | violated: `CleanupReleases` |
| `talk` | `TypeOK`, `NoCrossedCalls`, `SpeaksAfterAnswer`, `EndsTogether` |
| `rtp_stream` | `TypeOK`, `StreamFollowsSink`, `NearPacketsVerified`, `NonceFresh` |

**Bounds, and why they are enough.**

- *Buckets*: identifiers of 4 bits, buckets of 3. Three is the smallest bucket
  whose split can move more nodes than two. `MCCrowd` has four peers in our half of
  the identifiers, one of them with two addresses, and one that shares two bits with us:
  the first bucket splits, the second fills and splits too.
  `MCPeers` has one more in the other half, which competes for the place of dead
  nodes. A linger age of one unit gives live, dead and deletable nodes.
- *Lookup*: identifiers of 2 bits; two results, so that one can join the other's
  lookup or both get a connection; `DHT_CONCURRENCY` 2 with `DHT_NODE_COUNT` 2; the
  target of the user's lookups is also the identifier the periodic lookup draws.
  One of the two peers restarts as the target, so that the metric of a query
  changes and its lookup may be answered by the node it looks for.
  `lookup_wide` has identifiers of
  3 bits and three peers, none the target, with one request at a time, so that
  queries wait for a slot, and a bootstrap. `MaxReply`, one, bounds answers: longer
  ones only save the exchange of some messages. `RefreshTargets` bounds what a
  periodic lookup draws.
- *Connection*: three nodes with four nonces: two complete calls, in either
  direction or at once, or a request that is answered more than once, or one that
  reaches a wrong node. No bound on the number of times a datagram is received.
  Symmetry in nodes and nonces is sound: they are only compared.
- *Call*: three sessions, two lookups (`MaxLookups`). Two calls can overlap while
  a third is the next, and three dialogs can be on the screen. Sessions are not born
  again, so an instance sees three calls of a user's life in every order.
- *Client*: three objects, so that a replaced client that owes a result, its
  successor and a third one exist at once; their memory is used again, which makes
  the number of replacements and restarts unbounded. Two ports, going back and forth; two
  keys; two lookups, two sessions. Symmetry in objects, sessions and keys is
  sound: they are only compared. It is used with invariants only.
- *Talk*: two sessions and one unanswered lookup for each user. That is enough
  for crossed dialling, an incoming call during a call, and a call after another;
  with two lookups each, 460528 states, everything holds as well. Two sessions are
  too few for one thing: that both users are called during a call *and* have two
  live calls with each other afterwards, which takes four each. It is possible then
  (disagreement 2), and `NoCrossedCalls` therefore holds until both have been called during a call.
  `TalkProofs` covers any number of sessions and lookups.
- *RtpStream*: half a range of 3 and two full roll-overs (`RocLimit` 2), from two
  starting numbers, one of which is next to the middle of the range.

`CHECK_DEADLOCK` is on in every run; no model stops.

`HeldUntilAnswered` and `SpeaksAfterAnswer` except the stale `accept_cb` of an earlier
call, which can take a held session off hold: the consequence of the third
disagreement below. `SpeaksAfterAnswer` also excepts a caller who says yes to the
dialog of a call that is over: `dialog_run` is queued with the application, not
with a session, and shows whatever session there is when it runs
(`application.c:128`).

## Fairness

`Lookup!Fairness` is weak fairness of each query timer, of each connection's timer
and of the idle callback of each failed result. GLib runs a source that is due,
and these sources stay due until they run or are removed. Nothing is assumed of
the network, of peers or of the user, so `Serves` holds even if no
datagram is ever received.

`Call!Fairness` is weak fairness of the idle queue and
of the return of an answered dialog; users need never answer, and `Announced`
holds nonetheless: it says that the dialog is shown or that the call is over.

`Talk!Fairness` is the same for both users, and weak fairness of `Silence`: the
timeout of one second of the receiver's socket (`rtp-src.c:200`), which stays due
as long as nothing comes from a session that is gone. Nothing is assumed of the
network: confirmations may be lost, and answers need never come. `EndsTogether` ends in one of two ways because of the race
described under `Respond`: the hangup cancels a dialog that is
answered with yes in the same iteration, the session is accepted, and since the
receiver has stopped, nothing reports the silence again. The user has to press
the button, as always.

## Proofs

`tlapm M.tla` for each of the eight `*Proofs` modules. Each proves everything from
nothing within one to three minutes. The assumptions are
the named `ASSUME`s of the modules, and TLC evaluates them in the runs:

| Assumption | Says |
|---|---|
| `IdBitsAssumption`, `RoutingTableAssumption` | identifiers have bits, ours is one of them, buckets have room, the linger time is positive |
| `BucketsAssumption` | peers are contacts other than ourselves; a bucket is not of one node only |
| `LookupAssumption` | the same of peers, addresses are finitely many, the concurrency is positive |
| `CallAssumption`, `TalkAssumption` | `NoSession` is not a session, lookups are bounded by some positive number |
| `ClientAssumption` | the same, and the like for clients, ports and keys |
| `RtpStreamAssumption` | half a range and the limit of the counter are positive |

`Connection` needs none. A bucket of one node (the code has 16) would be split
until the last bit and once more, so that the number of buckets would exceed that
of bits.

**LookupProofs.** `IInv` is the type invariant, the agreement of the counter, its
two bounds and the ownership of results, together. They depend on each other: the
bound on armed timers is a bound on `num_sources`; that a dispatched lookup is not
stalled follows from the counter being the number of armed timers, which are
those the walk leaves armed; the walk's count of what it sends is a cardinality
of positions and equals one of addresses only because the sequence repeats none,
which is part of the type invariant. The lemmas follow the code's structure:
what `Ask`, `Insert`, `Answered` and `Expired` do to a lookup, then
`LookupUpdate` and `Dispatch` for any lookup that satisfies the part of the
invariant for one lookup, then one step per action. `Invariant` gives
`TypeCorrect`, `Counted`, `Bounded`, `NeverStalled`, `NeverIdle` and `Owned`.
`NeverIdle` is about the walk of the dispatch, which stops when all slots are taken
or behind `DHT_NODE_COUNT` live nodes: whatever was waiting and is not sent is behind
either, and whatever settles a request or adds one is followed by another walk.

**LookupOutcomeProofs.** What is owed and what was told, from `IInv` and one more
invariant: only outcomes are delivered (`ToldOutcomes`). `ResultsMove` says of
every step that it completes results that are queued or connecting, takes a new
one, or runs the callback of one that has its outcome. From it follow `ToldOnce`,
and `Implements`: every step is a step of `LookupService` or none, which is
`Serves` without its fairness. `FailsExhausted` follows the failing step backwards:
`Dispatch` gives up with a count of zero, so that the lookup before the step waited
for the settled address at most.

**ConnectionProofs.** The properties are not inductive, because what a received
datagram proves depends on who can have sent it. The inductive invariant says of
each datagram on the net, and of each connection on file, whose state it came
from: a response carries keys derived from the nonces that the callee's entry or
session is filed under; a confirmation is sent by a caller that has a session. From
it follow `Agreement`, `FileMatches`, `Unshared` and `Once` for any number of
nodes, nonces and repetitions, and `Refinement`: every step opens one call, joins
one, or is a stutter.

**RtpStreamProofs.** The invariant says that every packet sent lies before the
number of the sink's next packet, and every stream's state is the number of a packet
that was sent. `RollOverCorrect` is arithmetic: for two numbers less than half a range apart,
comparing their low parts with `Half` recovers the high part. `Fresh` follows
because a packet's number is not below that of any sent before.

**BucketsProofs.** The inductive invariant `Good` describes the table by ranges of
identifiers: bucket `i` holds nodes that agree with us in the first `i - 1` bits,
and unless it is the last one they differ from us in the next. With it go: no node
twice, the bound of a bucket, room in the last one, and a counter that is not too
small. The last two do not hold between the turns of the split loop; there `Sound`
holds, and `TurnStates` relates the loop's own count, of all nodes that were moved,
to the last bucket, which keeps two of them: the count is not below its length, and
a count of two or more comes with two nodes or more. With two different nodes,
neither of them ourselves, there is a bit left to split by, so that the loop ends
before it runs out of bits (`BucketsBounded`). Recursive functions and folds (`SplitBuckets`, `FlattenSeq`)
are followed by induction over a *set* of numbers (`Reaches`, `Iterated`), which
needs no operator as a parameter. A search is described by an enumeration of what
it visits (`Enumerates`, `Walks`): which bucket and which place in it each node
came from. `BeforeIsNearer` is the argument that it need not compare distances: of
two buckets, the first bit in which their nodes differ decides both the order of
visit and the order of distance. `ReplacedRightly` needs of `dht_client_update` what
becomes of live nodes (`LiveKept`) and of the newcomer (`Holds`, `FullOfLive`); where no
bucket splits, both follow from the one place the step writes to.

**CallProofs.** `IInv` adds to the properties what makes them inductive: a session
on hold has heard nothing and sends no media, and an `accept_cb` in the idle queue
is of a session that has heard something (`HeldIsDeaf`); the shape of the stack of
dialogs, of which the newest alone is answered or uncovered, and the pointer that is
set if it is uncovered (`Stacked`); without a session there is
nothing to stop and no dialog to cancel; and as long as nobody has called during a call, who may dial is in
no call and waits for none, while who waits is deaf (`OneAtATime`). `Reachable` is
the reason for most of these: the ways a call can end meet in `call_stop`, and what
it gives back must fit what the user was doing. There is one lemma per action.

**ClientProofs.** The calls are an instance of `CallProofs`, so that a step of them
needs no second proof. What is new is the count: the lookups the application
waits for are shared out among clients (`Shares`, a finite set of debts each with
one client), and a client has a reference for each result it owes. A callback thus
always finds its client alive, and a replaced client is gone with its last result.
The same count shows that a replaced client is connected only while it owes a
result (`ListensOnce`). `ConfigurationTrue` follows the identity through `LoadKey`,
`Successor` and the ends of a process.

**TalkProofs.** Two instances of `CallProofs`, with what is between them: who waits
for a lookup has a request or a response on its way (`Waiting`); a call has an end
of each user, an end is in one call, and a caller whose confirmation is on its way
is in none (`Paired`); media was sent by who is not on hold, and is heard from the
other end of the call only (`Heard`). `NeverCrossed`: a user who was not called
during a call has one live end, by `OneCall`, and the end determines the call. `AnswerFirst`: the
media that takes a caller off hold was sent by an end that is off hold, which
`Heard` and `AcceptedLasts` keep so.

**Only model-checked**: liveness (`Announced`, `EndsTogether`, and that of `Serves`),
which is out of the prover's reach: it rests on fairness and ENABLED. Every
other property of a passing run is a theorem.

## Disagreements found

1. *`dht-client.c:500`, run `buckets_counter`.* A split is to "Redistribute
   nodes" (`dht-client.c:494`), but of more than two moved nodes only the last two
   stay in the table. "Number of peers" (`dht-client.c:207`) counts them all for
   the rest of the client's life. Everything in `buckets` holds
   regardless: lost nodes may be heard again and are entered once.
2. *`application.c:165`, run `call_answer`.* The dialog asks "Answer an incoming
   call from <b>%s</b> ?" (`application.c:136`). While it is open, `listen` is
   still set; a second caller's session replaces the first, and *yes* accepts it.
   The first session stays alive without an owner, which is why `OneCall` and
   `Announced` speak of users whom nobody has called during a call. It also still
   reports when its peer hangs up, and `call_stop` (`application.c:101`) then ends
   whatever the application is doing: a user who is dialling listens again, and
   the button to dial is enabled again. After this has happened to two users, they may
   dial each other and end up with two calls, which is why `NoCrossedCalls` is
   limited too. The second dialog is run inside the first, and leaves the first one on
   the screen: when the inner dialog returns `call_dialog` is null, so that
   `application.c:140` destroys nothing when the outer one does, and `call_stop` cannot
   cancel it before. It covers the window, with buttons that do nothing, until the user
   closes it; `Reachable` therefore leaves out dialogs that had another one over them.
   Dialogs nest without a call during a call too: a call that ends before its
   `dialog_run` has run leaves the callback in the queue, and the next call is then
   announced twice, the second time over the first.
3. *`rtp-session.c:393`, run `call_accept`.* `accept_cb` waits in the idle queue
   without a reference to the session and is not removed when the session is
   destroyed; the assertion `g_return_if_fail(RTP_IS_SESSION(session))`
   (`rtp-session.c:274`) is then evaluated on freed memory.
4. *`application.c:669`, run `client_quit`.* The block headed "// Cleanup"
   (`application.c:654`) ends with `g_object_unref(client)`, the argument of
   `application_run`. After `config_apply` has replaced the client, which drops that
   reference itself, the current client is `app->client`: the argument is dropped
   twice, and the current one never.
5. *`main.c:49`, without a run.* "Upon first startup a new key is generated and saved"
   (`README.md:33`). The error of `g_file_get_contents` is dropped: a new key is made
   at any startup that cannot read the file or finds another length in it, the file is
   replaced, and the result of writing it is not looked at. The user then has another
   identity without being told. `LoadKey` does the same, and `Configured` says when the
   identity stays.

## What is not modelled

- *GStreamer pipelines, sound, bitrates, video recovery inside the elements*: elements of
  external libraries; the parts of the sessions' life they can observe are in `Call`.
- *Ciphers, hashes, base64, address serialisation*: pure conversions; the models
  need only that equal outputs come from equal inputs. Clients that do not keep
  to the protocol are outside the model.
- *Aliases*: a text file parsed into two hash tables, sequential text handling. A
  name given to two identifiers is shown for both and dials the one that comes
  last, as the file says.
- *The label that shows the number of peers*: after a replacement it is bound to
  both clients; a client that owes results writes it until it is gone.
- *Port 0*: asks for any port, and the models' ports are ones that were asked for.
- *Quitting under a dialog*: the dialog is modal and covers the window.
- *Calls of a replaced client*: while it owes a result, a replaced client still
  answers lookups of others, which `Client` leaves out. That it takes no calls until
  somebody calls during a call is `OneListener`; afterwards it may, and `Client` has
  its `NewConnection`.
- *Errors of `g_socket_send_to`*: logged and ignored by the code, the same as loss.
- *Exhaustion of the 2^48 counter*: `RocLimit` bounds the model; the code reports
  an error that no call reaches.
- *GLib compatibility header, launcher, packet dissector*: no behaviour of the
  program.

`Client!Referenced` leaves out a client whose socket could not be made: with
neither error nor socket, `config_apply` drops nothing (`application.c:312`), and the object
stays, without a port and without ever owing a result. `Talk` leaves out video
errors, which do not reach the other end.

## Plan

Modules were written in the order of their weight: routing table and lookups,
handshake with its abstract specification, calls, packet numbers, then client
objects and the composition of two users. Every invariant and action property
has its theorem. Left:

1. Facts about the operators that no property of a run needs yet: that `SplitLast` loses
   nodes exactly if more than two move, which bounds the error of `num_peers` by
   the splits, and that `Sortings` is not empty.
2. Absent overlapping calls and stale callbacks, that the session of a call is announced
   before it is accepted, as an invariant of `Call`.
3. A network of several clients, each with its `RoutingTable`: in a connected
   network without failures a lookup finds its target.
