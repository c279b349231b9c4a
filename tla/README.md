# Elephant: TLA+ models and proofs

Elephant is a push server. Clients keep a SPDY connection open with a *listen*
request; applications POST *push requests* to a server, which forwards them to
the client over that connection and reports the outcome (acked, timed out, not
sent) to a callback url. A server is a Node.js `cluster`: one **master** with
the application-facing API and several **workers** that hold the client
connections. Master and workers exchange IPC messages; everything durable
(client map, push requests, refresh counts, revoked ids) is in MySQL and shared
by all servers. The repository also holds the native programs around it: the C
clients that register, listen and acknowledge (`client/spdylay/client`), the
SPDY/HTTPS reverse proxy `shrpx`, the SPDY file server `spdyd` and the HTTP
parser they use (`client/spdylay/src`). All paths below are relative to the
repository (`src/...`).

## 1. Inventory

| component | state | operations | who talks to it |
|---|---|---|---|
| push API (`src/api/app/v2/push.coffee`) | `req.params.client`, the result of a lookup; push request row | look up, dispatch, validate, store, send to worker, undo | applications by HTTP; other servers; `SERVER_PUSH` to a worker |
| dispatch between servers (`src/push/dispatch.coffee`) | one HTTP request to a peer, its timeout | forward, answer, time out | push API of the peer |
| `SendPush` (`src/push/send.coffee`), `SpdyHandler.serverPush` | the push stream | write the stream, start the timer, failure path | IPC from the master, SPDY stream events |
| `PushTimer` (`src/push/timer.coffee`), `Session.pushTimers` | one timer per pushed request, in the `Session` object | start, fire, cancel, remove | `SendPush`, ack API |
| ack API (`src/api/v2/ack.coffee`) | - | cancel the timer, read the row, start a callback | clients |
| `PushCallback` (`src/push/callback.coffee`) | attempts, retry timer | POST with retries, delete the row | `SendPush`, `PushTimer`, ack API; the application's callback url |
| listen API (`src/api/v2/listen.coffee`), `SessionManager` (`src/model/session.coffee`) | `sessionMap`, `numSessions` per worker | validate, create session, notify master, close handler | clients; `ADD_CLIENT`, `DEL_CLIENT` to the master |
| client map (`src/api/appserver.coffee`, `src/model/clientmap.coffee`, `src/persistence/mysqlclientmap.coffee`) | table: push id -> client, server, worker | add (find, then insert or update), remove, get | master's message handler, push API |
| worker pool (`src/pool/poollayer.coffee`) | `cluster.workers` | fork, refork on exit, send messages | everything |
| push ids (`src/api/v2/register.coffee`, `refresh.coffee`, `src/common/validate.coffee`, `src/persistence/mysqlblacklist.coffee`) | tables: refresh count, revoked client ids, revoked push ids | register, refresh, validate, revoke | clients; admin API |
| router, request buffer, configuration, logging, statistics, memory profiling | none that outlives a request | | |
| in-memory storages, database set-up, v1 ack handler, AMQP RPC | test doubles, start-up code, superseded code and an experiment | | not used by the running servers |
| C clients (`client/spdylay/client/spdycli.c`, `scalecli.c`) | one `ThreadUri` per thread: client id, push id; one SPDY session; globals shared by the threads | register, refresh, listen, ack, reconnect | the push server |
| proxy, https side (`shrpx_https_upstream.cc`, `shrpx_client_handler.cc`, `shrpx_downstream*.cc`, `shrpx_io_control.cc`) | the current `Downstream`, reasons not to read, the pool of backend connections | read and write callbacks of both sides, error replies, next request | an HTTP client and a backend; libevent |
| proxy, SPDY side (`shrpx_spdy_upstream.cc`, `shrpx_downstream_queue.cc`) | the queue of `Downstream`s, data providers, window credit, the pool | frame callbacks, stream close, body buffer, flow control, tunnels | a SPDY client and backends; the spdylay session |
| SPDY server (`SpdyServer.cc`, `EventPoll_*.cc`) | handlers by descriptor, requests by stream, the deletion list | poll, accept, handshake, frames, files | SPDY clients; the kernel |
| HTTP parser (`http-parser/http_parser.c`) | `struct http_parser` | execute, pause, parse a url | the proxy |
| uri helpers (`uri.cc`, `util.cc`, `parse_uri` of the clients) | - | parse, construct, percent encoding | `spdycat`, the clients |
| CoffeeScript test clients, application server emulator, `spdycat`, `htparse`, examples | | | tests and tools |

What makes it hard:

* Handlers are `async.waterfall`s. Every function of a waterfall starts in a
  `setImmediate` of its own and every query answers in a later event, so other
  handlers run between any two steps, with whatever the first step read.
* Three parties - the client's ack, the timer and the failure path - compete
  for each push request, and each of them reads the row and starts a callback.
* The timer is in the memory of one process and in one `Session` object; the
  row is in MySQL. A worker that exits takes the first with it and leaves the
  second; a client that reconnects gets a new `Session`.
* The client map is maintained by messages from several processes and by
  queries that run on a pool of connections; the push API uses an answer long
  after it was read.
* Servers look the same client up one after the other while it moves.
* In the native programs callbacks delete the objects that other callbacks hold
  pointers to: streams close from inside a send, handlers are deleted while
  events for them are pending, backend connections go to a pool and come back.
* Bytes arrive in any pieces: an answer in two chunks, a header cut in the
  middle, the next request behind the current one.

What makes each component correct:

* push delivery: a stored request is never forgotten; the application is told
  something before it is deleted; acks, timeouts and failures of one request
  exclude each other as far as the code promises;
* registry: after things settle, a client can be found exactly if it is
  connected; counts agree with contents; one entry per client;
* push ids: no increment is lost, the client ends up with a valid id, replaced
  and revoked ids are refused;
* dispatch: a request is forwarded once, pushed once, and answered truthfully;
* C clients: a client that has its push id keeps it and listens once per session,
  and a push finds the listen request it belongs to;
* proxy: one answer per request, no answer mixed with another, no pointer to a
  deleted object, no client or backend left unread, no window credit lost;
* SPDY server: no event for a deleted handler, no file closed twice, kept or
  confused with another that has its number;
* parser: the callbacks depend on the message and not on how it was cut.

## 2. Modules

| module | models |
|---|---|
| `PushDelivery` | the core: the life of a push request in one server, from the lookup to the deletion of its row |
| `PushPromise` | the abstract specification `PushDelivery` implements: a push request as its application sees it |
| `PushDeliveryProofs` | theorems about `PushDelivery` and the refinement of `PushPromise` |
| `PushDispatchProofs`, `PushIdRefreshProofs`, `ClientRegistryProofs`, `SpdyClientProofs`, `SpdyServerProofs`, `ShrpxSpdyProofs`, `ShrpxHttpsProofs` | theorems about the modules they are named after |
| `ClientRegistry` | sessions, `ADD_CLIENT`/`DEL_CLIENT`, client map queries, lazy removal |
| `ClientDirectory` | the abstract specification `ClientRegistry` implements: the client map as the push API may count on it |
| `PushIdRefresh` | register, refresh, validation and revocation |
| `PushDispatch` | a request among several servers |
| `SpdyClient` | the threads of `spdycli` and `scalecli` |
| `ShrpxHttps`, `ShrpxSpdy` | the proxy, for one https and for one SPDY client |
| `SpdyServer` | the event loop of `spdyd` |
| `HttpParser`, `HttpUrl`, `Uri` | `http_parser_execute`; `http_parser_parse_url`; `uri::parse`, `uri::construct`, percent encoding and `parse_uri` |
| `HttpMessage` | the reference for the parser: messages by their parts, the bytes that write them and the callbacks they stand for |
| `MC...` | the instances TLC checks |

Each module that is checked has its type invariant `TypeOK` where the state is
more than the input of a function; it is part of the inductive invariants that
are proved and no property of a run.

In the modules about the push server one action is one uninterrupted run of
JavaScript in one process, or one query executed by MySQL together with
the callback that uses its answer; in the native ones it is one callback of the
event loop or one frame. Names follow the functions of the code.

### PushDelivery

`api`, `target`, `undo` are the push API handler (`getClientInfo`, `validate`,
`createPushRequest`, `sendPushRequestToWorker` and the two deletions after a
failed send). `push`, `psess` are `SendPush.handle` and the `Session` object
the push was written to; `fail` is `_handleFailure`. `timer` is the
`PushTimer`: *armed*, *fired* (the timeout was reached, the waterfall has not
removed the entry yet), *cancelled* by an ack, *overtaken* (an ack removed the
entry after the timer fired), then the waterfall of `onTimeout`. `ack[r][a]` is
the handler of one ack message and `cb[r][k]`, `att[r][k]` the `PushCallback`
that initiator `k` (an ack, `"timeout"` or `"failure"`) started and the POSTs it
issued. `told`, `stopped`, `fault` are history variables used by properties
only.

The environment: clients connect to any worker, disconnect, and send acks over
any open connection; workers exit and are forked anew under a new id; the
client map changes by the `ADD_CLIENT`/`DEL_CLIENT` of any session at any time,
which is weaker than what `ClientRegistry` says of it. Queries may fail
(`DbMayFail`). Whether one push stream may emit both `'finish'` and `'error'`
is decided by the SPDY library, which is not in the repository; the constant
`BothStreamEvents` covers both answers.

`SocketClose` deletes the client's *current* session, as `deleteSession
(session.clientId)` does, even if the closed socket belonged to an earlier one.
`RemoveTimer` goes on in both cases: `Session.removePushTimer` tests `not
requestId of @pushTimers`, which CoffeeScript compiles to `!requestId in
pushTimers`, so it never returns false.

### ClientRegistry

`lst[n]` is the listen handler of connection `n`; `chan[w]` the ordered IPC
channel of worker `w`; `ops` the queries under way, which take effect in any
order. `ClientMap.add` is two queries. `Insertable` is the table's two keys
(`pushid` primary, `clientid` unique). `look` and `lazy` are what a push API
handler read and is about to delete: a push whose lookup succeeded may still be
refused by `validate` or fail to be stored (`GiveUp`) before it reaches the
worker, and the deletion may fail, which is only logged (`LazyRemoveFails`).
`CloseMissed` is a socket that closes
while the listen handler has not yet registered its `'close'` listener.

### ClientDirectory

The directory by push id, which connections may still enter it (`due`), which
closed ones may still be struck out (`owed`), which workers have exited, and
what pushes were told (`asked`, `doubted`). A connection is entered once at most,
never beside an entry of its client under another push id; an entry is struck
out once for each closed connection of that push id, or by a push that was told
of a worker that has exited. It does not say that the entry struck out is that
of the closed connection: after a reconnection it may not be. `KeepsDirectory`
(`Directory == INSTANCE ClientDirectory WITH ...` in `ClientRegistry`) says that
sessions, channels and queries, which are all gone in the mapping, behave so.

### PushIdRefresh

A push id is a hash over client id, salt and refresh count, so for one client
it is the refresh count (different counts give different ids). `FindCount`,
`CreateCount`, `IncrementCount`, `GeneratePushId` are the queries of a refresh;
`findOrCreate` of a first refresh may lose against another one and then fails
on the primary key.

### PushDispatch

`Visits` numbers the servers a request visits: 0 is the one the load balancer
chose, 1 the peer it was forwarded to; 2 must never happen. `Contains` is the
substring relation between server ids that `indexOf` tests. A server of
`Silent` may stop at any point; `UpstreamFails` is the timeout of the forwarding
server (504) or a broken connection (502), at any point of the peer's progress.

### PushPromise

Four variables per request: is it stored, what was the caller answered, which
outcomes were reported, was the last attempt to report one made. A stored
request may be forgotten only after a refusal, a report, or the last attempt at
one; at most one ack is reported; nothing is reported of a refused request. The
mapping (`Promise == INSTANCE PushPromise WITH ...` in `PushDelivery`) takes
them from the table, the state of the API handler, `told` and the attempts
counted in `att`; `KeepsPromise` says that the mapped behaviour is one of
`PushPromise`.

### SpdyClient

`program`, `mode` and `backoff` are the command line, chosen initially. `th[t]`
is the `ThreadUri` of a thread with its ids, `session[t]` the spdylay session
(queued requests, open streams, pushes received), `inbox` and `srv` the
connection and the server's side of it. The server accepts, refuses, answers in
one or two chunks, pushes, closes. An answer may be cut before the keys, or in
the push id: `getPushId` then looks for the closing quote behind the chunk, and
what it stores is a truncated id (`Cut`) or nothing. A client id is `<<t, n>>`: made up by the
thread (n = 0) or issued at its n-th registration; a push id carries the client
id it was issued with, so that ids of different answers can be told apart.

### ShrpxHttps

`px` is the proxy's state for one client: handler, parser, the current
`Downstream` with its connection, the set of reasons not to read (`rdbits`), the
pool. The callbacks are operators from `px` to `px` that call each other as in
the code (`on_read`, `htp_hdrs_completecb`, `https_downstream_readcb`,
`next_request`, ...). Bytes are cut into the pieces the parsers tell apart. A
callback that runs a parser sets `pc`; the actions `ParseRequest` and
`ParseResponse` then feed that parser one piece at a time and, when it is paused,
has failed or has read everything, run the rest of the callback
(`on_read_executed`, `https_downstream_readcb`). No other action is enabled in
between, so a callback is still executed to its end. The states in between are
those the parser's hooks really see, and a proof needs no induction over the
buffer. `Asserts` says whether `http_parser.c` is compiled with its assertions:
with them, unpausing a parser that has failed aborts the program (`handler =
"aborted"`), without them it does nothing. The runs have them, as a default build
does; the proofs cover both.

The backend answers, garbles, closes or fails at any time, before it has the
request too, and the proxy's own timeouts and an asynchronous connect failure
come at any time after `attach_downstream`. Two history flags of the current
request say what the properties depend on: `early`, its backend connection had
an event before the request was complete, and `surplus`, bytes came behind a
complete answer. The model assumes one head per answer: an interim answer (1xx)
before the final one is left to `ShrpxSpdy`.

### ShrpxSpdy

`stream` is what the spdylay session keeps of a stream, `down` its `Downstream`,
`conn` the backend connections, `pool` the pool. `pc` says which library call is
running: `session_recv`, `session_send` and `http_parser_execute` call back
several times, and the second one closes streams and so deletes downstreams. A
read of a backend (`spdy_downstream_readcb`) is a sequence of parser callbacks,
one per piece of the answer, during which `reading` names the connection; it
ends after any of them, or with a piece the parser rejects, and `send()` follows.
Uploads, window credit and bodies are counted in pieces. An answer may begin with
an interim (1xx) head, which `htp_hdrs_completecb` makes a complete message;
`owed` counts the answers a backend still has to give on a connection, and
`interim` remembers such a head.

### SpdyServer

`fdtab` is the kernel's descriptor table (the lowest free number is handed out),
`poll` the handler registered for each descriptor, `batch` the events of the
current poll, `del_list` the handlers to delete. `stream[c][s]` has the file of
the `Request` (`file`), the descriptor in the queued data provider (`src`), and
what was promised and sent. Both event backends are in the initial states; kqueue
may report a descriptor twice in a batch. `HangupAlone` names the handlers for
which epoll may report a hang-up without readable data. That the accept handler
is not among them is an assumption of the module: on Linux a TCP socket that
hangs up is readable as well. The proofs need it, because the accept handler's
destructor closes the descriptor only after a failure that its own callback has
seen.

### HttpParser, HttpUrl, Uri, HttpMessage

A byte is a step of `HttpParser`; a call of `http_parser_execute` begins and
ends at any byte, a callback may pause or fail, at the end of the file too, and
the end may be reported again (`MaxEofCalls`). Bytes are characters or
character classes, and the header names that are compared letter by letter are
abbreviated to what tells them apart. `HttpUrl` is the state machine of urls
with `http_parse_host`. `HttpMessage` is written from the grammar and shares
nothing with the parser: a message is a record of its parts, and `Input` gives
its bytes and the callbacks, with the range of bytes each one is to get.

## 3. Runs

| run | instance | what it shows |
|---|---|---|
| `push_race` | 1 request, 3 connections and acks on 2 workers, 1 worker exit, failing queries, 1 retry (705,000 states) | `RowHasOwner`, `SingleAck`, `FailureIsFinal`, `ToldBeforeDeleted`, `AckInTimeSettles`, and that `PushDelivery` implements `PushPromise` (`KeepsPromise`) |
| `push_settles` | fair, 2 connections, a worker exit, failing queries, a push stream that may emit both events (118,000) | every stored request is eventually deleted unless its worker exited, a query about it failed or the application never answers a callback it accepted (`RequestsSettle`) |
| `registry` | 3 connections of one client under 2 push ids on 2 workers, a worker exit, failing queries, refused pushes, fair deletions (834,000) | `LoneClientSettles`, `SessionsCounted`; an entry naming an exited worker does not outlive the pushes that go on meeting it, unless the deletions go on failing (`DeadEntryIsDropped`); `ClientRegistry` implements `ClientDirectory` (`KeepsDirectory`) |
| `refresh` | 3 refreshes and a listen request of one client, revocations, failures (475,000) | `NoIncrementLost`, `ClientHoldsValidId`, `SupersededIdRefused`, `RevokedIsRefused` |
| `dispatch` | fair, 2 requests among 3 servers, 2 moves, silent peers (14,000) | `AtMostOneHop`, `AnswerIsTrue`, `EveryRequestAnswered` |
| `spdy_client` | both programs in every mode, 2 threads (1 where it registers and listens or refreshes), 1 reconnection, 2 pushes to one client or 1 to each (1,391,000) | `ExactlyOneListen`, `NeverRegistersAgain`, `PushFindsListen` |
| `shrpx_https` | fair, 2 pipelined requests of 3 kinds, malformed bytes on both sides, backend events at any time (1,410,000) | `StopsOnlyInUpload`, `OneReplyPerRequest`, `OneBackendConnection`, `AnsweredBeforeNext`, `ReadingResumes` |
| `shrpx_spdy` | 2 streams, one with an upload that fills the window, one that may be a tunnel, interim heads, 2 backend connections (1,552,000, connections symmetric) | `ConnectionsOwned`, `DataSourceAlive`, `PooledAnswerRead`, `PausedHasBody`, `CreditConserved` |
| `spdy_server` | 2 connections, 2 streams and 1, 3 descriptors, epoll and kqueue (2,246,000) | `NoStaleHandler`, `ConnectionServed`, `FilesOwned`, `ServesItsFile` |
| `http_parser` | every way of cutting 65 inputs, pauses and failing callbacks, 2 calls at the end of the file (117,000) | `CallbacksExact`, `UrlFieldsExact`, `AssertionsHold`, `InputIsConsumed` |

Two runs state a sentence of the source and show a behaviour that contradicts
it:

| run | sentence | behaviour |
|---|---|---|
| `push_back_out` | "if timer already removed then push already acked so we do not continue and back out of timeout handling" (`timer.coffee:93`) | an ack handled after the timer fired and before `_removeTimer`: the application gets 200 and 504 for one request |
| `shrpx_https_early` | "downstream can be NULL here", said of the other branch only (`shrpx_https_upstream.cc:259`; :242 uses it without a test), and "Error response already be sent" (:251) | an answer that is complete before a sized upload: when the upload ends `on_read` deletes the downstream and leaves the parser paused, and for the first bytes of the next request it dereferences a null pointer |

Bounds. Two workers and three connections give every relation between the
session a push was written to and the session an ack is looked up in: the same,
another on the same worker, another worker. One retry has a first, a middle and
a last outcome. One request suffices for the invariants of `PushDelivery` since
requests share only sessions and the client map, which change arbitrarily
anyway; the theorems cover any number. Two refreshes are needed for each race
of the refresh count and a third for one that arrives in between. Two moves let
a client leave and come back between the lookups of two servers. Two threads
share the globals of the clients (of which `spdycli` uses none to register and
refresh, so that one thread does there), and one reconnection has an earlier and a
later session. Two pipelined requests are the current one and the one that is
already buffered. Two streams compete for a pooled connection; a window of 1
piece is used up by an upload of 1, whose update is due at once (the theorem
covers larger windows, with an update due at half of it). Three descriptors are
too few for two connections, a file and a pipe, so that each of them fails for
want of one and numbers are reused at once.
`ULLONG_MAX = 63` and `MaxHeaderSize = 45` put the overflow checks of the parser
within reach of two-digit numbers and short messages, and two sizes that wrap
around among them.

`CHECK_DEADLOCK FALSE` in all configurations: the requests, connections, acks
and inputs of an instance are used up at some point and the system is then at
rest.

Fairness is weak fairness of single steps. Push server: an event loop runs what
is queued, MySQL answers (possibly with an error), a timer fires, and a push
stream emits one of its events. A request to a peer server ends, because
`dispatch.coffee:33` sets a timeout; a callback POST need not, because
`request.post` in `callback.coffee` sets none: `RequestsSettle` excepts an
application that accepts a callback and never answers, which keeps the row for
good. In `ClientRegistry` only the deletion a push has begun is fair, with or
without success; that pushes go on reaching a worker is a premise of
`DeadEntryIsDropped`. Proxy: the backend connection makes
progress (it answers, closes, fails or times out; the code sets read and write
timeouts) and the client takes what is written to it or its connection ends.
Parser: the caller passes on what it has. Nothing is assumed of clients,
applications' decisions to push, messages from other sessions, or of exits. No
fairness is assumed of a process that has exited (its actions are disabled) or
of a server in `Silent`.

## 4. Proofs

The theorems hold for any sets of requests, clients, workers, servers,
connections, streams, threads and descriptors and any bounds; TLC checked each
inductive invariant on the instance of the run before it was proved. Every proof
has the same shape: the initial states satisfy `IndInv`, every action preserves
it (one lemma or step per action, one substep per part it can disturb), and the
properties follow.

### Push delivery

`PushDeliveryProofs`, from
`ConstantsAssumption` (the constant functions have their types) and
`NamesAssumption` (the null values and the initiators are distinct):

| theorem | statement |
|---|---|
| `Invariance` | `Spec => []IndInv` |
| `TypeCorrect` | types, and at most 1 + `PUSH_CALLBACK_RETRIES` POSTs per callback |
| `RowNeverForgotten` | `RowHasOwner` |
| `AtMostOneAck` | `SingleAck` |
| `NoSilentDeletion` | `ToldBeforeDeleted` |
| `FailureExcludesOthers` | `FailureIsFinal` |
| `AckInTimeExcludesTimeout` | `AckInTimeSettles` |
| `AckNextToTimer` | `AckInSameProcess`: the ack that counts is handled in the process of the timer |
| `Refinement` | `Spec => KeepsPromise`: `PushDelivery` implements `PushPromise` |

None of these is inductive as it stands. `SingleAck` needs to know that an ack
that got past `cancelPushTimer` left no entry behind (`AckPlace`), which needs
that a timer is not started twice (`Progress`). `AckInSameProcess` needs that a
worker's `SessionManager` holds only its own sessions and that a push is
written to a session of the worker it was sent to (`SessionPlace`,
`PushPlace`). `ToldBeforeDeleted` needs what a callback has behind it when it
comes to the deletion (`Attempts`) and that callbacks exist only for requests
that were sent (`CallbackMeansSent`). `RowHasOwner` needs `AckPlace` too: the
ack that takes the timer away is in the process whose exit excuses the row.
`IndInv` is the conjunction of these parts, the types and three of the
properties.

The proof has a frame lemma per part - a part depends on few variables, so most
steps preserve it trivially - and then, in `StepInv`, one step per action with
one substep per part the action can disturb.

`Refinement` has the same shape: `InitPromise` maps the initial states, and
`StepPromise` maps every action to one of the abstract actions or to a stutter.
Beside `IndInv` it needs to know from which callbacks a report can have come
(`ToldPlace`), so that a second ack is not reported, and that only a request
with a callback url is posted (`PostedHasUrl`); both are inductive together with
`IndInv`.

### Dispatch, push ids and registry

From `DispatchAssumption`, `RefreshAssumption` and `RegistryAssumption`, which
type the constants and ask for finite sets where a number is counted.

| module | theorem | property |
|---|---|---|
| `PushDispatchProofs` | `ForwardedOnce` | `AtMostOneHop` |
| | `TruthfulAnswer` | `AnswerIsTrue` |
| `PushIdRefreshProofs` | `IncrementsKept` | `NoIncrementLost` |
| | `ValidIdHeld` | `ClientHoldsValidId` |
| | `ReplacedIdRefused` | `SupersededIdRefused` |
| | `RevocationHolds` | `RevokedIsRefused` |
| `ClientRegistryProofs` | `SessionCountExact` | `SessionsCounted` |
| | `ListedOnce` | `OneEntryPerClient`: a client never has two entries |
| | `LoneClientListed` | `LoneClientSettles` |
| | `DirectoryRefinement` | `KeepsDirectory`: `ClientRegistry` implements `ClientDirectory` |

*Dispatch.* `AnswerIsTrue` needs that the peer is visited only while the first
server waits or after it gave up (`VisitOrder`), that a visit sends exactly if
it says so (`SentMeansAccepted`) and that the first server quotes the peer
(`PeerWasQuoted`).

*Push ids.* `NoIncrementLost` speaks of clients no refresh of which failed; the
bound `CountBounded` is what remains of it for the others and keeps the count
typed. `ClientHoldsValidId` needs that the id of the current count is held or on
its way (`ValidIdComing`), `SupersededIdRefused` that the count never falls
below what it was when a request came (`FloorBelow`), and `RevokedIsRefused`
that a request barred on arrival has the query that finds out still ahead of it
(`BarredWillMeet`).

*Registry.* The counts and the unique entry are inductive with the types.
`LoneClientSettles` relates sessions, messages and entries: `FlowInv` says what
is in a channel or under way as a query when the listen handler and the close
handler are at a given step (one add per connection, before its delete), and
`LoneInv` what that means for the entry of a client with one connection.

`DirectoryRefinement` maps a connection to "due" as long as its listen handler has
not told the master or its add is under way, wherever it is (`AddPending`), and to
"owed" while its farewell is (`DelPending`). That each of them is at one place at a
time (`OneAdd`, `OneDel`, and `ChanInv`: a worker says everything once) is what
makes the end of a query the one moment at which the directory sees the
connection enter or leave; that an update finds no entry of another push id needs
`OneEntryPerClient`, and that a push doubts only exited workers needs that
whatever was listed was forked (`WorkersKnown`).

### C clients

`SpdyClientProofs`, from `SpdyClientAssumption` (threads are numbered from 1,
the null pointer is no id, a truncated push id is none the server issued).

| theorem | property |
|---|---|
| `ListensOnce` | `ExactlyOneListen` |
| `RegistersOnce` | `NeverRegistersAgain` |
| `PushLookup` | `PushFindsListen` |
| `ClientTypes` | `TypeOK` of the module, with the bounds on issued ids |

The invariant has one part per client: where its ids come from (`IdsInv`), that
a session issues one pair at most (`IssueInv`), that what asks for ids is the
first request of a session and gone when the answer comes, and that the one
listen request is queued or sent (`QueueInv`), and that pushes come only over the
listen request and name it (`PushInv`). A step is a step of one client, so the
other clients' parts are unchanged; what the threads of `scalecli` share is in
`SharedInv`: whichever of them was pushed to last, the associated stream is the
first one of a session, which is its listen request.

### SPDY server

`SpdyServerProofs`, from `SpdyServerAssumption`.

| theorem | property |
|---|---|
| `HandlersAlive` | `NoStaleHandler` |
| `OpenIsServed` | `ConnectionServed` |
| `OneOwner` | `FilesOwned` |
| `AnswerFromItsFile` | `ServesItsFile` |

Descriptor numbers are reused at once, so every part ties a number to what the
kernel has behind it: `ConnInv` follows a connection from its accept handler to
its SPDY handler and says which of them is registered and has to close the
descriptor, `PollInv` says the same from the side of the kernel, `BatchInv` that
the deletion list has exactly the marked handlers, each once, and that nothing
of a batch outlives the poll, and `StreamInv` that a request's descriptor is
still that of its file.

### Proxy, SPDY side

`ShrpxSpdyProofs`, from `ShrpxSpdyAssumption` and `NullAssumption` (the null
pointer is no stream, connection or `Downstream`).

| theorem | property |
|---|---|
| `PointersAlive` | `ConnectionsOwned` |
| `SourceAlive` | `DataSourceAlive` |
| `PoolIsClean` | `PooledAnswerRead` |
| `PausedIsResumed` | `PausedHasBody` |
| `CreditKept` | `CreditConserved` |
| `ProxyTypes` | `TypeOK` of the module |

The callbacks are operators on a record of the state, so the invariant is one
too: `Good(s)`, of which `IndInv` is the case of the current state. It can then
be shown of the states *between* the parts of a callback (`DeleteDconn`,
`CloseGood`, `RstGood`, `ErrorGood`, ...), and a callback is a chain of such
lemmas. `PooledAnswerRead` needs `Match`: as long as a downstream has a
connection its response is as far as the backend's answer has been read, so that
`MSG_COMPLETE`, which the error paths set too, means a complete answer exactly
where `on_stream_close_callback` pools the connection, or an interim head.
`Accounted` counts the answers: unless an interim head was taken for one, a
connection owes exactly the answer to the request it carries, and none when it
is between two messages. Parsing a piece breaks
`Match` until the hook has run, which is why `ReadFacts` is about an
intermediate state that need not be `Good`.

### Proxy, https side

`ShrpxHttpsProofs`, from `ShrpxHttpsAssumption`, for both values of `Asserts` and
`Malformed`.

| theorem | statement |
|---|---|
| `Invariance` | `Spec => []IndInv` |
| `ProxyTypes` | `TypeOK` of the module |
| `OneConnection` | `OneBackendConnection` |
| `Order` | `Spec => []OrderlyInv` |
| `StopsInUpload` | `StopsOnlyInUpload` |
| `RepliesOnce` | `OneReplyPerRequest` |
| `NoneDropped` | `AnsweredBeforeNext`, an action property |

None of them assumes anything of the backend or of the proxy's timeouts; the
last three say themselves what they except (`early`, `surplus`), and
`shrpx_https_early` and section 5 show that the exceptions are needed. The
invariant is in two layers.

`IndInv` has no exceptions. Its heart is `StreamOK`: the pieces in the input
buffer followed by those on the wire continue the request the parser is in and
lead, piece by piece, to where the client is (`Chained`, over `Fits` and
`After`). Without it a hook could meet a body without a head. It is stated by
neighbouring positions of the sequence and not by recursion, so that taking one
piece off the front and appending one at the back preserve it by first-order
reasoning. `Sane` adds what every callback keeps: a failed parser keeps the piece
it failed at (`KeepsFailure`), the backend is read only while it is attached
(`ReadsAttached`), and there is no connection before the headers are complete
(`ConnectsLate`), which is what makes `htp_hdrs_completecb` the only place that
adds one (`One`).

`OrderlyInv` is `Gate`, which has no exceptions either (the request parser runs
only when the client is read, a complete request finds it paused, and it is
unpaused after a failure only while an upload is on its connection), and
`Orderly` for a request without early events. In the latter `PausedAtEnd` says
that the parser is paused exactly when the request is complete, with its
connection attached and its client not read: this is what `on_read` asserts.
`UnreadBefore` says that before that nothing of the backend has been read;
`BlockedInside` separates the two reasons not to read; and `AnswerOnce` follows
the answer: the heads forwarded and the bytes still to be read make one answer
(`Remaining`), so that the error paths of `https_downstream_eventcb` reply
exactly if no head went out. `NoneDropped` comes from the same lemmas, which say
of each callback that it gives up a `Downstream` only with one head written
(`Concludes`).

### Only model-checked

* The liveness properties (`RequestsSettle`, `DeadEntryIsDropped`,
  `EveryRequestAnswered`, `ReadingResumes`, `InputIsConsumed`): they need
  fairness.
* `HttpParser`, `HttpUrl`, `Uri`: what a recursive definition computes for every
  input needs induction over data.

## 5. Not modelled

* The content of messages, headers, hashes, JSON and urls, except in the parser
  modules; credentials.
* The ping interval a client announces and the idle timeout of its socket: a
  dead peer is a socket that closes at any time. The frames of `SpdyHandler`
  that no handler sends.
* `UPDATE_CLIENT`: the master handles it, no worker sends it.
* A restart of the master or of a whole server.
* In-memory storages, database set-up, router, v1 ack handler, AMQP RPC, the
  emulator, logging and statistics (see the inventory).
* The spdylay library, OpenSSL and libevent, except for what the programs see of
  them; gzip in the clients.
* Of the proxy: start-up, the hand-over of sockets to threads, configuration,
  TLS. `spdycat` and its HTML scanner; `htparse.c`, which no program calls.
* `uri::joinUri` and the date and prefix helpers of `util.cc`.

### Seen while modelling and not the subject of a run

Push server:

* The timers die with their worker and the rows stay, although
  `pushrequest.coffee:18` says that timeouts clean up lingering requests.
* After a reconnection to the same worker an ack is looked up in the new session
  and answered 404 while the timer is running (`ack.coffee:66`).
* A socket that closes before the last step of the listen handler leaves session
  and entry behind (`listen.coffee:104`).
* The lazy removal after a failed send may delete the entry the client wrote
  when it reconnected to a live worker (`push.coffee:282`).
* `Push.dispatch` tests `client.serverId.indexOf(app.serverId) < 0`, so a server
  whose "ip:port" is contained in that of the client's server takes the client
  for its own.
* Two refreshes that increment before either reads the count are answered with
  the same push id.
* An entry that names a live worker without a session of the client is not
  removed by a push that fails on it, although `clientmap.coffee:35` says so.

Clients:

* `scalecli` signs acks with `gUri`, the name of the client created last
  (`scalecli.c:740-744`), whoever got the push.
* A data chunk that ends inside the push id leaves a truncated id
  (`spdycli.c:288-301`) that no later chunk and no later session replaces. One
  that ends right before it leaves an empty one: a client in full mode, which now
  has a client id, ignores the next chunk (`spdycli.c:317`), reconnects with a
  refresh whose answer it ignores too, and never listens with a valid id; in
  refresh mode the next chunk makes `strstr` return NULL or, if the old buffer is
  still behind it, queues a second listen. `ExactlyOneListen` is therefore about
  clients with a whole push id.
* A push whose data comes in two chunks is acknowledged twice. An answer
  without ids makes `strstr` return NULL, which is then used.
* A refused listen leaves the client connected and silent. A failed handshake
  leaks the socket. `stream_id` is written by all threads, but used only for
  logging.
* `parse_uri` drops the last character of the host header for an IPv6 address
  and takes a user name for the host.

Proxy:

* Chunked uploads are always answered 400: `push_upload_data_chunk` returns the
  number of framing bytes (`shrpx_downstream.cc:418`), which the parser takes for a
  failure of its hook. When the bytes for the backend have been written,
  `https_downstream_writecb` resumes reading and so unpauses the failed parser
  (`shrpx_https_upstream.cc:323`), although `http_parser.c:2172` says "Users should
  only be pausing/unpausing a parser that is not in an error state" and asserts it:
  a proxy built with assertions aborts, unless the 400 has gone out first. This is
  the state `handler = "aborted"` of the model; `StopsOnlyInUpload` says when it can
  be reached.
* The read timeout runs since the headers were sent to the backend
  (`shrpx_downstream.cc:377`; `shrpx_downstream_connection.cc:104-109` admits it):
  when it fires during a slow upload the client gets 504; once that is written the
  backend is read again, and its answer adds a second head. If it times out once
  more it is read no longer, and when the upload ends nothing is left to resume the
  client (`MSG_BLOCK`). Both are excepted by `early`.
* Bytes behind a complete answer, read together with it, are refused by the
  parser, and `error_reply(502)` writes a second head behind the
  answer (`shrpx_https_upstream.cc:370-381`); excepted by `surplus`.
* A 1xx head is taken for the whole answer (`shrpx_downstream.cc:539-547`): on the
  SPDY side the stream ends and the connection is pooled although
  `shrpx_spdy_upstream.cc:112` says "At this point, downstream response was read";
  the next request on it gets the final answer of the previous one.
  `PooledAnswerRead` says that only this breaks it.
* A client that resets a SPDY stream after an early, complete answer puts a
  connection with an unfinished request into the pool. The request sent on it
  next is another matter than `PooledAnswerRead`, which is about answers.
* `spdy_downstream_writecb` submits a WINDOW_UPDATE without sending it: an upload
  larger than the window waits until something else calls `send()`.

SPDY server: a 304 answer overwrites the descriptor of the file it opened, which
is never closed (`lost` in the model); the pipe of a status page is closed by
`gzclose` and once more by `close`.

Parser:

* After the head of a CONNECT or Upgrade request the rest is delivered as a body
  until the end of the file (`http_parser.c:1614-1623`), whereas
  `http-parser/README.md:107-113` says that the parser returns after the headers,
  and `test.c:470-527` expects an empty body. `CallbacksExact` states what the code
  does.
* A second call with no bytes after the end of the file repeats
  `message_complete`: the state is not reset (`http_parser.c:600-605`).
* The overflow checks of Content-Length and of chunk sizes miss values that wrap
  around past the largest one (with a counter of 6 bits, 71 is taken for 7);
  `test.c:2724-2754` tries only the values next to 2^64. The wrapped size is then
  used without notice.
* `url_parser.c:30` passes an uninitialised `http_parser_url`, so that for
  `http:///x` the host field that `http_parse_host` reads was never set
  (`http_parser.c:2003`); `test.c:2512` clears the struct first, and the model has
  the cleared one. Only the tests and `url_parser.c` call
  `http_parser_parse_url`; `UrlFieldsExact` is about whole urls and does not depend
  on how an input is cut.
* The third letter of some methods is not checked; `message_begin` is called again
  for every empty line before a response; `http_parser_parse_url` refuses `#` right
  after the host. `uri::parse` reads a port that is no number as 0, and
  `uri::construct` drops a password without a user name.

## 6. Plan

Done: `PushDelivery` with its proofs and its abstract specification; and, with
their proofs, `ClientRegistry`, `PushIdRefresh`, `PushDispatch`, the C clients,
the SPDY server and both sides of the proxy (`ClientRegistry` with its abstract
specification too); the parsers, model-checked. Next, in
this order:

1. The composition of `ClientRegistry` and `PushDelivery`: pushes that are
   looked up in the map the registry really maintains, in place of the
   arbitrary one.
2. The hand-over of sockets between the threads of the proxy; `spdycat`; the
   emulator's chains of push timers.
