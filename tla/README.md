# Verification of juce_simpleweb

TLA+ models of juce_simpleweb (WebSocket and HTTP servers and a WebSocket client
on asio, wrapped in JUCE threads): its concurrency, and what its readers and parsers
make of bytes; the TLC runs that check them, and TLAPS proofs about them. Paths and line numbers refer to
`src/`; `PROJECT.json` gives for each definition the lines it translates.

## 1. The system

| component | state | operations | talks to |
|---|---|---|---|
| `ScopeRunner` (`common/utility.hpp:432`) | an atomic counter | `continue_lock()`, `~SharedLock()`, `stop()` | every asynchronous handler takes a lock first; destructors call `stop()` |
| WebSocket send queue (`websocket/server_ws.hpp:162`, the same code in `client_ws.hpp`) | `send_queue`, its mutex, the timer | `send()`, `send_from_queue()`, the write's handler | any thread sends; one asynchronous write at a time; the timer closes the socket |
| WebSocket server connection (`server_ws.hpp:529`) | `closed`, the timer, the message being read | handshake, `read_message()` and its continuations, `send_close()` | the send queue, the endpoint's callbacks, the registry |
| WebSocket server (`server_ws.hpp:350`) | acceptor, `endpoint[...].connections` | `start()`, `stop()`, `upgrade()`, handshake | connections; the HTTP server passes it sockets |
| WebSocket client (`websocket/client_ws.hpp`) | one connection, `io_service` | `start()`, `stop()`, connect, upgrade, read loop, idle timer | the send queue |
| HTTP server (`webserver/server_http.hpp`) | `connections->set`, per connection a session, a request, a `Response` and a timer | accept, read, `find_resource()`, `Response::send()`, keep-alive, upgrade, `stop()` | the application's resource functions, which keep and share the `Response` |
| JUCE server (`SimpleWebSocketServer.cpp`) | `ioService`, `http`, `ws`, `serverLock`, `connectionMap`, two flags | `start()`, `stop()`, `initServer()`, callbacks, `sendTo()` ... | an owner thread and a server thread; listeners |
| JUCE client (`SimpleWebSocketClient.cpp`) | `ws`, `connection`, two flags | `start()`, `stop()`, `initWS()`, callbacks | an owner thread and a client thread |
| parsing, SHA-1, base64, MIME types, TLS | none | pure functions, tables, a handshake | |

What is hard in it:

* **threads**: a connection is used by the threads of its `io_service` and by any
  thread that sends or closes; the flags and pointers of the wrappers have no lock;
* **order of completions**: reads, writes, timers and upgrades complete in any order,
  and their handlers run after `stop()` too, when they must do nothing;
* **ownership as protocol**: an HTTP response is *sent by the deleter* of its last
  reference, and the next request is read when that is done;
* **one timer for two jobs**: reads and writes of a WebSocket connection set and
  cancel the same timer;
* **stopping**: from another thread, from a handler, before the server exists, twice.

`PROJECT.json` lists each such hazard at its line, with the property that would
catch it, or with the reason why none does.

What makes the parts correct, in short: a stopped runner has no handler inside
(ScopeRunner); frames reach the socket whole, once and in order, and callers hear
the truth once (send queue); registry, read loop and announcements agree
(connection); messages arrive whole wherever reads cut them (frames), and so do
contents of requests (HTTP content); responses of one connection never mix and each released one is sent
(HTTP); a running server is never destroyed and `stop()` returns with nothing left
(server wrapper); what is said of the client's connection is true, and each `start()`
comes to something (client wrapper).

## 2. Plan

Done, in this order:

1. `Gate` / `ScopeRunner`, proved;
2. `Channel` / `SendQueue`, proved;
3. `Connection`, which composes `SendQueue` with the handshake and the read loop, proved;
4. `Exchange` / `HttpSession`, proved;
5. `ServerLifecycle`, proved;
6. `MessageStream` / `FrameReader`: frames of both directions, byte by byte, proved;
7. `HttpContent`: contents of requests, byte by byte, proved;
8. `ClientLifecycle`: the JUCE client with the `SocketClient` it makes, proved;
9. `Text` / `TextChecks`: conversions as operators, checked over bounded inputs.

Every invariant that a passing run checks is also a theorem; what stays with TLC is named at the end of section 6.

## 3. The modules

**Gate** is the promise of `ScopeRunner` with no counter: a set of holders, and a gate
that is shut once, when empty. **ScopeRunner** has one step per access to the atomic:
the load of `continue_lock()`, a successful or failed compare-and-exchange (which
reloads `expected`), the decrement of `~SharedLock()`, and the exchange loop of
`stop()`. `pc[t]` says in which loop thread `t` is. Spurious failures are stutters.

**Channel** is the promise of the send queue: accepted frames go out in order, and a
caller is told of its own frame, once, truthfully, before the gate is shut.
**SendQueue** has one step per critical section of `send_queue_mutex`, which is all
that protects the list: `Send` (append, start a write if alone), `Handle`
(`set_timeout()`, `continue_lock()`, lock the mutex), `PopFront` or `FailAll`, then one
`Callback` at a time with the mutex released, and `Return`. The environment completes writes
(`WriteSucceeds`, `WriteFails`), closes the socket, fires the timer, and occupies gate
and threads with read handlers (`ReaderEnters`, `ReaderLeaves`). Each frame is a model
value, so it is sent at most once. `ScopeRunner` is used through `Gate`, which it was
proved to implement.

**Connection** keeps the variables of `SendQueue` under their names, uses its actions
as they are, and adds the handshake, the read loop, `closed`, the registry entry and the
callbacks of the endpoint. It begins where `read_handshake()` waits for the request; the
application knows the connection from `on_handshake` on, whose argument it is (`Known`), and may send before `on_open`.
`RequestTimeout` and `IdleTimeout` say whether `timeout_request` and `timeout_idle` are other than zero. The handler of a read takes a gate lock and runs in several steps, since
`send_close()` (a check, then a set and a send) and callbacks come in between; all its
reads of one frame are one read here. `ServerStop` is what `stop()` does to one
connection, when the `io_service` is not the server's own and so runs on.

**Exchange** is the promise of a kept-alive HTTP connection: what was made for a request
is on the wire, in order, before the next request begins; if it breaks off, only a suffix
is missing, except after `stop()`, when the deleter may send a remainder behind queue
entries that were abandoned. **HttpSession** is the connection, from the `async_accept()` it is made for: accepted, with its handler waiting for a
thread, it has no open socket yet (`Unopened`), and `ServerStop` cannot close it. `at` is the stage of the
session, `resp` whether the `Response` is referred to or is in its deleter; `Owned` says
who holds a copy (the application, the resource function's caller, each queue entry).
When nobody does, `LetGo` starts the deleter, whose write, if it succeeds,
reads the next request or hangs up. The application writes parts of content and calls
`Response::send()` at any moment from any thread, with an empty buffer too. A handler
that does not call the application is one step.

**ServerLifecycle** has an owner that calls `start()` and `stop()` and, for each
`start()`, a server thread. A step is one access to state the threads share, or a
section under `serverLock`. `secure` chooses between the two server classes, whose
`stopInternal()` differs only in the last line. `juce::Thread` is external: `stopThread()`
waits or kills, and a killed thread may or may not release the lock. The end of `stopInternal()` releases the lock
(`StopUnlocks`), and the flags are cleared after it (`StopReturns`). The timeout of `stopThread()` is not
counted: `Kill` may come at any moment of the wait. `isConnecting` is not initialised by
the constructor and starts with either value. The history variables `missed` and
`orphaned` name the two situations in which the strong statements do not hold.

**MessageStream** is the promise of a read loop with no frames or buffers: what the peer
sent is heard whole, once, in order and in the end, until the connection is over.
**FrameReader** is both ends of it. `Encode` is `send()`: header, length field of three
widths, mask. The reader has one action for each asynchronous read: the upgrade response
(client only; `Upgraded` may leave any number of bytes of frames in `buffer`), the two
first bytes, the long lengths, the content. `extra` is `num_additional_bytes`, `Wanted` and
`Left` its arithmetic. Widths are constants, so that small frames have all three forms of
the length; the sum of `read_message_content()` is taken modulo the width of `size_t`. The peer is
honest but for a wrong mask on an empty message. What it owes (`due`) is computed from the frames as they
are sent, independently of the reader (`Says` what a frame gives, `After` what it leaves begun); `heard` must be a prefix of
it that grows. `TotalAssumption`: all a connection carries is less than a `size_t` counts (2^64 bytes), or that sum could wrap.

**HttpContent** is the reading of requests. The head of a request is one symbol that says
how its content is framed; content and chunks are bytes, `"\r\n"` among them. The line before a chunk
is its size in hexadecimal digits, with zeros in front if its form (`Sizes`) has more of them than needed, and an
extension or none. Every `async_read_until()` may read on behind its delimiter, as far as its buffer has room. `ChunkFollows` is
the case distinction on how much of a chunk was read too far. The client waits for
an answer before it sends again.

**ClientLifecycle** has the owner's thread (`start()`, `stop()` in its four steps, `send()`) and the client thread
(`initWS()`, `SocketClientBase::start()`, and the handlers of the `io_service`, which all run
on it). `stage` counts what connecting waits for; its first two stages, resolving and connecting, have
no open socket that a timer could shut down. An operation that has come off with its handler still queued
(`Completes`, `link = "arrived"`) is not undone by a shutdown, and frames in the buffer are read after one. A handler of an asynchronous operation is two steps where a
listener's callback or a kill may come in between. `Pending` is what keeps
`io_service::run()` from returning. `link` and the variables around it are those of the
newest client only; the wrapper's `connection` may be an older one's.

**Text** has percent coding, query strings, header fields, semicolon-separated attributes, the
request and status lines, the address of a server, base64 and the accept key as functions on byte sequences; **TextChecks**
states as named assumptions what they compute: that what is encoded is decoded to the same, on
which inputs, and what becomes of the others. TLC evaluates them in run `content`.

MC modules instantiate these for TLC. Operators whose comment says *(faulty)* are
plausible slips; each property is checked to fail when one replaces the operation it
imitates.

## 4. The runs

| run | instance | shows |
|---|---|---|
| `scope` | 3 threads, unlimited calls | exact counter, refines `Gate`; `stop()` returns once handlers cease to arrive; a handler that stops its own runner hangs |
| `queue` | 2 io threads, 4 frames, one without callback, idle timeout | no overlapping writes, buffers stay, no lost wakeup, refines `Channel`, a callback overtakes only one that another thread is just about to make, every caller told |
| `conn` | 2 io threads, 1 other closer, 1 frame read after the handshake | the inductive invariant; registry and loop agree, `on_open` first and the end last, handshake and reads timed, the queue keeps `SendQueue!Spec` in this company; a dead socket is reported |
| `conn_close_once` | 1 io thread, 1 other | **violation**: two close frames |
| `conn_idle` | 1 io thread, 1 other | **violation**: a stalled write with no timer |
| `conn_stop` | 1 io thread, 1 other | **violation**: a connection that was in its handshake at `stop()` reads on |
| `http` | 3 io threads, 3 requests, 2 parts, queue of 2 | the inductive invariant; one write, one request at a time, always timed, `stop()` leaves no other connection than the one below, refines `Exchange`, released responses are sent |
| `http_sent` | 1 io thread, 1 request | **violation**: the answer to a request too large is not sent |
| `lifecycle` | both servers, 4 starts | running servers are kept, stopped ones gone, the map current, `stop()` and `start()` come to an end |
| `frames` | both directions, 3 frames of up to 4 bytes | buffer and `num_additional_bytes` agree, sizes are true, refines `MessageStream` |
| `content` | 2 requests, up to 2 chunks of 1, 2 or 26 bytes | contents intact, refused only for a cause, nothing left over between requests, every request comes to something; `TextChecks` |
| `client` | TLS client, 3 starts, 3 frames each | `isConnected` is true of the connection in use, `stop()` reaches its client and is quiet, `start()` is answered, an ended connection lets its thread go |

Bounds. Two io threads are enough for two handlers to meet, three add a thread that holds the gate;
the code has no place where three handlers of one connection contend for one thing. Four
frames give a queue with a front being written, one behind it, one sent during a callback
and one without callback. Three requests let a kept-alive connection be reused twice; two
parts and a queue of two let one be on its way and one queued or left to the deleter, and empty buffers stand before, between or behind them. Four starts leave time
for a server that failed, one that was killed and one that must cope with both. `MaxReads`
lets one frame of any kind be read, and with that every way the loop can end or go on.
Three frames are two fragments with a control frame between them, or a message in each form of the
length; the limit on messages lies between one and two of the largest. Two requests show what the first
leaves to the second; two chunks put a size line behind a chunk. The contents have every byte that a search for `"\r\n"`
could mistake, and one of them is above the limit, with a size of two digits, one of them a letter. Three starts let a
client be replaced by one that is replaced; a plain client has fewer stages, of the same kinds. The proved modules do not depend
on the bounds.

`CHECK_DEADLOCK FALSE` is set throughout: frames, requests and calls run out, and in `scope` a
thread that stops its own runner hangs, which is what the code does.

Fairness, always weak unless said:

* threads run: a handler that has begun goes on to its end (`Step`, `Handle`, `Proceed`,
  `Worker`, `Owner`). An application's callback is taken to return;
* asio completes operations on a socket that is down, and a write completes in the end, with
  success or an error: TCP gives a dead peer up, and a timer, where there is one, closes the
  socket before (in `Connection` a write need only complete once the socket is down);
* reads whose bytes have arrived complete (`FrameReader`, `HttpContent`);
* in `ClientLifecycle` the resolver and a connect come back, operations on a socket that was shut
  down fail, and a timer that stays set expires (`TimerFires`, and failed writes, strongly: traffic sets the timer
  anew, but frames are bounded). A server that stays silent is ended by that timer alone;
* the start of a handler (`Begin`, `ReadStart`), and taking `serverLock` (`TakeLock`, `TearDown`),
  are strongly fair: io threads and a mutex are given to others in between, but not for ever;
* nothing is assumed of the peer, of the application's calls, of timers elsewhere, or of `stop()`
  being called.

## 5. Findings

* `CloseSentOnce` (`server_ws.hpp:249`): `closed` is atomic, but it is checked and set in two
  steps, so that the read handler and another thread both send a close frame.
* `IdleGuardsWrite` (`server_ws.hpp:617`): the read handler cancels the timer a pending write
  set; if the loop ends there, nothing sets it again and a stalled write keeps the connection
  for ever in spite of `timeout_idle`.
* `StopClosesAll` (`server_ws.hpp:456`): `stop()` closes the registered connections; one that is
  in its handshake is registered when that is written, and served on, where the `io_service` is the user's own.
* `ContentIsSent` (`server_http.hpp:577`, `645`): "413 Payload Too Large" is written into a
  `Response` without the deleter that would send it.

Two more that the models show, and that the properties around them exempt by name:

* `LeftSetIsDone` (`server_http.hpp:486`) exempts a connection that is `missed`. Its socket is open only when the handler of
  `async_accept()` is called (line 805); if it is accepted at `stop()`, and that handler waits for a thread, closing the acceptor aborts
  nothing, `close()` reaches nothing, the set is cleared, and the handler then reads and serves the connection, where the `io_service` is the
  user's own. Line 476 says "Stop accepting new requests, and close current connections." It is the HTTP server's form of `StopClosesAll`,
  in three steps of the model: `AcceptCompletes`, `ServerStop`, `AcceptHandled`.
* `IdleGuardsRead` (`server_ws.hpp:169`) exempts a handshake during which a frame is sent while `timeout_idle` is zero, the default:
  `send()`, from `on_handshake` or another thread while the response is being written, sets the one timer anew and so
  takes it away, and a client that takes no bytes keeps its connection in spite of `timeout_request`
  (line 334: "Timeout on request handling. Defaults to 5 seconds.").

Seen in the models, and not contradicted by any text of the repository: `stop()` called before
the server thread has made its `ioService` stops nothing and waits behind a server that then
runs (`missed` in `ServerLifecycle`); `stop()` right after `start()` holds the lock
the server thread waits for until `stopThread()` kills that thread; `SecureWebSocketServer::stop()`
returns before its thread has ended, and a thread that had yet to take the lock serves
afterwards; `start()` on a running server kills its thread and leaves `connectionMap` as it was.
Where a chunk, or its end, cannot be read, `on_error` is called without asking whether there is one
(`server_http.hpp:679`, `698`); the JUCE servers set none, so that the exception leaves `io_service::run()` and the server thread ends
(`HandlerThrows`). An accept handler that runs after `stop()` accepts again on the closed acceptor (`server_http.hpp:811`), which fails at once
with another error than `operation_aborted`, and so on.
A client whose `stop()` comes before its `io_service` exists is not stopped but killed (`StopReaches`).
A control frame inside a fragmented message is added to what is compared with `max_message_size`.
The server lets a final frame that is no continuation stand for itself, the client adds it to the message
begun. After a chunked request the `"\r\n"` of its last chunk stays on the connection if it was
not read too far, and the next request on it is then refused (`RefusedForCause`). An attribute `a=` is dropped at the end
of a header field, and elsewhere takes the next attribute for its value (`EmptyAttributeValue`).
A scheme in the address of a client is taken for the host (`SchemeIsHost`), and a port above 65535 for another one.
The accept key is wrong where the hash has a zero byte before a non-zero one (`AcceptIsCut`); this client
accepts it, and the true one (`ClientIsContent`).

## 6. Proofs

All for every value of the constants (any finite set of threads, any frames, any number
of starts), from the named assumptions on constants alone.

`ScopeRunnerProofs`. `IInv` says that the counter is the number of holders, or -1 with none
(`CountExact`), that what a thread in the exchange loop expects is not negative (`CasPending`:
otherwise a late exchange could lift the counter from -1 to 0), and that a `stop()` that has
returned, and a refusal, imply -1. From it: `StoppedMeansEmpty`, `SelfStopNeverReturns` (the
holder's own count keeps its loop from seeing 0), and `ImplementsGate`, step by step.

`SendQueueProofs`. That writes do not overlap is not inductive: one must know that a pending
write, or a handler between its result and the pop, *is* the one for the front, and that there is one
whenever the list is not empty (`Service`). For the refinement one must also know where each frame is:
the list is a suffix of the frames sent and the wire a prefix of them, one apart
exactly while a result is not yet handled (`Places`), and who is still to be told has left the list with
its true result, in one thread's hands only (`Calls`). `Invariance`, then `WritesNeverOverlap`,
`BuffersStay`, `NoLostWakeup`, and `ImplementsChannel`. That callbacks overtake each other only so far
(`CallersAreToldInOrder`) needs two more invariants: who has left the list has been called or is in some thread's hands
(`DepartedIsDue`), and what one thread has in its hands is in order (`TodoInOrder`).

`ServerLifecycleProofs`. `TypeOK` says who holds the lock in which state; the rest adds that an
`ioService` exists from its creation to the end of its thread (`BuiltUnderLock`), that it is only ever
stopped by a `stop()` still going on (`OnlyStopStops`, `StoppingKnows`), that a `stop()` waiting for
its thread has already cleared everything, and in the plain server nothing comes after it (`JoiningIsDown`), and that connections outlive their
server only until that `stop()` gets the lock (`MapOutlivesOnlyStopping`). From it the four
safety properties of the run.

`ConnectionProofs`. The connection has the send queue's variables among its own, so `IInv` contains the
queue's (`Q!IInv`), and every step is shown to be a step of `SendQueue` or to leave its variables alone; what
`SendQueueProofs` shows carries over, `ImplementsChannel` and `CallersAreToldInOrder` too. The rest says, for each place of the read loop,
what the application has been told and whether the set holds the connection (`LoopState`). Registry
and loop do not simply agree there: `stop()` takes a connection out of the set and closes its socket (`Attached`), and
a message too big is reported before the close frame (`Dismissed`). From it `RegistryMatchesLoop`,
`EventsInOrder` and `IdleGuardsRead`. The timeouts are on or off, each by itself (`IdleTimeout` and `RequestTimeout` are Booleans), threads and frames any number.

`HttpSessionProofs`. That writes never overlap needs to know who may write at all. `Life` says it by the state of the
response: shared, it has an owner and only parts of its queue are written; in its deleter nothing is left of it but
the last write; gone, nothing at all. `Service` and `FailedIsDown` are those of the send queue. `PartsInLine` and
`WireInLine` say where every part is, in the buffer, the queue or on the wire, for `ImplementsExchange`: the parts are
numbered, each buffer of the queue begins where the one before it ends, and on a sound connection of a running
server the wire ends just before what is being written. Then `WritesAlone`, `AnsweredBeforeRead`, `InOrder`
and `Timed`, and, inductive by itself, `StopMissesOneOnly`. At least one request is assumed, as `req` counts the present one from 1.

`ClientLifecycleProofs`. `ThreadHasClient` says where a client exists, `ClosingKept` that `isClosing` holds
for all of `stop()` unless a listener's `stop()` reset it, which then has stopped the `io_service` itself,
and `AskedHalts` that between closing the connection and stopping the `io_service` only the owner is in the way. From them
`ConnectedMeansCurrent`, `StopReachesThread`, and the action property `StopIsQuiet`.

`FrameReaderProofs`. `IInv` needs, beyond `ExtraIsBuffered` and `SizesAreTrue`, that the server's reads are all exact
(`ServerExact`): it reads mask and payload together and never sets `num_additional_bytes` again. `LengthIsRead` is the
round trip of the length field for every length that fits, `MaskIsUndone` that of the mask. They are about
functions of data; induction for them runs over subsets of `Nat`, each of which has a smallest element (`Smallest`,
`UpTo`, from the library's theorem that `<` is well-founded), so that no theorem with an operator for a parameter is needed; that
the recursive function in `Value` exists is shown the same way. Two assumptions are there for the provers: `Base` is at most
256, so that what `BigEndian` writes are bytes, and `PowersAssumption` says what a power is, of which they know nothing.

`ImplementsStream` is the safety half of `StreamSpec`: from its initial states on, every step of `FrameReader` is one of
`MessageStream` or none. Its invariant `Sync` says where the reader is. The frames sent and not yet read form a chain
(`Chain`): with frame `i` goes what the peer had begun before and after it, how much it then owed, and the bytes behind
it. The reader has heard what was owed at the head of the chain and has in `fragmented` what was begun there (`Caught`), and
buffer and socket together (`Pending`) are the bytes of the chain from the point in its first frame that `at` names
(`Place`). A frame sent extends the chain, whatever is in the buffer (`ChainGrows`); a read takes its bytes off the front,
however they are divided between buffer and socket (`Unread`); and what the handler does with a frame
is what the peer owes for it (`DispatchSays`). The sizes at each place of the chain are bounded by the frames before it,
which with `TotalAssumption` keeps the sum in `read_message_content()` from wrapping.

`HttpContentProofs`. Neither `IInv` nor `ContentIntact` is inductive: even the reader's types depend on its being in step
with the bytes. `Inv` adds to them, for each read in progress, what the bytes not yet parsed stand for. The set
`Coded` relates bytes to content: it is the least set with the pair of the last chunk, and closed under putting one more chunk in front.
`AtSize` says that the line buffer and the socket together are such bytes, for the content still missing;
`AtData` and `AtEnd` that what is on the socket is the rest of a chunk, or of its `"\r\n"`, and then such bytes;
`AtHead` that there is the next request, behind nothing but what a last chunk may leave (`Left`). `SizeRead` is the heart of it:
wherever `async_read_until()` stopped, the handler finds the first `'\n'` at the end of the size line, reads the size that was
written (`SizeIsRead`, for any number of digits), and `num_additional_bytes` is the count of bytes behind that line. `ChunkFollowsInv` then
follows the three cases of how much of the chunk these are. From `Inv`: `ReadingInvariant` and `RequestsKeepTheirContent`.
Assumed: contents are bytes (`ContentsAssumption`); a size line has up to 16 digits and fits the buffer of at least 3 bytes, where the code
has 16 + 2, and an extension begins with `';'` and has no `'\n'` (`SizesAssumption`). A longer line is a request refused, of which the
model says nothing. Sums of sizes count bytes really sent, so that none reaches the width of `size_t`, and `stoul()` has room for them.

Only model-checked: all liveness (the prover has no rule for fairness and ENABLED here), that of `StreamSpec` among it,
and what the operators of `Text` compute.

## 7. Not modelled

* `start()` and the acceptor of the servers: `Connection` starts with `read_handshake()`, `HttpSession` with the one
  `async_accept()` that its connection was made for. `AlwaysTimed` takes `timeout_request` and `timeout_content` of the HTTP server
  to be other than zero, as they are by default. TLS handshakes and certificates are a stage that may fail.
* The choice of an endpoint or resource by regular expression; dates, status codes and MIME types,
  which are tables and sequential text; SHA-1, which has no reference but itself.
* That the response to a handshake, which is written past the send queue (`server_ws.hpp:594`), may overlap with frames sent
  from `on_handshake` on: `wire` has the frames only.
* Requests and frames that are not well-formed (a control frame with FIN clear is one), but for a wrong mask, a wrong `Content-Length` and what is left of the request before. Requests
  sent before the last one is answered; their bytes, where they were read too far, are lost with the old session.
* The connection of a client that has been destroyed, whose `io_service` is gone (`SimpleWebSocketClient.cpp:82`), the race on the
  pointer `ws` (line 95), a missing `Sec-WebSocket-Accept` header (`client_ws.hpp:464`), and the destructor of
  `SecureWebSocketClient`, where `ws` is destroyed before the base stops the thread: undefined behaviour, of which no model can promise anything.
* A client killed while it holds one of its mutexes; a client with an `io_service` of the user's own.
* `sendTo()`, `sendExclude()`, serving files, listeners that call back into the server from its own
  thread; `connectionMap` is only followed as the set of servers whose connections it holds.
* The time of timers and timeouts: they may fire whenever they are set (while a client resolves or connects, its
  timeout has no effect on the operation, as in the code). The timer of an HTTP connection
  whose socket has been moved by `on_upgrade` does not fire in the model.
* The data races on `isConnected`, `isConnecting` and `ioService` are modelled as atomic accesses in any
  order; tearing, or the use of a `shared_ptr` while it is assigned, is not.
* asio, OpenSSL and JUCE are the environment, as far as the code relies on them.
