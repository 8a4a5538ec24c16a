# Verification of websocket-client

TLA+ models of the WebSocket client library in `src/` and `include/`, TLC
configurations that check them on small instances, and TLAPS proofs that hold
for every instance.  Paths and line numbers below refer to this repository.

## The system

A `WebSocket` is a stack of transports.  Each layer calls the one below to send
and is called back by it when data arrives or its state changes.

| Component | State it keeps | Operations | Runs on |
|---|---|---|---|
| `impl::WebSocket` (`websocketimpl.cpp`) | `state`; four `shared_ptr` members, one per layer; `mRecvQueue` | `open`, `close`, `remoteClose` (`forceClose`), `closeTransports`, `setTcpTransport`, `initXTransport`, `emplaceTransport`, `incoming`, `outgoing`, the connection timeout | any thread |
| `Transport` (`transport.cpp`, `synchronized_callback` in `utils.hpp`) | `mState`, `mLower`, two callbacks, each with a recursive mutex | `changeState`, `recv`, `onRecv`, `onStateChange`, `start`, `stop`, destructor | any thread |
| `TcpTransport` | socket, `mResolved`, `mSendQueue`, `mBufferedAmount`, `mSendMutex` | `connect`, `resolve`, `attempt`, `send`, `process`, `close` | worker (resolve, attempt), poll thread (process), any (send) |
| `HttpProxyTransport` | `mBuffer` | CONNECT request, `incoming` | poll thread |
| `TlsTransport` | `mIncomingQueue` (1024), `mPendingRecvCount`, the TLS session | `incoming`, `doRecv`, `send`, `stop` | poll thread pushes, worker decrypts |
| `WsTransport` | `mBuffer`, `mPartial`, `mIgnoreLength`, `mOutstandingPings`, `mCloseSent` | `incoming`, `parseFrame`, `recvFrame`, `sendFrame`, `close` and its timeout | the thread of the layer below; any (send, close) |
| `PollService`, `PollInterrupter` | `mSocks`, the interrupter pipe, `mStopped`, recursive `mMutex` | `add`, `remove`, `prepare`, `process`, `runLoop`, `join` | its own thread; `add`/`remove` from any |
| `ThreadPool`, `Processor` | priority queue of tasks, `mBusyWorkers`, `mJoining`; `mTasks`, `mPending` | `schedule`, `dequeue`, `join`; `enqueue`, `schedule` | workers |
| `Init` | `mGlobal`, `mWeak`, `mInitialized` | `token`, `preload`, `cleanup`, `doInit`, `doCleanup` | any; clean-up on a detached thread |
| `Channel`, `Queue` | callbacks, `mOpenTriggered`, `bufferedAmount`; a bounded queue | `triggerX`, `flushPendingMessages`; `push`, `pop`, `peek`, `exchange`, `stop` | any |
| C API (`capi.cpp`) | handle maps | create, delete, receive, cleanup | application threads |

Three kinds of threads run this code: application threads, the one poll thread,
and the workers of the pool.  The poll thread runs every TCP callback with the
poll mutex held; the workers run timers, TLS decryption, name resolution and the
tear-down of transports, which `TearDownProcessor` does one at a time.

What is hard here: several threads notice the end of a connection at once (the
application, the poll thread, a TLS worker, a timer) and all call
`closeTransports()`; `open()` may be called again from the closed callback while
the old transports are still being taken apart; callbacks recurse
(`close -> stop -> changeState -> callback -> remoteClose -> close`); every
check-then-act on `state` is two atomic steps; callback mutexes are held over
calls into other layers.  The full list, line by line, is under `hazards` in
`PROJECT.json`.

What makes each component correct:

* `WebSocket`: no transport outlives it or is torn down twice; a torn-down
  transport is silent; a lost connection is closed; calls return; closing is
  announced, once.
* `WsTransport`: what is delivered is what the frames say, however the bytes
  are cut into chunks; one close frame; pings are counted.
* `TcpTransport`: bytes leave in order and once; whatever is queued is waited
  for; sockets are closed.
* `PollService`: a registration is never slept over; an event reaches the
  registration it belongs to; a stopped loop ends.
* `ThreadPool`/`Processor`: no task is lost or run twice; tear-down is serial.
* `Init`: no global clean-up while a token is alive.
* `Channel`/`Queue`: messages in order, none lost, no notification missed.

## Modules

### `WebSocketImpl` - the life cycle

A thread is its top frame and a stack of frames to return to (`top`, `ret`), so
the recursion of the code is kept.  A frame is `[pc, l, n, s]`: the program
point, the layer, the transport instance and the state argument.  Each atomic
load, store or exchange on `state` or a transport pointer is one step.

| State | Code |
|---|---|
| `state`, `mem` | `WebSocket::state`, the four transport members |
| `got[t]` | the locals `ws`, `tls`, `tcp` of `closeTransports()` |
| `teardown` | tasks of `TearDownProcessor`; the first may be running |
| `tst`, `cb`, `rcv`, `base` | `Transport::mState`, is `mStateChangeCallback` set, whom `mRecvCallback` calls, `mLower` transitively |
| `halted` | TLS transports whose `mIncomingQueue` is stopped |
| `closeSent`, `closeTimers`, `connTimers` | `mCloseSent`, scheduled close and connection timeouts |
| frames `cbEnd`, `recvEnd`, `doRecvEnd` on a stack | the recursive mutexes of `synchronized_callback`, and `mRecvMutex` of TLS |
| `opens`, `gen`, `closedCb` | history: calls of `open()`, how often it got to Connecting, calls of the closed callback |

Actions carry the names of the functions they model: `Open1/2`,
`SetTcpTransport`, `InitTransport1/2`, `EmplaceStore/Start/Check/Undo`,
`Close1/2/3`, `RemoteClose2`, `CloseTransports`, `Exchange`, `DetachRecv`,
`DetachState`, `EnqueueTearDown` for `WebSocket`; `ChangeState`,
`StateCallback`, `RecvNull`, `Stop`, `Drop` (release of a `shared_ptr`, with the
destructor if it is the last) for `Transport`; `WsClose1/2`; `TcpConnect`,
`TcpLost`, `Incoming`, `ConnectionTimeout`, `CloseTimeout`, `TearDown` for what
threads pick up.  The peer is the nondeterminism of `Incoming` (`Reactions`):
it finishes or fails a handshake, closes, breaks the protocol, or says nothing.
`Broken` is the second load of the state in `incoming()`; the task of the
tear-down takes one step per transport (`TearDownReset`, `TearDownEnd`).

Data is abstracted away: URLs, messages and handshake contents.  An `open()`
whose URL does not parse throws before any state changes and is not an action.
Application callbacks (`user` frames) may return, or call `open`, `close` or
`forceClose` (`CallbackCalls`).

### `WebSocketLife`, `WebSocketRefinement` - what it promises

`WebSocketLife` is the abstract specification of how a WebSocket owns its
transports: a transport is set, then withdrawn, replaced or taken by one
closing; a closing hands over what it took, all of it and once; what is handed
over is released in that order.  `WebSocketRefinement` maps `WebSocketImpl` to
it: the current transports are the members, the taken ones the locals of the
threads in `closeTransports()`, the queue is that of `TearDownProcessor`, and
whatever was stored and has no owner is gone.  `ImplementsLife` is
`WebSocketLife!Spec` under this mapping.  `mProxyTransport` is not part of it:
`closeTransports()` does not take it, which `WebSocketStaleProxy.cfg` shows.

### `Http`, `WsTransport`, `MCWsTransport` - the incoming bytes

A byte is its position in the stream that TCP brings: first the answer of the
proxy, if there is one, then the response of the server, then frames.  The
`mBuffer`s of `HttpProxyTransport` and `WsTransport` are sequences of positions,
and a frame is known by the position before it.  Parsing at any other position
is parsing garbage, and `Aligned` says it never happens.  What an HTTP response
says is a sequence of symbols (line ends, the status code, names and values of
headers); `Http` has the two `parseHttpResponse()` on it, with the line ends and
the cases of letters that the code accepts.  `Accepts` is what the client takes;
`Upgraded`, which `HandshakeDecides` asks for, looks at the symbols themselves and
not at what the parser made of them; `ConnectionUpgraded` is the header that the
code does not look at.

| State | Code |
|---|---|
| `setup` | the instance: what the proxy and the server answer, what the peer may send, whether threads close and the connection is lost |
| `frames`, `messages`, `end` | the peer: what it sent and what messages that makes |
| `arrived`, `up` | the bytes TCP has handed up; is it connected |
| `pstate`, `pbuf`, `rest` | `HttpProxyTransport`: `mState`, `mBuffer`, and what of it is passed on once the proxy has answered |
| `state`, `buf` | `WsTransport`: `mState`, `mBuffer` |
| `ignore`, `partial`, `partialOp` | `mIgnoreLength`, `mPartial`, `mPartialOpcode` |
| `pings`, `closeSent`, `timer` | `mOutstandingPings`, `mCloseSent`, the scheduled close timeout |
| `listening`, `delivered` | is `mRecvCallback` set, what it was called with |
| `pc` | the thread in `incoming()`: `idle`, `rest`, `skip` (the bytes of a cut-off frame) or `frames` (the loop over frames) |
| `closer[t]` | an application thread between the two halves of `close()` |

`ProxyChunk` and `IncomingChunk` take any number of the bytes sent; `Insert` is
the handshake; `Skip`, `Parsed`, `Erase` and `RecvData`/`RecvContinuation`/
`RecvPing`/`RecvPong`/`RecvClose`/`RecvUnknown` are the loop; `Idle` is the empty
chunk of a read timeout, `IncomingNull` the end of the stream; `CloseCheck`,
`CloseSend` and `CloseTimeout` are `close()`.  Masking is left out; lengths,
header lengths and the maximal sizes are kept.  `MCHeaderLen` gives the larger
payload a longer header.

### `SendPath` - the outgoing messages

Threads of the application go through `wscSendMessage()`/`WebSocket::send()`
(`Send`), `WebSocket::outgoing()` (`Outgoing`, one step for each member it loads),
`WsTransport::send()` and `sendFrame()` (`WsSend`, `SendFrame`),
`TlsTransport::send()` of the library built with (`TlsSend`, and `TlsLock` where it
has the mutex), and `flushOutput()` or `WriteCallback()`.  The worker in `doRecv()`
sends control frames the same way: `Control`, or `IdlePing` from under
`mbedtls_ssl_read()`, where it has `mSslMutex` already.  It also makes the library
write records of its own (`LibrarySends`, `Shutdown`).  `sendMutex` and `sslMutex`
are `mSendMutex` of `WsTransport` and `mSslMutex`; `records` has the length of each
record in the order of their numbers, `plain` the plaintext they carry, `bio` is
`mOutBio`, `wire` what TCP was given.  `SslWrite` is `SSL_write()` record by record;
one call of GnuTLS or Mbed TLS makes one record.  A test and the use that follows it
are two steps.  `Release` is the tear-down that destroys the transports under a
thread in `send()`, which has no share in them; such a thread is "crashed", and
nothing is said of what it does then.

### `TcpTransport` - addresses, the send queue, registrations

| State | Code |
|---|---|
| `st`, `sock`, `resolved` | `mState`, `mSock`, how many addresses are left |
| `tasks` | `resolve()` or `attempt()` in the ThreadPool |
| `reg`, `cb`, `more` | what PollService has registered, the callback it runs with its mutex held, whether Out follows In |
| `queue`, `amount`, `mutex` | `mSendQueue`, `mBufferedAmount`, who has `mSendMutex` |
| `th[t]` | where thread t is in `send()` and `trySendQueue()`, with its messages |
| `conn`, `wire`, `total` | the network; the bytes written, and given to `send()` |
| `raced`, `shadowed` | history: two threads were in `trySendQueue()` at a time (`InSendQueue`; a thread that waits for `mSendMutex` is not); `setPoll(In)` replaced `Both` while bytes were queued |

### `Runtime` - Init, ThreadPool, TearDownProcessor

`global`, `weak`, `payloads`, `tok` are the tokens of `Init` and who holds them
(a WebSocket, a teardown task, ...); `cleaner[p]` is the cleanup thread that the
destructor of payload p starts; `tasks`, `joining`, `wk`, `job` are the pool and
its workers; `pending`, `waiting` are the Processor; `capi` is `wscCleanup()`
while it erases the handles in `mapped` (`webSocketMap`).  WebSockets are created,
opened, put into the map (`Open` is before `Emplace`, which takes the mutex), closed
and deleted at any moment (`ws`); a timer tests the state (`TimerFires`) and closes
(`TimerRuns`) in two steps; `asked` and `done` are the teardowns in order.  `overlap`
is history: `cleanup()` was called again before the cleanup thread of an earlier
payload was done.

### `Channel`, `TlsTransport`, `MCTlsTransport` - the receiving path over TLS

`TlsTransport` has the poll thread in `incoming()` (`ts`), `mIncomingQueue`
(`iq`), `mPendingRecvCount` (`count`), the tasks in the pool and the workers in
`doRecv()` (`tw`) under `mRecvMutex` (`lock`), for OpenSSL, GnuTLS and Mbed TLS,
which differ in who takes from the queue and in what an empty message does.  The
worker goes on into `Channel`: `mRecvQueue` (`rq`, `amount`), the callbacks
(`msgCb`, `availCb`, `stored`), and per thread where it is in `incoming()`,
`flushPendingMessages()`, `onMessage()` or `wscReceiveMessage()` (`ct`, `held`).
`got` is what the application was given.

### `PollService`

| State | Code |
|---|---|
| `socks` | `mSocks`: direction, has it a timeout, and `until` (none, pending, past) |
| `pipe` | is a byte in the interrupter's pipe; a full pipe loses nothing, as one byte wakes |
| `pc`, `pfds`, `timedPoll`, `revents`, `pipeSeen` | `runLoop()` and its locals `pfds`, `next` |
| `running`, `calls` | the callback that runs, and the events it is called for |
| `stopped`, `joiner` | `mStopped`, the thread in `join()` |
| `ready`, `gone` | the kernel's view of the sockets; history: removed by another thread |

`mMutex` is held exactly while `pc = "process"` (`LockFree`); `LoopTest` reads
`mStopped` and `PollReturn` fills `revents` without it, so `add`, `remove` and
`join` interleave with both.  A callback may call `add` and `remove`, or throw.
`poll()` may fail, which ends the loop.

### The modules of proofs

`WebSocketImplProofs`, `WebSocketRefinementProofs`, `PollServiceProofs`,
`TcpTransportProofs`, `TlsTransportProofs` (with the channel), `RuntimeProofs`,
`SendPathProofs` and `WsTransportProofs` extend the module they are about; see below.

## Runs

| Run | Question | Result |
|---|---|---|
| `live` | through a proxy, with `close()` of an application thread and of callbacks, and a peer that also breaks the protocol: the types, `NoOrphan`, `SingleOwner`, `DetachedSilent`; under fairness `CallsReturn`, `SentCloseEnds`; and the refinement `ImplementsLife` | holds |
| `live_tls` | with TLS and the connection timeout, under fairness: `CallsReturn`, `LostConnectionIsClosed`, `ClosedIsAnnounced` | holds |
| `ws_stream` | answers of proxies and servers, taken and refused, then frames, in any chunks: `HandshakeDecides`, `Aligned`, `InOrder` (delivered is sent, and nothing is held back), `BytesInOrder`, `OneClose`, `CloseTimesOut`, `SilentPeerIsDropped` | holds |
| `send_path` | two sending threads and the worker over each TLS library and without: `RecordsInOrder`, `AllIsSent`, `SendsReturn` | holds |
| `recv_path` | from TCP over TLS to the application: `NoChunkIsStuck`, `DrainedBeforeEnd`, `EndIsReported`, `BroughtIsGiven`, `GivenInOrder`, `NothingIsStuck` | holds |
| `tcp` | `WireInOrder`, `QueueIsWatched`, `RegisteredIsCurrent`, `ConnectEnds`, `DisconnectedIsRemoved` | holds |
| `poll_service` | `NoLostWakeup`, `RemovedIsSilent`, `ReadyIsServed`, `TimeoutIsServed`, `JoinEnds`; no deadlock | holds |
| `runtime` | `TeardownInOrder`, `TokenKeepsInitialized`, `TeardownHappens`, `CleanupEnds` | holds |
| `close_deadlock` | no two closers wait for each other (`NoMutualWait`) | violated: callback mutexes taken in both orders |
| `send_race` | bytes reach the socket once and in order (`WireOnce`) | violated: `process()` is in `trySendQueue()` without `mSendMutex` |
| `ping_deadlock` | the ping of an idle connection goes through (`IdlePingPasses`) | violated for Mbed TLS: `mSslMutex` is locked twice |
| `capi_deadlock` | `eraseAll()` returns (`EraseAllReturns`) | violated: the closed callback locks the mutex that it holds |

Each violation is a finding in `PROJECT.json` with the line it contradicts.

**Further counterexamples.** These properties do not hold either.  They are in the
modules, with a configuration each for whoever changes the code there
(`tlc -config TcpShadowed.cfg TcpTransport`; TLC ends with the trace), and are not
among the runs, which ask the questions that hang a call, corrupt the stream or
contradict a comment on locking:

| Configuration, module | Property | What the trace shows |
|---|---|---|
| `WebSocketClosedIsFinal`, `WebSocketImpl` | `ClosedIsFinal`: a closed WebSocket is opened by `open()` only and announced closed once | `close()` (websocketimpl.cpp:140, 143) and the open callback (431, 433) test the state and store it in two steps, and overwrite Closed |
| `WebSocketStaleProxy`, `WebSocketImpl` | `ProxyOnCurrentTcp`: the proxy transport belongs to the current connection | `closeTransports()` (485-487) never clears `mProxyTransport` |
| `WsHandshakeRfc`, `MCWsTransport` | `ConnectionUpgraded`: the WebSocket opens only if the server says `Connection: Upgrade`, as RFC 6455 (4.1) asks of the client | the header is not looked at (wshandshake.cpp:204-229) |
| `TcpShadowed`, `TcpTransport` | `BufferedIsWatched`: what is queued is waited for | `setPoll(In)` (tcptransport.cpp:254, 419) replaces the `Both` of a `send()` |
| `TcpLockCycle`, `TcpTransport` | `NoLockCycle`: `send()` and a callback do not wait for each other | `setPoll()` (tcptransport.cpp:134) is called with `mSendMutex` |
| `RuntimeLateCleanup`, `Runtime` | `PendingIffInPool`: `mPending` is "true iff a task is pending in the thread pool" (processor.hpp:43) | a late cleanup thread (init.cpp:132) clears the pool of a library in use, and no tear-down runs any more |
| `PeekAmount`, `MCTlsTransport` | `AmountIsReceivable`: `availableAmount()` is what `receive()` will return | `peek()` moves binary content away (websocketimpl.cpp:172) |
| `MessageOrder`, `MCTlsTransport` | `MessagesInOrder`: messages are given in order | `onMessage()` flushes beside the worker (channel.cpp:69) |
| `TlsIdle`, `MCTlsTransport` | `IdlePassesThrough`: a read timeout passes through the TLS layer | with GnuTLS and Mbed TLS it ends the connection (tlstransport.cpp:260, 532) |
| `SendReleased`, `SendPath` | `NoUseAfterRelease`: no thread uses a transport that is gone | `outgoing()` uses `mWsTransport` without a share in it (websocketimpl.cpp:186) |
| `SendLarge`, `SendPath` | `LargeIsSent`: all of a message that may be sent is sent | a call of GnuTLS or Mbed TLS takes one record (tlstransport.cpp:132, 401) |

**What the properties leave out.** Where the code has a race that a property meets,
the property names the case, and a run or a configuration of the table above shows
that the case is real:

| Property | Not said | Shown by |
|---|---|---|
| `CallsReturn`, `LostConnectionIsClosed`, `ClosedIsAnnounced` | once two threads wait for each other's callback mutex (`MutualWait`) | `close_deadlock` |
| `WireInOrder` | once two threads were in `trySendQueue()` at a time (`raced`) | `send_race` |
| `QueueIsWatched` | after `setPoll(In)` has replaced `Both` (`shadowed`) | `TcpShadowed.cfg` |
| `DisconnectedIsRemoved` | if the poll thread waits for `mSendMutex`, whose owner waits for it (`LockCycle`) | `TcpLockCycle.cfg` |
| `TokenKeepsInitialized`, `TeardownInOrder`, `TeardownHappens`, `CleanupEnds` | once `cleanup()` was called again before the cleanup of an earlier payload was done (`overlap`) | `RuntimeLateCleanup.cfg` |
| `GivenInOrder`, `BroughtIsGiven` | once a thread took a message while another had not passed on its own (`crossed`) | `MessageOrder.cfg` |
| `EndIsReported`, `BroughtIsGiven`, `NoChunkIsStuck` | once a worker of Mbed TLS waits for its own `mSslMutex` (`SelfLocked`) | `ping_deadlock` |
| `SendsReturn` | in the same case (`PingHangs`), and of a thread that used what is gone ("crashed") | `ping_deadlock`, `SendReleased.cfg` |
| `AllIsSent` | with GnuTLS and Mbed TLS, of frames larger than a record (`Fits`) | `SendLarge.cfg` |
| `DrainedBeforeEnd` | of an idle chunk that ends a connection (`idled`) | `TlsIdle.cfg` |

Three cases have neither, as no line of the repository speaks of them: messages that
were taken while the message callback was unset (`unset` in `GivenInOrder` and
`BroughtIsGiven`); GnuTLS, which may report a failure after the end
(`DrainedBeforeEnd`) and is called without a mutex, so that nothing is said of the
order of its records once the worker writes (`RecordsInOrder`); and a peer's `close`
alert, after which what came behind it is not read.

So it is not shown that no call hangs; some do.  Two closers may (`close_deadlock`),
a `send()` beside a ping or a pong (`TcpLockCycle.cfg`, `ping_deadlock`), and
`wscCleanup()` (`capi_deadlock`).  `CallsReturn` and `SendsReturn` say that
`WebSocketImpl` and `SendPath` have no other way to hang a call than the one excluded
from them.  They do not have the queues of 1024 messages, which block the worker and
then the poll thread as long as the application takes nothing (`TlsTransport`).

**Bounds of `WebSocketImpl`.** One application thread, the poll thread and one
worker: three actors are what the races need (one inside a callback, one
closing, one tearing down).  `MaxOpens` is 1, or 2 in
`WebSocketStaleProxy.cfg`.  All options at once are beyond TLC's reach with liveness,
so two runs share them: `live` has the proxy, the application's `close()` from its own
thread and from callbacks, and the errors of the peer; `live_tls` has TLS, whose
worker closes beside the poll thread, and the connection timeout, which closes at any
time as the application does in `live`.  The
safety properties are theorems for any number of opens and threads, so an
instance with a second open adds nothing to them.
`CHECK_DEADLOCK FALSE` is set because a behaviour ends when the opens are used
up; what hangs a call is the question of `CallsReturn` and `close_deadlock`.

**Bounds of `WsTransport`.** `MCSetups` has three kinds of instances.  Handshakes:
with and without a proxy; the response that `generateHttpResponse()` makes and the
least that is taken, which has no `Connection` header; answers that each lack one
thing the code looks for; and bytes of the server that come with the proxy's answer.  Streams:
three frames of an orderly peer, that is a fragment, an interleaved control frame
and the continuation, or a frame cut off and the next two; payloads of 1 and 4
with a maximal message of 2 give frames that fit and frames that are cut off with
more bytes to skip than a chunk may bring.  Faults: two frames of a peer that
breaks the rules or goes silent, a thread that closes, a lost connection.  Chunks
have every size.  The models stop when the frames are used up, hence
`CHECK_DEADLOCK FALSE`.  `WsAssumption` keeps every length below the limit of RFC
6455; the code does not check it, and `size_t` wraps beyond: the
model has no numbers of that size.

**Bounds of `SendPath`.** Two frames and one record of the library's own among
three threads: two that contend for each mutex and a third in between.  Sizes 1
and 3 make frames of one and of two records, 4 is over the limit; `FlushLen` is
smaller than a record, so that a flush takes several rounds.

**Bounds of the others.** `TcpTransport`: two addresses, one sending thread and
the poll thread, three bytes in messages of any size, so that a message is written
in part and another is queued behind it.  `Runtime`: two WebSockets, one with a
timer and one with a closed callback of the C API, two workers, two token
payloads, two cleanups.  `TlsTransport`: two workers, queues of one element so
that they are full, two messages, one of them binary, and every way to end for
each library.  `PollService`: one socket, in every state of readiness: sockets
meet only in the order of the loop and in the minimum of the timeouts, and the
two theorems are for any number.

**Fairness.** A thread that can go on does: the operating system schedules it
and application callbacks return (`Step(t)`, `Process`, `PollThread`, `Worker`,
`Send(t)`, `Progress(t)`).  A mutex that is free again and again is had some time
(strong fairness of `Step(t)` in `SendPath`, of `DoRecv(k)`, `Callback` and
`Cleaner(p)`).  A TCP attempt ends, because the poll service times it out after 10
s; timers expire (`CloseTimeout`); workers take queued tasks.
`SilentPeerIsDropped` assumes that read timeouts keep coming (`Idle`), which is
what the poll service does when nothing arrives (`TimeoutIsServed`).
`EndIsReported` and `BroughtIsGiven` assume that an application without a message
callback receives what is there; without that the queue of 1024 stays full and
blocks the worker and then the poll thread.  Nothing is assumed of the peer, of
the application's other calls, or of the sockets.

## Proofs

Every theorem is for all values of the constants, from the named assumptions of the
module alone.  No theorem has a hypothesis besides the specification; what a property
leaves out (the table above) its theorem leaves out too.  Every invariant that a
passing run checks is a theorem, and so is the refinement.

| Module | Theorem | States |
|---|---|---|
| `WebSocketImplProofs` | `TypeCorrect`, `NoTransportIsOrphaned`, `TransportHasOneOwner`, `TornDownTransportIsSilent` | `Spec => []P` for `TypeOK`, `NoOrphan`, `SingleOwner`, `DetachedSilent` |
| `WebSocketRefinementProofs` | `LifeIsImplemented` | `Spec => ImplementsLife` |
| `PollServiceProofs` | `NoWakeupIsLost`, `RemoveSilences` | `NoLostWakeup`, `RemovedIsSilent` |
| `TcpTransportProofs` | `TypeCorrect`, `RegistrationsAreCurrent`, `QueueWatched`, `BytesInOrder` | the types, `RegisteredIsCurrent`, `QueueIsWatched`, `WireInOrder` |
| `TlsTransportProofs` | `TypeCorrect`, `NoChunkStuck`, `DrainedFirst`, `NothingStuck`, `GivenOrder` | the types, `NoChunkIsStuck`, `DrainedBeforeEnd`, `NothingIsStuck`, `GivenInOrder` |
| `RuntimeProofs` | `TypeCorrect`, `InitializedByToken`, `TeardownsInOrder` | the types, `TokenKeepsInitialized`, `TeardownInOrder` |
| `SendPathProofs` | `TypeCorrect`, `RecordsOrdered`, `EverythingSent` | the types, `RecordsInOrder`, `AllIsSent` |
| `WsTransportProofs` | `ClosesOnce`, `StaysAligned`, `Decides`, `BytesOrdered`, `DeliversInOrder` | `OneClose`, `Aligned`, `HandshakeDecides`, `BytesInOrder`, `InOrder` |

**`WebSocketImplProofs`** (any threads, any number of opens, both values of every
option).  Every action either moves one thread (`Goto`, `Return`) or leaves the
stacks alone (`ThreadMoves`), so facts about frames of other threads carry over,
and a thread that leaves a frame with an obligation (`Clears`) has met it.
`NoOrphan` is then inductive with the types.  `SingleOwner` is not: a pointer about
to be stored by `emplaceTransport()` must not be owned yet, and whatever is owned
must have been constructed (`Fresh`).  `DetachedSilent` needs what
`closeTransports()` has done at each of its steps: the callbacks of the layers
already passed are cleared and no other thread is inside them (`Clearing`).

**`WebSocketRefinementProofs`**.  An initial state maps to an initial state, and
each action to a step of `WebSocketLife` or to none.  A step that leaves the owners
alone (`Quiet`) stutters, and so does one that constructs a transport, which has no
owner yet by `Fresh`.  A store is `Set`, an exchange is `Take`, the
enqueueing hands over.  `SingleOwner` gives that what leaves one owner is with no
other; `HoldsWhileClosing` that the local which an exchange overwrites was null, so
that nothing a closing has taken is lost.

**`PollServiceProofs`** (any set of sockets).  The invariant adds two facts.
`JoinIsHeard`: a loop that has tested `mStopped` before `join()` set it still has
the byte of `join()` before it, also while it copies the registrations; without it
`Prepare` could go to sleep after the byte was read.  `GoneIsUnregistered`: what
another thread removed is not registered, so `process()` does not find it.

**`TcpTransportProofs`** (any threads, addresses, descriptors, messages).
`RegisteredIsCurrent` needs that while an attempt is a task or a registration nobody
is in `send()` and no callback runs (`OneAttempt`), as these would register the
socket a second time; `PollCalls` and `Locking` say who can be in `trySendQueue()`.
`QueueIsWatched` needs where a thread that has queued bytes is before it calls
`setPoll()` (`Watching`), whether or not two threads are in `trySendQueue()`.
`WireInOrder` rests on `Flow`: the wire, the message in a
thread's hand, the queue and the message it will push are one interval of bytes.
It says what each program point of `trySendQueue()` has already written, and holds
as long as no two threads were in it (`raced`); one that only waits for the mutex is
not in it.

**`TlsTransportProofs`** (any workers, application threads and limits of the queues,
each library).  `Workers` says what `mRecvMutex` and `mPendingRecvCount` stand for:
`count` is the tasks in the pool and the workers before the mutex (`Counting`, a
cardinality), and who has the mutex is in `doRecv()` (`Locking`).  On it rest
`SomeoneLooks` (a chunk has a task, a worker that will test the queue again, or a
thread about to enqueue), and `Drained`.  For the channel `Holding` says what is in
a thread's hand, `Flushing` and `Calling` who will look at `mRecvQueue`.  `GivenInOrder` follows a message through both
queues: `InQueue(a, b)` and `InChannel(a, f, p)` say that what was given, what is in
`mRecvQueue`, with a worker and in `mIncomingQueue` are the messages in one row.

**`RuntimeProofs`** (any WebSockets, workers, payloads, cleanups).  The types always
hold, the rest until cleanups overlap.  `Tokens`: a
payload with a token has no cleanup thread, and of the payloads from before
`mGlobal` was reset at most one is unfinished.  `Pool`: who has a task, and that
there are workers only while the library is initialised or being cleaned up.
`Turn`: the processor is idle, or its one teardown is queued, run, or was run and
the next is not chained yet; `Backlog` and `Ledger` tie this to the order in which
WebSockets closed, and to the tokens that keep the pool from being joined meanwhile.

**`SendPathProofs`** (any threads, sizes of messages, records and flushes).
`LocksOf` and `NumberedOf` say which mutexes, which frame and which record a thread
has at has at each point.  With OpenSSL what is on the wire and in `mOutBio` is in sequence
to the last record (`Piped`); otherwise all records are on the wire, or all but the
one a thread is about to write (`Written`), which is the only one as long as writers
exclude each other (`OneWriter`).  For `AllIsSent`: a byte of a record is on the
wire, in `mOutBio` or with a thread (`Handed`), `mOutBio` is empty unless a thread
will flush it (`Emptied`), and the plaintext ends with the last frame, or where the
library is in the frame a thread has in hand (`Framed`).  `InSequence` is stated
step by step, from one byte to the next, so that it grows without induction.

**`WsTransportProofs`** (any instances, any threads that close, any chunks).
`Exchanged`: a close frame was sent only if `mCloseSent` is set, which whoever
closes exchanges first, whatever it has tested before.  The other four theorems
rest on one another:

* `Decoder` says where the bytes are.  The peer's frames follow each other from the
  end of the answers on (`Layout`); before the proxy has answered, its `mBuffer` is
  what arrived and has no empty line yet (`AtProxy`); then the same of
  `WsTransport`, whose part of the stream begins behind the proxy's answer
  (`AtHandshake`); and once it is open, `mBuffer` is the last bytes that arrived,
  and with `mIgnoreLength` it ends at the boundary of a frame (`AtFrames`).  The
  handshakes need what the parser of HTTP lines does on part of an answer and on an
  answer with more behind it: it returns 0 on anything shorter than the first empty
  line, and from there on its result no longer changes (`TooShort`, `LongEnough`).
  `Aligned` is part of `Decoder`.
* `HandshakeDecides` is `Decoder`, that the parser takes only what is `Upgraded`
  (`ValueSays`), and `Healthy`: on answers that are taken, with no fault and any
  number of pings, no layer fails.
* `Ordered`: the bytes in `delivered` and then in `mPartial` are bytes of payloads,
  strictly increasing, and all before the position of the decoder.  A frame that is
  taken starts at that position and moves it to its end, so `BytesInOrder` follows.
* `Told`, for an orderly peer: there is a history of `messages`, one state for each
  frame the peer sent, and the frames taken so far are the first k of them, the k-th
  ending at the position of the decoder; what was delivered and what is in `mPartial`
  are the messages of the k-th state of that history, each cut off.  The history is
  an existential in the invariant and not a variable of the model.  It is needed
  because the peer is ahead of the decoder: the last message that the decoder
  collects may have been continued in `messages` since.  That cutting off each frame
  and then the whole is cutting off the whole is `CutTwice`.
* `Waits`: `incoming()` returns with an incomplete frame in `mBuffer` or with nothing.
  With all bytes arrived there is no incomplete frame, so k is all of them, and no
  finished message is held back: the last conjunct of `InOrder`.

`Decoder`, `Healthy`, `Ordered`, `Told` and `Waits` were checked by TLC on the
instances of `ws_stream` before they were proved.

The theorems about the answers assume `AnswersAssumption`, which TLC evaluates on
`MCSetups`: the proxy's answer ends with its empty line (a 2xx answer to CONNECT has
no body, and what follows another one is never looked at); every response has an
empty line (for one that has none the code waits for more until the connection
timeout of `WebSocket`); and a response that the client takes ends there too, so that
behind it there are frames only.  It says nothing of what a response has to contain:
that the parser takes only responses with the code, the upgrade and the accept header
(`Upgraded`) is proved, from what `ParseHttpLines` does with their symbols.

Model-checked only is liveness: `CallsReturn`, `LostConnectionIsClosed`, `ClosedIsAnnounced`,
`SentCloseEnds`, `CloseTimesOut`, `SilentPeerIsDropped`, `SendsReturn`,
`EndIsReported`, `BroughtIsGiven`, `ConnectEnds`,
`DisconnectedIsRemoved`, `ReadyIsServed`, `TimeoutIsServed`, `JoinEnds`,
`TeardownHappens`, `CleanupEnds`.  The prover has neither fairness nor `ENABLED`.

## Plan

Done: every component with state of its own that the table above names, and a
theorem for every safety property that holds in general.  What would come next needs
more model first:

1. `attempt()` and file descriptors, so that a leaked socket is a violation.
2. The connection timeout across a second `open()` in `WebSocketImpl`
   (websocketimpl.cpp:522), with a property of which attempt a timeout may end.
3. `SendPath` and `WsTransport` as one module: a pong and the echo of a close frame
   are sent by the thread that parses.

## Not modelled

* Parsing of URLs, the text of requests, hashing and keys (`sha.cpp`, most of
  `wshandshake.cpp`): data.  `parseHttpRequest()`, `generateHttpResponse()`,
  `generateHttpError()` and the server side of `WsTransport::incoming()` are not
  reached by a client.
* Certificates and the set-up of the TLS libraries (`certificate.cpp`, `tls.cpp`,
  the constructors of `TlsTransport`): calls of libraries without state here.
* Configuration, logging, utilities: data and I/O.
* In the C API, functions that set one callback or copy one value; in `Channel`,
  the callbacks for errors and for the buffered amount.
* File descriptors: that `attempt()` leaks the socket of a failed address
  (tcptransport.cpp:205) is listed as a hazard without a property.
