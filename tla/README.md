# Cetty in TLA+

Cetty is a C++ port of the Netty 3 network framework on top of boost::asio.
This directory holds TLA+ models of its asynchronous core, TLC configurations
that check them on small instances, and TLAPS proofs for every size of the
instance. Paths below are relative to the repository; `cetty/` stands for
`src/cetty/` (implementation) or `include/cetty/` (headers).

## 1. Inventory

| Component | State | Operations | Hard behaviour | What makes it correct |
|---|---|---|---|---|
| **Channel future** `channel/DefaultChannelFuture.cpp` | `done`, `cause`, three listener slots/lists, progress listeners, `waiters`, a condition variable | add/set/removeListener, setSuccess, setFailure, cancel, setProgress, await in four forms | any thread calls anything; listeners are called outside the mutex; spurious wake-ups, interruptions, timeouts | completed once; each listener told exactly once, in order; no waiter hangs or leaves early |
| **Client socket channel** `channel/socket/asio/AsioSocketChannel.cpp`, `AsioClientSocketPipelineSink.cpp` | life cycle state, socket, interest ops, outstanding operations | connect, write, close, disconnect, unbind, setInterestOps; handleConnect, handleRead, handleWrite | calls posted between threads; completions and aborts that arrive after a close; retries of connect | queue and outstanding handlers in step; one end of life; every write answered truthfully; reading goes on |
| **Write queue** `AsioWriteRequestQueue.*` | queued operations, byte count, `highWaterMarkCounter` | offer, poll, cleanUpWriteBuffer | marks hit exactly or jumped over; clean-up while writes are under way | byte count is the sum of the queue; a stalled user is released |
| **Channel pipeline** `channel/DefaultChannelPipeline.cpp` | doubly linked list of contexts, two event chains, name map, attachment | addFirst/Last/Before/After, remove (3), replace, attach, sendUpstream/Downstream, life cycle callbacks | events follow the chains without the mutex while they are rebuilt; callbacks throw in the middle of a modification; contexts are deleted | list, map and chains agree; events move forward and end; no context is used after its deletion |
| **Server channel and sink** `AsioServerSocketPipelineSink.cpp`, `AsioAcceptedSocketChannel.h` | acceptor, map of children | bind, accept, start of a child, close, child close | children closed while they are started; accepts that succeed while the server is closed; failed binds of a shared acceptor | one accept kept going; a closed server's loop ends; close reaches every child |
| **I/O service pool** `AsioServicePool.cpp` | services, threads, round robin index, `running` | getIOService, run, stop, waitForExit | index shared by threads; run blocks before `running` is set | index in range; stop ends run |
| **Frame decoders** `handler/codec/frame/*` | cumulation buffer, discarding state | messageReceived, callDecode, decode, cleanup | frames split over reads; too long frames; negative lengths | frames do not depend on the split |
| **Replaying decoder** `handler/codec/replay/*` | cumulation, checkpoint, state | callDecode, checkpoint, cleanup | replay after missing bytes | same messages as with all bytes at once |
| **HTTP codec** `handler/codec/http/*` | decoder state, chunk size | decode | states crossed by partial input | message, chunks and trailer in order |
| **Timeout handlers, timer** `handler/timeout/*`, `util/internal/asio/*` | timeouts, last read/write time | initialise, destroy, run, messageReceived | expiry queued when the timeout is cancelled | an idle channel is reported, a busy one is not; nothing after destroy |
| **Channel base, Channels** `channel/AbstractChannel.h`, `channel/Channels.cpp` | close future, static id map | event factories, allocateId | unsynchronised map | ids are unique |
| **Datagram channel** `AsioDatagramChannel.cpp`, `AsioDatagramPipelineSink.cpp` | as the socket channel | bind, connect, write, close | as above | as above |
| **Buffers, codecs, bootstraps, addresses, URI, logging** | sequential data | conversions, wiring | none across threads | - |

How they interact: a user thread calls the channel; the channel posts the call
to its `io_service`; on the I/O thread the call becomes a downstream event that
travels through the pipeline to the sink, which calls the channel's operation.
Completions from asio run as handlers on the same thread; they complete futures
and send upstream events through the pipeline. Futures call their listeners on
the completing thread and wake the threads that wait in `await`.

## 2. Modules

| Module | Models | Uses |
|---|---|---|
| `OnceFuture` | what `ChannelFuture.h` promises (abstract specification) | - |
| `ChannelFuture` | `DefaultChannelFuture` | `OnceFuture` (INSTANCE, refinement mapping) |
| `ChannelFutureProofs`, `SocketChannelProofs`, `ChannelPipelineProofs`, `ServerChannelProofs`, `TimeoutsProofs`, `FrameDecoderProofs`, `HttpDecoderProofs` | theorems about the module of the same name | that module, `SequenceLemmas` where needed, TLAPS |
| `SequenceLemmas` | lemmas about least counterexamples, functions defined by recursion over numbers, parts of sequences and marked positions | TLAPS |
| `SocketChannel` | `AsioSocketChannel`, write queue, client sink | - |
| `ChannelPipeline` | `DefaultChannelPipeline` and its contexts | - |
| `Timeouts` | `IdleStateHandler`, `ReadTimeoutHandler`, `WriteTimeoutHandler` composed with the timer of their I/O thread | - |
| `FrameDecoder` | `FrameDecoder`, its three framings, the buffers they use | - |
| `ServerChannel` | `ServerBootstrap::bind`, server sink, acceptor, accepted channels, service pool | - |
| `HttpDecoder` | `ReplayingDecoder` composed with the HTTP request decoder | - |
| `MC...` | instances for TLC | the module of the same name |

Definitions whose names end in `_Something` and are commented as mutants are
faulty variants of the definition before the underscore. They are not used by
any specification; putting one in the place of its original must break the
property named in `PROJECT.json`, which shows that the property depends on that
piece of code.

### ChannelFuture

One action per critical section of `mutex`, and one per call of a listener,
because listeners run outside the mutex. `pc[t]` says where a thread is
(`first`, `others`, `function` are the three parts of `notifyListeners`;
`late` is the call a thread makes for a listener it added too late; `await`,
`timed`, `timedUninterruptibly` are the waits) and `todo[t]` what its loop still
has to call. A registration is the number of the call that made it; `status`
and `told` record its history. `setListener` replaces the function set before,
`removeListener` of the first listener promotes the next one and keeps other
registrations of the same listener, `list::remove` drops all: as in the code.
`waiters` is incremented before each wait and decremented only when a wait
throws; a wait that ends normally leaves its increment behind. Unlike the Java
original, `await()` swallows an interruption and waits on. The deadlock checker
is commented out in the code and absent here.

`Outcome` and the mapping of `Once` relate the state to `OnceFuture`:
`ImplementsOnce` says that every step is a completion, a subscription, a
withdrawal, a delivery or nothing. The subscribers of `OnceFuture` are the
registrations made by `addListener` (`Added`). Those made by `setListener` are
left out of the mapping: `ChannelFuture.h` makes them the same promise, but a
function that is replaced is never told, which run `future_set` shows.

### SocketChannel

`posted` is the queue of the `io_service` for calls from other threads.
`net` holds the asynchronous operations: the connect attempt, the writes in the
order they were started and the numbers of reads that are busy, done or failed.
`System`, `ReadArrives` and `ReadFails` are what asio and the network do
(external); `Handlers` are the channel's handlers, each with everything it
calls. `CloseSucceeds`/`CloseThrows` are the two ways `close(future)` ends. The
first fires the events of `Ending`: disconnected, unbound and closed of a
connected channel, which is also bound, and closed alone of any other. In the
second the channel counts as closed but the queue is not cleaned: `shutdown` of a
connected socket throws and the operations go on, or `tcpSocket.close()` throws
after it has aborted them. `ConnectThrows` is a connect whose address cannot be
resolved. Of `getInterestOps` only the read part is modelled. `inOrder` tells whether asio ends the writes in the
order they were started; both are explored because the code starts a second
`async_write` while the first is under way. A `poll` of an empty deque is
undefined behaviour: `fault` is set and the behaviour stops there.

### ChannelPipeline

A context is the number of the `new` that made it, with its list pointers and
its two chain links. An operation takes the mutex and changes the list and the
map in one step (only holders of the mutex read them), then leaves in `work`
what the holder still has to do: clear and rebuild a chain, one context per
step because events read the chains without the mutex, call `afterAdd` and
`afterRemove`, which may throw, delete. `Unwind` is an exception that leaves the
operation, up to the catch clause in `replace`. An operation that throws before
it changes anything is no step. Events are at a handler, which forwards,
consumes or throws; a throw becomes one exception event from the upstream head.
So does a throw of the sink at the end of a downstream event (`SinkThrows`).
Following a pointer to a deleted context, or deleting twice, sets `fault` and
stops. Memory is not reused in the model.

### Timeouts

Time is a clock of milliseconds. A timeout is `waiting` until its deadline and
`queued` once asio has put its handler on the queue of the I/O thread; `cancel()`
only reaches the first kind. `held` says that somebody can still cancel this
timeout: the handler's pointer refers to it (the one `destroy` would cancel), or,
for a write, the listener that `WriteTimeoutHandler` set on the future does. That
listener sits in the one slot of `setListener`, and the action `setListener` is a
user who puts another one there. `dangling` says that the task, context
or future its handler uses is gone; running such a handler may set `fault`, where
the behaviour stops. `Tick` lets time pass only while no timeout is more than
`MaxLag` late, which stands for an I/O thread that keeps up. One `RunMonitor`
models the three `run()` methods and `handleReadTimeout`, which differ only in
the activity they look at; a report may make a handler upstream close the
channel inside the call. `Pointers` holds what the three task pointers that no
constructor initialises may contain.

### FrameDecoder

The stream, the framing and the kind of buffer are chosen in `Init`. `Receive`
delivers any number of bytes; then `callDecode` runs, one iteration per step,
because each iteration calls a handler and the handler may close the channel:
`Close` pushes the two calls that `cleanup` makes on top of the running one.
`decode` is a function from a buffer and the discarding state to an outcome, one
operator per framing. `AfterReadBytes` rewinds a buffer that is read to its end, which
is why a frame with its delimiter that ends the buffer looks to `callDecode` as
if nothing had been read (`Throw`). The reference (`Division`) divides the first
n bytes of the text without any decoder state. `Robust` names the decoders whose
frames cannot depend on the reads: fixed lengths, and delimiters of which none
lies inside another before its end (`Separate`), of one byte each or in a stream
that is no longer than a frame may be. Lengths are small enough not to overflow.

### ServerChannel

The acceptor belongs to the factory and is shared by all its server channels;
`accepts` are the asynchronous accepts with their channel, `boss` is how far
`start()` of a new child has got on thread 0. Between its steps the child's own
thread, or on thread 0 a handler, may close it. `cached` are the addresses of a
child that somebody has read: `getLocalAddress` and `getRemoteAddress` keep what
they found, so that a closed channel still has valid addresses and `start()` goes
on (`AddressValid`, `ReadAddress`). `Inserted` is the identity on
`tracked` because `serverChildrenChannels()` returns a copy. When `start()`
returns false the channel is deleted and then asked for its id: `fault`.

### HttpDecoder

The bytes of a request are symbols: a word, a header name, a digit, a space, CR,
LF, and the zero bytes the decoder itself writes over line ends and header names
(a replay meets them again). `decode` is one operator per decoder state; its
outcome says which reader index and state it leaves, whether a read found too
few bytes, what it returns, whether it set a checkpoint, and whether it threw or
used a NULL string. `callDecode` is `Iterate`, `WaitForMore` (back to the
checkpoint), `AllRead` and `Throw`. `split` remembers that a read ended inside
a first line, or after the first header and before the end of the headers: there
the decoder goes wrong (run `http_split`, section 6), and `RequestsIntact` speaks
of all other ways to cut the stream. The reference is `AllDue`: what the first n
bytes of the stream amount to, request by request (`Due`), with the slices of a
long content that have arrived completely (`SlicesDue`, `SliceOf`); it depends
on the requests, the size of a slice and n only. The property is about streams of
`WellFormed` requests (`Plain`): a content of the announced length, values that
are not empty and have no line end in them, no chunked coding, whose faults are
in section 6.

## 3. Runs

| Run | Question | Result |
|---|---|---|
| `future` | completion, notification, order, refinement, waits, liveness of `DefaultChannelFuture` | holds, about 99 000 states |
| `future_set` | setListener "adds the specified listener [...] is notified when this future is done" | refuted: a second setListener replaces the first function |
| `socket` | queue accounting, handlers in step with the queue, truthful success while open, water marks, reads armed, life cycle, every write answered | holds, about 411 000 states |
| `socket_success` | isSuccess "if and only if the I/O operation was completed successfully" | refuted after a close: the completion of a sent write is credited to an aborted one |
| `pipeline` | list, names and chains agree, events move forward and end | holds, about 485 000 states |
| `pipeline_removed` | handlers "can be added or removed at any time" | refuted: the link to a removed last handler stays |
| `timeouts` | one timeout per monitor, silence reported in time and not too often, cancelled timeouts do not expire, writes time out | holds, about 7.2 million states |
| `frames` | frames independent of the reads, buffer bounded, the loop returns | holds, about 71 000 states |
| `server` | accept loop kept going exactly once, at most one late child, order of a child's events, the loop of a closed server ends | holds, about 161 000 states |
| `server_late` | the future of a close "is notified after a new connection cannot be accepted anymore" | refuted: an accept that had succeeded is started after the close |
| `http` | requests intact, in order, once, as soon as complete | holds, about 52 000 states |
| `http_split` | splitInitialLine: "true can read out a line completely" | refuted: a part of a line is accepted |

The passing runs allow the undefined behaviour of the code (a deque polled
empty, a deleted context, channel or task used, a write past a buffer, a NULL
string) and stop at it: `fault` is set and no step follows. Their properties
therefore speak of all behaviours up to the first undefined one, and liveness
properties exempt a behaviour that has met one. `CHECK_DEADLOCK FALSE`
everywhere: a future that has been used up, a closed channel, an idle pipeline
and a stream that has arrived really stop.

### Bounds

* `future`: two completers, two registrars, two waiters, two listeners (one of
  them a progress listener), three registrations, two disturbances. Three
  registrations are the least that make a first listener, a promotion and a
  remaining order; the budgets (`MCBudgets`) cover the races one by one:
  completer against completer, registrar against registrar and against the
  notifier, waiter against completer.
* `socket`: three writes of sizes (2,2,1) and (3,0,2) around the marks 2 and 4,
  so that both marks are met exactly, jumped over and passed by an empty
  message; two endpoints give one retry of connect; three toggles suspend and
  resume reading twice.
* `pipeline`: starting from zero, one and three handlers, two operations and one
  event; five contexts. First, middle, last and only handler are all modified,
  and a replace whose callbacks throw runs against an event.
* `timeouts`: one write, a clock of five milliseconds, a lag of one, three
  handlers added or removed, three configurations: both handlers on the reads,
  writer and all-idle together, and times below or between milliseconds. Five
  milliseconds hold two periods, so that a monitor is re-armed after activity,
  reports, and has its handler removed and added again. Handlers are added before
  and after the channelOpen event, not during it (see section 6).
* `frames`: every stream of length five over a content byte and two delimiter
  bytes, and longer ones, in every cut, for fixed lengths 2 and 3, one and two
  byte delimiters, with and without stripping, with a maximum that is met, and
  with an own buffer too small for the stream. A length field decoder is among
  them, with three values of its uninitialised counter.
* `server`: two I/O threads, so that children live on the acceptor's thread and on
  another one; two servers one after the other; four channels, enough for one
  late child per server and for one that is started before it.
* `http`: all pairs of six kinds of requests (no header, CRLF and leading line
  ends, empty content, content in one piece, content in slices, 100-continue),
  two single ones with slices of one byte, three chunked ones, and a buffer that
  is too small for two requests.

Each bound is a constant named in the module and assigned in the `.cfg`.

### Fairness

* `ChannelFuture`: weak fairness of each thread's `Continue`, i.e. threads are
  scheduled and listeners return. Nobody is obliged to make a call, and timeouts
  need not expire.
* `SocketChannel`: weak fairness of the I/O thread for posted calls and for
  handlers (`io_service::run` does not starve either) and of the system ending
  writes and connects, well or with an error. Reads may stay outstanding for
  ever.
* `FrameDecoder`: weak fairness of the running call: an I/O thread does not stop
  in the middle of `callDecode`, and handlers return.
* `ServerChannel`: weak fairness of I/O thread 0 and of the clean-up that a failed
  `bind` makes on the calling thread.
* `Timeouts` and `HttpDecoder` have safety properties only; that silence is
  noticed is the bounded property `DetectedInTime`.
* `ChannelPipeline`: weak fairness of the holder of the mutex and of every
  handler that has an event.

## 4. Proofs

`ChannelFutureProofs` proves, for all finite sets of threads, all sets of
listeners and all bounds (assumptions `FutureAssumption`, `FunctionAssumption`):

* `TypeCorrect`, `WaitersAreCounted`: `TypeOK` is not inductive alone, because
  `waiters - 1` might leave the naturals; the invariant is its conjunction with
  `WaitersCounted`. A thread that decrements is itself inside a wait, so the
  count is positive (`WaiterPositive`); each step adds or takes at most one
  thread, and `waiters` follows (`CountEnter`, `CountLeave`, `CountSame`).
* `ListenersToldExactlyOnce`: the inductive invariant `NotifyInv` says where every
  registration is. `ListsInv`: a slot or list holds registered ones that differ
  from each other. `PendingInv`: before the completion nothing is told and nobody
  notifies. `NotifierInv`: at most one thread is inside `notifyListeners`, and
  what it still has to call is untold. `LateInv`: a late registration is owed by
  exactly one thread. `OwedInv`: after the completion a live registration is told
  or owed by the notifier or by its own thread. `ExactlyOnce` follows.
* `ListsAreFrozen`: the comment above `notifyListeners`, as an action property.
* `FutureImplementsOnce`: step simulation of `OnceFuture` for the listeners of
  `addListener`; the proof of each step uses `NotifyInv` (a told registration is
  live and was not told before), and a step of `setListener` is a stutter.
* `ListenersToldInOrder`: `OrderInv` adds that registrations are used in
  ascending order, that the first listener is smaller than the others, and that
  nothing registered has been told while the notifier is still at the first one.

`SocketChannelProofs` proves, for all sets of writes, all sizes, marks with
`Low <= High`, numbers of endpoints and toggles (`SocketAssumption`):

* `TypeCorrect`, `QueueSizeExact`, `WritersResume`, `OneHandlerPerWrite`,
  `ReadsGoOn`: one inductive invariant `MainInv`. Besides these properties it
  says that nothing is queued, under way or waiting before the connection is
  there (`OpenInv`), that the connect of a connected channel has ended
  (`ConnInv`), that a closed channel has its close future completed and no other
  has (`CloseInv`), and that every waiting `disconnect` was called (`DiscInv`).
* `StaysClosed`: from `MainInv`, one step at a time.
* `LifecycleInOrder`: `LifeInv` relates the events fired so far to the state: a
  channel whose close future is not completed has fired no closing event (`Young`),
  a connected one has fired connected, and closing events come together (`Paired`)
  and once (`OneEnd`).
* `SuccessIsTransfer`: `SentInv` says of the steady runs the property is about
  that no `handleWrite` has been posted, that a write under way that ended well
  has been sent, and, while the channel is open, that the i-th write under way is
  the i-th of the queue: what `poll` takes is what has been sent.

`ChannelPipelineProofs` proves, for all names, kinds, events, prebuilt pipelines
and bounds (`PipelineAssumption`; a prebuilt pipeline fits the bound on contexts
and has no name twice, because `addLast` refuses one):

* `TypeCorrect`, `ListStaysMirrored`, `NamesStayMapped`, `ChainsCover`: one
  inductive invariant `PipeInv`. It says that there is a sequence of contexts
  `f[1], ..., f[k]`, which no variable holds, such that the pointers lead along
  it both ways (`Linked`) and the rest conforms to it. `NamesInv`: the map has
  its names. `StaleInv`: an entry of the map refers to a listed context, a
  deleted one, or one whose `delete` can no longer be skipped: `replace` under
  the same name leaves the entry with the old context, whose `delete` stands
  right behind the catch clause. `WorkOK`: the holder of the mutex rebuilds chains
  first, calls only listed contexts, deletes only unlisted ones, and adds at most
  one handler. `ChainInv`: a chain that nobody has still to rebuild is complete,
  the one being rebuilt is complete behind the walk. `LinkInv`, `KnownLinks`,
  `KnownHeads`, `KnownEvents`: links between listed contexts lead forward, and
  nothing refers to a context that was not made.
* Every step then inserts, removes or replaces one element of the sequence
  (`InsertKeeps`, `UnlinkKeeps`, `ReplaceKeeps`) or leaves it alone; that the
  order of the others stays is one lemma for the three (`OrderKept`). The
  properties are about the recursive walk from `head`; `WalkIs` and `PrecedesIs`
  show that it meets `f[1], ..., f[k]`.
* `EventsForward`: only `Forward` moves an event to the next context, along a
  link, and `LinkInv` holds also between the steps of a rebuild.

`ServerChannelProofs` proves, for any number of servers, children and I/O
threads (`ServerAssumption`):

* `TypeCorrect`, `AcceptLoopArmed`: `PlaceInv` ties each pending accept to a
  waiting child of its server and says that a server has one accept or is in its
  loop, never both; `ArmedInv` is the property with what the acceptor's state says
  about pending accepts; `ChildInv` says which child belongs to which server.
* `OneLateChannel`: once the server bound last has a late child, it is closed and
  its pending accept, if any, has failed, so that no second one follows
  (`LateInv`). This is what is left of the comment that run `server_late` refutes.
* `EventsInOrder`: the events of a child on thread 0 are determined by how far
  `start()` has got and by the child's state; a child that was closed inside of
  `start()` and goes on has one of the two longer orders of `LegalOrders`.

`TimeoutsProofs` proves, for all writes, periods, units, lags and bounds
(`TimeoutsAssumption`):

* `TypeCorrect`, in particular that re-arming computes no negative delay.
* `WritesAreTimed`: `WriteInv` adds that a write has at most one timeout; the
  handlers of the monitors leave it alone. That an answered write has no timeout
  waiting is claimed, and true, only as long as the handler's listener has not been
  replaced (`held`).
* `OneChain`, `CancelComplete`: `ChainInv` says that a timeout whose task lives
  belongs to an installed handler (`Rooted`), that a waiting one is the one the
  handler can cancel, that no monitor has two (`Single`), and that one which
  watches has one (`Armed`).
* `SilenceDetected`, `ReportsApart`: `TimeInv` bounds every deadline by the last
  activity or report plus a period from above and by the last report plus a
  period from below; `ChainInv` supplies the timeout that the bound is about.

The last four assume `"during" \notin AddPoints`, as the run `timeouts` does: a
handler that is added while `channelOpen` travels is initialised twice (section
6), and then the chains really are doubled.

`FrameDecoderProofs` proves, for streams of any length, all fixed lengths,
delimiters, maxima, strip flags and capacities of the read buffer
(`FrameAssumption`; a delimiter is not empty, and a length field lies within the
maximum, because the constructors refuse anything else):

* `TypeCorrect`: in particular no reader index passes its writer index as long as
  nothing outside of a buffer has been used.
* `BuffersBounded`: between two messages the unread bytes are at most as many as
  those of the longest frame with its delimiter. The bound alone is not inductive, because it says nothing while
  calls are under way. `CallsInv` says which calls of `callDecode` can be nested in
  which (a message inside nothing, the two of `cleanup` on a closed channel), and
  `PlaceInv` that the unread bytes are in one buffer only: the channel's own one,
  the piece that is being decoded, or the gathered bytes.
* `SplitsIndependent`: the frames taken out do not depend on the reads.
  `SplitIndependent` speaks of the moments between two messages only; `DivideInv`
  adds what holds inside of them. There is a byte `pos` such that the frames and
  reports so far, followed by those of the division after `pos`, are those of the
  whole text, whatever is still to arrive (`CountedAt`); the unread bytes are those
  of the text from a byte `q` on, and `q` is `pos` unless a too long piece is being
  discarded (`Here`). `DecodeReads` shows of the fixed length and of the delimiter
  framing that every `decode` waits, discards, or takes the piece that begins
  after `pos`, and `Sure` that no later byte makes that piece another one: this is
  where `Separate` is needed. When no call is under way there is no piece after
  `pos`, and the property follows.

`HttpDecoderProofs` proves, for all sequences of requests, all sizes of slices
and of the read buffer (`HttpAssumption`):

* `TypeCorrect`: each decoder state returns a buffer of the same length, a reader
  index inside of it and a chunk size that is not negative (`IsOutcome`). The
  inductive invariant is `HttpInv`, `TypeOK` with `ContentInv`: content of a fixed
  length is read only when its length is positive, for the length of a request
  without the header is -1.
* `RequestsReceived`: whenever no read is being handled, what was sent upstream is
  `AllDue`. `RequestsIntact` says nothing of the decoder's state, so it is not
  inductive; `StreamInv` and `SoundInv` are added. `StreamInv`: the buffer holds as
  many bytes as have arrived, none of the reads so far has cut a head, and only a
  closed channel is being cleaned up. `SoundInv`: the unread bytes are those of the
  stream (`Unread`; those before the reader index may have been overwritten with
  zero bytes), the decoder is at a known place of some request i, one for each of
  its states, and exactly the messages before that place have been sent (`Reads`);
  between two reads it also has to wait there for more bytes (`Rests`). The proof
  has a lemma for every decoder state about what it makes of the bytes at its
  place: it goes on to the next place, or finds too few bytes and is rewound to
  the one where it was (`DecodeReads`). A last lemma, `RestsDue`, shows that
  nothing is owed where the decoder has to wait, which includes the slices.
  Because of `~split` the first line and the header lines arrive as the decoder
  needs them; the proof uses this for those two states alone.

`Robust`, `WellFormed` and `split` are the limits of these two results. Each
stands for a way in which the code differs from the reference (section 6, and
header values that start with a space, which the decoder trims).

Induction over numbers and sequences is done by the least counterexample
(`LeastNumber`, `UpTo`, and `Upward` and `Downward` for functions that recur over
numbers, in `SequenceLemmas`), which needs no theorem with an operator parameter.

Every safety and action property of the passing runs is the subject of a
theorem. Only model-checked: the liveness properties `AwaitReturns`,
`EveryListenerTold`, `EveryWriteAnswered`, `EventsEnd`, `CallsReturn` and
`AcceptLoopEnds`, because fairness and `ENABLED` are outside the prover's reach.

## 5. Not modelled

* Calls that a handler makes from the I/O thread run at once in the code and are
  not modelled separately from posted ones; `bind` of a client, socket options
  and addresses; recursive pipeline operations from life cycle callbacks; the
  content of messages. The future of `connect` and the events that report failed
  writes have no reader in the model and are left out.
* Responses: their decoder shares the states modelled in `HttpDecoder`, plus
  content up to the end of the connection, which reads `Integer::MAX_VALUE` bytes
  of a buffer that never has them. `maxChunkSize` 0, the maximum sizes of lines
  and headers (`HttpMessageDecoder.cpp:581-591`, `633-642`), encoders, cookies and
  the aggregator.
* The content of WebSocket handshakes: a GET with both `Sec-WebSocket-Key` headers
  has eight bytes of content (`HttpHeaders.cpp:519-528`). These names are not among
  the headers of `HttpDecoder`.
* What lies behind a first line that has arrived in part: `HttpDecoder` takes it
  for NUL. `HeapChannelBuffer.cpp:39` does not initialise it, so that
  `HttpVersion::valueOf` may throw there instead. A first line of more than three
  words that ends in the version is accepted by the model where `HttpVersion.cpp:60`
  throws; the first line of a request in the model has three words, so that this
  concerns only lines that a cut or a fault of the headers has put together.
* `bind` of a server, with `listen`, `channelBound` and the first accept, is one
  step: they run on one thread, and what a handler of `channelBound` could do in
  between is what it can do after it.
* `run`, `stop` and `waitForExit` of the service pool: thread start and join.
* The datagram channel is unfinished in the code (`disconnect` and
  `setInterestOps` commented out, `AsioDatagramWorker.h` is Java).
* The static map of channel ids is changed without a lock by any thread that
  creates or deletes a channel.
* Base64, string and protobuf codecs, URI and address parsing, logging and client
  bootstrap hold no protocol state.
* Third-party code (gtest, protobuf) and the examples.

## 6. Observations

Where the code does not do what a reader would expect. The models contain this
behaviour, as undefined behaviour that ends a behaviour (`fault`) or as what the
action does, and the properties are stated so that they hold with it; some are
beyond the models and are noted from reading.

Future: `setProgress` calls listeners after releasing the mutex, so a progress
event can follow the completion although the comment at
`DefaultChannelFuture.cpp:343` excludes it. `setListener` replaces, although
`ChannelFuture.h` speaks of adding (run `future_set`).

Client channel: `cleanUpWriteBuffer` keeps one operation for the write that is
under way, but all queued writes are; the second late `handleWrite` polls an
empty deque. A close during `connect` is retried with the next address and opens
the socket of a closed channel. `highWaterMarkCounter` is lowered at the low mark
also when the high one was never reached; once it is negative, `getInterestOps`
judges by the high mark where it should by the low one, and the channel becomes
writable between the marks although no `channelInterestChanged` says so.

Pipeline: replacing the first or the last handler deletes its context twice.
Removing the only handler through `remove(ctx)` calls no life cycle callback.

Timeouts: `stop()` reaches only waiting timeouts and does not keep new ones from
being made; the timer never forgets a timeout; the task pointers of
`IdleStateHandler` are not initialised; an all-idle time below one millisecond
becomes 0 because the rounding assigns the parameter; `WriteTimeoutHandler`
binds a reference to the event's future, which is gone when the timeout expires;
a handler that an earlier handler adds during `channelOpen` is initialised twice
and then has two chains of timeouts; `expiresFromNow` for a task is commented
out. `WriteTimeoutHandler` registers its listener with `setListener`; a user who
sets one on the same future replaces it, and the timeout of the answered write
expires all the same (action `setListener`).

Frames: both constructors of `LengthFieldBasedFrameDecoder` set
`discardingTooLongFrame`, and `decode` never sets it back: a length field decoder
delivers no frame at all. On a channel with its own buffer there is no cumulation, and `cleanup`
returns without passing `channelClosed` on; otherwise it passes it on only after
an exception. A frame that keeps its delimiter and ends the buffer is thrown away
with an `IllegalStateException`. A two-byte delimiter that is cut while a too
long frame is discarded is not recognised (`Robust` excludes it). When one
delimiter lies inside another, and not at its end, it depends on the reads which
of the two ends the frame: the inner one, if its bytes arrive before the outer one is
complete, and else whichever gives the shorter frame (`Separate` excludes it).
`writableBytes`
offers more bytes than there is room for. Frames of the fixed length decoder
share the memory of the buffer that is compacted under them.

Server: the loop of a closed server goes on when another server is bound to the
shared acceptor before its pending handler runs. Closing an old server again
closes the acceptor of the new one. A connection that was accepted before the
close is started after it, although the comment at
`AsioServerSocketPipelineSink.cpp:254` excludes this (run `server_late`).
`handleAccept` inserts the started channels into a copy of the map
(`AsioServerSocketPipelineSink.h:96`), so that closing the server reaches none of
them although the comment at line 274 says "close all children Channels".
`start()` returning false is followed by a use of the deleted channel. With a
child on another thread, or when a handler has read the addresses before it closed
the child, `channelConnected` can follow `channelClosed`. A pool without threads blocks in
`run()` inside `newChannel`.

HTTP: a replay of headers meets the zero bytes of the first attempt and adds
headers again; an empty header value builds a string from NULL; a folded header
makes `trim()` loop for ever; a chunk size loses its last digit; an incomplete
trailer is taken as complete and its headers are dropped, because
`equalsIgnoreCase` always returns true; the channel's own buffer is never
compacted, so a connection stalls when it is full; a handler that closes the
channel in `messageReceived` makes the loop use a reset pointer; `channelClosed`
before the first read is swallowed; one request object is used for all requests.

## 7. Plan

1. Future, client channel, pipeline with their runs; proofs about the future. (done)
2. Frame decoders, server and pool, timers, replaying and HTTP decoder. (done)
3. Proofs about the future's order, the client channel, the pipeline, the server
   and the timeouts. (done)
4. Proofs about the frame decoders and the HTTP decoder. (done)

What is left is outside of these models: responses and encoders, the life cycle
of the service pool, and the datagram channel once it is finished.
