# A TLA+ model of NetPulse

NetPulse is a C++20 TCP server on Linux: one I/O thread runs an epoll event loop, a pool
of worker threads processes length-prefixed frames, and an eventfd carries the results
back to the I/O thread.  This directory models its concurrent core, the byte streams on
both sides of a connection and the ownership of descriptors, checks them with TLC on small
instances and proves part of it with TLAPS for every instance.

## The system

| Part | State | Operations | Talks to |
|---|---|---|---|
| `BoundedQueue<T>` | `queue_`, `closed_`, `mutex_`, `not_empty_` | `tryPush`, `waitPop`, `close` | its callers, through the condition variable |
| `ThreadPool` | `tasks_`, `workers_`, `stopped_`, `stop_mutex_` | constructor, `trySubmit`, `workerLoop`, `stop`, destructor | `BoundedQueue` |
| `ProcessingDispatcher` | `notifier_`, `completed_`, `error_number_`, `pool_` | `trySubmit`, `publish` (worker side), `consumeNotifications`, `takeCompleted`, `stop`, destructor | `ThreadPool`, `EventFd`, the event loop by polling |
| `EventFd` | a kernel counter | `notify`, `consume` | kernel |
| `processFrame` | none | maps a task to its result | |
| `EventLoop` | `connections_`, `next_connection_id_`, `epoll_`, `listener_`, `dispatcher_` | `run`, `acceptReadyClients`, `handleProcessingResults`, `handleClientEvent`, `updateInterest`, `closeConnection` | epoll, sockets, dispatcher |
| `Connection` | socket, `decoder_`, `write_buffer_` | `readAvailable`, `queueFrame`, `flushWrites`, `wantsWrite` | socket, decoder, write buffer |
| `FrameDecoder`, `FrameWriteBuffer` | byte buffers with an offset | `append`/`decodeNext`; `enqueue`/`flush` | socket |
| `sendFrame`/`receiveFrame`, `sendAll`/`receiveExact` | none | blocking loops | socket |
| `Socket`, `Epoll`, `setNonBlocking` | a descriptor | ownership, registration | kernel |
| `apps/server`, `tools/device_simulator` | none | main programs | all of the above |

What is hard in it:

* the notifications of `BoundedQueue` happen after the lock is released, several workers
  sleep on one condition variable, and `stop()` may be called by several threads;
* results cross from the workers to the I/O thread in two unlocked halves on either side
  (push then write the eventfd; read the eventfd then take);
* descriptors are reused while tasks, results and epoll events of their former owner are
  under way;
* one read may bring more frames than the queue holds, one flush less room than there are
  responses, and the interest in EPOLLOUT has to follow;
* a read or a send may end anywhere inside a header or payload, while both buffers erase
  what is behind their offset;
* every system call has a failure branch, and the destructors have to end all threads in
  the right order.

Correct means: no wakeup, result or frame is lost or doubled; responses reach the client
that asked; a connection, its registration and its descriptor live and die together; stop
and shutdown end, and end with everything drained.

## Modules

| Module | Models | Built on |
|---|---|---|
| `TaskPool` | what `ThreadPool` promises: a bounded FIFO drained by workers, final close, join when quiet | |
| `BoundedQueue` | `bounded_queue.hpp` | |
| `ThreadPool` | `thread_pool.cpp` | extends `BoundedQueue`; implements `TaskPool` |
| `ProcessingDispatcher` | `processing_dispatcher.cpp`, `event_fd.cpp`, `processing.cpp` | uses `TaskPool`'s actions |
| `EventLoop` | `event_loop.cpp`, `connection.cpp`, `epoll.cpp` | extends `ProcessingDispatcher` |
| `FrameCodec` | the wire format: `htonl`, `ntohl`, header and payload | |
| `FrameDecoder`, `FrameWriteBuffer` | `frame_decoder.cpp`, `frame_write_buffer.cpp` | extend `FrameCodec` |
| `ByteStream` | a TCP connection as both programs see it (external) | extends `FrameCodec` |
| `Connection` | `connection.cpp` byte by byte, as `event_loop.cpp` drives it | extends the three above |
| `BlockingFrames` | `io.cpp`, `frame.cpp` | extends `ByteStream` |
| `RequestReply` | what an exchange promises a device: at most one handling, the reply to it, an end | |
| `DeviceExchange` | `device_simulator/main.cpp` against a connection | extends `Connection`, `BlockingFrames`; implements `RequestReply` |
| `DescriptorOwner` | `socket.cpp`, and the owning side of `epoll.cpp` and `event_fd.cpp` | |
| `DescriptorOwnerProofs`, `ThreadPoolProofs`, `ProcessingDispatcherProofs` | theorems about the modules they are named for | |
| `EventLoopProofs`, `EventLoopDeliveryProofs` | theorems about `EventLoop`: its tables and events; what becomes of a frame | extend `ProcessingDispatcherProofs` |
| `FrameCodecProofs` | headers and lengths determine each other; induction over numbers | |
| `ConnectionProofs`, `DeviceExchangeProofs` | theorems about the byte-level modules | each extends the one before |
| `MC*` | instances for TLC: symmetry sets, sets of frames and payloads, bounds on outstanding tasks and on the stream | |

**BoundedQueue, ThreadPool.**  A critical section of `mutex_` is a step, the
notification after it another (`notifyOneDue` and `notifyAllDue` hold the threads between
the two).  `waiters` are the threads blocked in `not_empty_.wait`; a woken thread leaves
the set and tests the predicate again, spurious wakeups included.  The constructor spawns
workers that run at once, and may fail before any of them; `stop()` has its lock, its
close, its notification and its join as steps.

**ProcessingDispatcher.**  `unnotified` are the workers between the two halves of
`publish()`, `draining` the I/O thread between `consumeNotifications()` and
`takeCompleted()`.  `counter` is the eventfd, with the EAGAIN at its maximum.  A response is
a constant in the code; the model names it by the frame it answers, so that misdelivery,
loss and duplication can be seen.

**EventLoop.**  `loop` says where the I/O thread is: `running` (waiting, dispatching a
batch or applying results), `accepting` (inside `acceptReadyClients`), `handling` (inside
`handleClientEvent`), `returned` (`run()` has returned and the destructor runs) or
`destroyed`.  A batch of events is a set handled in any order; an event carries the
descriptor and the flag the handler acts on first, plus, for `EventsAreFresh` only, the id
of the connection it was raised for.  Kernel and clients are environment: level-triggered
readiness, the lowest free descriptor for `accept4`, EMFILE when there is none, sockets
that hold `SendBuffer` responses, clients that connect once, send, read, shut down or reset
at any time.  `Faults` selects which system calls may fail:

| Fault | What fails |
|---|---|
| `eventfd`, `setup` | the constructor of the dispatcher, of the loop |
| `throw`, `notify` | a task throws; a hard error of the eventfd write |
| `modify`, `add`, `accept`, `run` | `epoll_ctl` MOD and ADD, `accept4`, `epoll_wait` (or an error on notifier or listener) |
| `oversized`, `reset` | a client sends a malformed header, or resets |
| `io` | `recv` or `send` returns any other error: at the end of a read, at the first `send` of a flush |

Abstractions: frames and responses are whole (`Connection` shows that decoder and write
buffer justify it); `readAvailable()` is one step, since nothing else reads the socket;
EINTR retries are invisible; the branches for a duplicate descriptor, for an invalid task
and for a response above the size limit cannot be reached (`DescriptorsMatch` shows the
first; ids start at 1; the response is a short constant).

**Connection.**  `call` says where the I/O thread is in the handler: between two `recv()`
calls, in the inner decoding loop, in `flush()`, or back in the loop.  Every `recv()`,
every `send()` and every decoded frame is a step, of any number of bytes, so that the
client may send, read, end or reset between any two of them.  `read_buffer`,
`read_offset`, `write_bytes` and `write_offset` are the members of the two buffers.
`consumed` and `accepted` are histories: the encodings of the frames read and of the
frames queued.  A byte has `Radix` values and a header `HeaderSize` bytes, so that lengths
of zero, at the limit and above it all fit into a short stream.  `ConnectionDropped`
stands for every reason the loop has to close a connection outside its bytes: a full task
queue, a failing `epoll_ctl`, the end of `run()`.

**ByteStream.**  One sequence of bytes in each direction, of at most `SocketBuffer` bytes.
A client that closes with bytes unread resets, and so does the server; a reset may overtake
bytes sent before it, and what had arrived before it may or may not still be read.

**BlockingFrames, DeviceExchange.**  `frame_call` is the `sendAll` or `receiveExact` under
way, `data`, `size` and `total` its span and progress, `io` the last `IoResult` (so it is
`header_result` when the payload's call returns).  A blocking socket waits where a
nonblocking one returns `would_block`; the device simulator uses a blocking one, and
`Modes` has the other, too, for the sake of the results the frame calls then give.  The
program connects, sends one payload of `Telemetry`, waits for one reply and returns; its
`Socket` closes the connection.  The refinement maps the frames read and queued by the
server, the completed `receiveFrame()` and the exit code to `RequestReply`.

**DescriptorOwner.**  `fd_` and `alive` are the objects, `open` is the kernel's table, which
gives the lowest free number, `raw` holds the numbers the program has from a system call or
from `release()` and has not given to an object.  Each operation is an action, callable
whenever its objects exist; a self-move is a step that changes nothing.  Handing the number
of one object to another with `reset(other.fd())`, or closing it by hand, would be an error
of the caller and is left out.

## Runs

| Run | Question | Bounds |
|---|---|---|
| `threadpool_safety` | no lost wakeup, no sleeper after close, stop drains | 3 workers, 2 submitters, 2 stoppers, capacity 2 |
| `threadpool_liveness` | every `stop()` returns; the pool implements `TaskPool` with its fairness | 2 workers, 2 submitters, 2 stoppers, capacity 1 |
| `dispatcher` | no result stranded or untaken; destruction order | 2 workers, capacity 2, eventfd maximum 1, 4 outstanding tasks |
| `eventloop_reuse` | misdelivery, descriptor tables, stale events under descriptor reuse | 2 clients, 3 descriptors, resets and malformed frames |
| `eventloop_pipeline` | a frame is in exactly one place; EPOLLOUT follows the buffer; only workers change the order of frames | 2 clients with 2 frames, 2 workers, 3 descriptors, queue 2, socket 1 |
| `eventloop_faults` | the same safety under every failure | 2 clients, 2 workers, 3 descriptors, batches of at most 2 events |
| `eventloop_answers` | every frame is answered or its connection ends | 2 clients with 2 frames, 1 worker, 3 descriptors |
| `eventloop_release` | connections are released, shutdown ends, under every failure | 2 clients, 1 worker, 2 descriptors |
| `connection_stream` | both directions keep every byte; no frame stays behind; errors are real | streams of up to 6 bytes of any value, header of 2, payloads up to 2, socket and read buffer of 3, compaction from 3 |
| `device_exchange` | byte counts; the exchange implements `RequestReply`; connections are released | header of 3, payloads of 0, 1, 4 (the limit) and 5, socket of 3 |
| `io_error_number` | a violation: see Finding | as above, nonblocking |
| `descriptors` | one owner per descriptor, none leaked, errors move along | 2 objects of each class, 4 descriptors |

Why the bounds suffice.  Three workers let one sleep, one run and one be woken in vain; two
stoppers are enough for a second caller; two clients are the least for a reused
descriptor.  With one descriptor more than clients both are served at once, and the
`accept4` that ends the accept loop finds nobody; with as many as clients it meets EMFILE
instead, which ends `run()`: that is what `eventloop_release` is for.  A queue of one and
two frames, or a queue of two and two clients with two frames, give the rejection half way
through a read, a socket of one and two responses the partial flush.  A queue of two and
two workers are the least with which a client's frames can change their order in the
queue or between the workers.  An eventfd maximum of
1 makes the saturated counter an everyday event.  Six bytes hold two frames with payload,
or three without, and an error behind a frame; with a read buffer and a threshold of three
a frame ends inside a read, and `compact()` meets all three of its cases.  With a socket of
three bytes every longer frame takes several sends.  Two objects of a class are all that a
move needs, and four descriptors for six objects let the kernel run out of them.  `MaxConnectionId` is never the limit:
there are as many ids as connections.

Fairness.  Threads keep being scheduled (the loop thread, each worker, each stopper), and
for `eventloop_answers` a client reads what it is sent, as the device simulator does.
In `device_exchange` the device and the server's thread keep running, and a frame read is
answered or its connection closed: that the pipeline between the two does so is
`FramesAnswered`.  Nobody has to connect, send, submit, stop or fail, and no spurious wakeup has to happen.
The liveness runs use batches as large as the number of sources, as `kMaxEvents` = 64 is
for a small server: fairness between more sources than that is epoll's.  Deadlock is not
checked for the dispatcher and the loop: a server without clients has nothing to do.

Where a property stops.  `EventsAreFresh` is checked without the fault `modify`: when
`epoll_ctl(MOD)` fails in `handleProcessingResults`, the connection is closed outside its
own event, and a client accepted on the same descriptor before the old event is reached
gets that event.  `NeverLost` and `FramesAnswered` are checked without `throw` and
`notify`: a task that throws leaves its frame unanswered on a live connection, and after a
hard notification error the loop goes on, closing every connection that sends a frame.
For the same reason `FramesAnswered`, and with it the end of every device, is not claimed
for a server whose tasks throw.  With several workers the responses of one client may come
back in another order than its frames; `StartedInOrder` and `OvertakenByWorkersOnly` do not
deny that, they say where alone it can happen: between the moment a worker takes a task
from the queue and the moment it publishes the result.

Finding.  `io.hpp` (line 25) says of `IoResult::error_number` that it is meaningful only
when `status` is `error` and 0 otherwise.  `sendAll` and `receiveExact` return
`would_block` with `EAGAIN` in it (`io.cpp`, lines 47 and 108).  `io_error_number` shows it:
on a nonblocking socket the header of a frame fills the socket, and the payload's call
returns `would_block` with 11.  No caller in the repository depends on the comment.

## Proofs

All proofs are for arbitrary constants under the named assumptions (`PoolAssumption`,
`DispatcherAssumption`, `EventLoopAssumption`, `OwnerAssumption`, `CodecAssumption` and
those of the byte-level modules), which only say that sets of threads are finite, bounds
positive, descriptors natural numbers, the three classes of objects disjoint, the null
values distinct, and that a header can hold the largest payload's length.

* `ThreadPoolProofs`: `TypeOK`, `NoLostWakeup`, `NoSleeperAfterClose`,
  `WorkersOutliveTasks`, `StopDrains`.  `NoLostWakeup` counts: a push adds a task and a
  notification, a notification becomes an awake worker, an awake worker takes a task.  It
  needs `ThreadsMatch` (a sleeper is a live worker inside `waitPop`, so waking it makes it
  awake); `StopDrains` needs `StagesMatch` (no `stop()` before the constructor is done,
  nothing queued before that either) and that there is at least one worker to show that
  the queue was closed.  `PoolRefinesTaskPool` is the safety half of the refinement that
  `threadpool_liveness` checks whole: each step of the pool is a step of `TaskPool` or
  changes nothing of it, so the dispatcher's model may use `TaskPool` in the pool's place.
* `ProcessingDispatcherProofs`: `DispatcherTypeOK`, `NoStrandedResult`,
  `NotifierOutlivesWorkers`, from `LifetimesMatch` (joined means quiet, destroyed means
  joined).
* `EventLoopProofs`: `EventLoopTypeOK`, and that `EventLoopSpec` implies `DispatcherSpec`:
  the server is a correct user of the dispatcher, so `NotifierOutlivesWorkers` carries
  over.  Types are proved in three groups of variables (loop, tables, clients); a lemma per
  group names the actions that write to it.  The invariant adds `TablesMatch`: a
  descriptor has a connection exactly when it has a client, ids are below
  `next_connection_id`, and a handler works on an open connection.
  `DescriptorsMatch` and `InterestMatches` need `ServerTables` besides: a client in the
  backlog is there once and pending (so `accept4` cannot make a second connection for it),
  a client with a descriptor is connected, a connection is watched for EPOLLOUT exactly
  when its buffer is not empty, and a free descriptor has an empty one.  Both hold with
  every fault.
  `EventsAreFresh` follows from `EventsOpen`: each event left in the batch names a
  connection that still stands, since it is closed only by its own handler, which takes
  the event out of the batch first.  The theorem assumes that `modify` is not among the
  faults, the one under which that argument, and the property, fail.
* `EventLoopDeliveryProofs`, on what becomes of a frame.
  - `NoMisdelivery`.  As it stands it is not inductive, since it says nothing of frames
    under way.  `PipelineOwned` does: a task or result in the queue, in a worker, in
    `completed` or in `results` carries an id already given out, and if that id still
    stands under its descriptor then the client there sent the frame.  Closing makes the
    premise false, and accepting does not make it true again, because the new id is larger
    than any item's.  `FramesOwned` says the same of the frames not yet submitted: they
    belong to the client the handler reads from, whose connection nobody else can close
    meanwhile.  `ApplyQueues` then puts a response into its own client's buffer, and
    flushing and reading only move it on.
  - `AtMostOnce`, with every fault.  It counts the places of a frame; the proof says
    instead that any two places of a frame are equal (`OnceAt`), and that a frame with a
    place has been sent.  A lemma per action shows that each place after the step comes
    from one before it, and different places from different ones; `ClientSends` is the
    only action that makes a new place, and it sends a frame not yet sent.
  - `NeverLost`, unless a task throws.  A frame leaves the chain of places only with its
    connection: a rejected task closes it, a stale result belongs to one closed already.
    Needed besides are `PipelineStands` (the connection of a task or result under way
    stands, or its client's has been closed, so what `handleProcessingResults` drops as
    stale is nobody's) and `Quiescent` (results are taken only when those taken before have
    been applied, so none is overwritten).  The
    hypothesis excludes the one fault that does lose a frame: `workerLoop` swallows the
    exception and the connection stays open.
  - `StartedInOrder` and `OvertakenByWorkersOnly`, for any number of workers and with
    every fault.  `Stage` gives a frame its stage, counted from the client's end
    (`received`, `wire`, `write_buffer`, `results`, `completed`, `running`, `queue`,
    `frames`, `inbound`), and its position there; of two frames the one nearer to that end
    is ahead.  A lemma per action proves `NoneOvertakes`: if a step leaves f ahead of g,
    then f was ahead before, or workers had both, or the step is the one that sends g.
    Workers have no order among them, so publishing is where two frames may change theirs.
    Most actions move frames from known positions, and for those it is enough that the
    relation of new and old positions keeps the order (`Moves`, `KeepsOrder`).
    `OvertakenLate`, that a frame overtaken by a later one has got to a worker, is then
    inductive and gives `StartedInOrder`.  For the step property a frame must not have two
    positions, which is `OneStage`, from `OnceAt`.
* `DescriptorOwnerProofs`: `DescriptorTypeOK`, `SoleOwner`, `NothingLeaked` and
  `ErrorFollowsDescriptor`.  Each needs the others, and that `raw` is open: a descriptor
  closed by one object could otherwise be another's, and a new one could be one that
  somebody still holds.
* `FrameCodecProofs`: a length survives `htonl` and `ntohl` (`HeaderGivesSize`), and any
  bytes are the header of the length they give (`SizeGivesHeader`), for every radix and
  header size.  `PayloadSize` and `Weight` are recursive functions, so this needs
  induction; the library states induction with an operator as a parameter, which the
  provers cannot instantiate, so the module derives it for sets from the least-number
  principle and proves that the recursive definitions have a value.
* `ConnectionProofs`: `ConnectionTypeOK`, `InputIntact`, `OutputIntact`,
  `NoFrameLeftBehind`, `ErrorsAreReal`, for every buffer, socket and header size.
  Underneath are lemmas about cutting a stream in two (`First`, `AllBut`) and that
  `compact()` never changes what a buffer has still to give.  `OutputInv`: taken,
  on the way and pending together are what was accepted, and after a close a beginning of
  it.  `InputInv`: consumed, undecoded and on the way together are the client's stream;
  that decoding a frame moves exactly its encoding to `consumed` is `SizeGivesHeader`.
  `NoFrameLeftBehind` follows from `DecodedAll` (outside the inner loop `decodeNext()` has
  asked for more), `ErrorsAreReal` from `ErrorInv` and the input side.
* `DeviceExchangeProofs`: `ExchangeTypeOK`, `BytesAccounted` and
  `ExchangeRefinesRequestReply`, the safety half of `ImplementsRequestReply`.
  `ConnectionProofs` gives the server's side (`ServerInv`).  `SendInv` and `ReceiveInv` say
  what the loops of `io.cpp` have moved so far, `ProgramInv` where `main()` is, and
  `FramesInv` that the server has read no frame, or one, which is the device's, and has
  replied only then.  That a completed `receiveFrame()` holds the server's reply then
  follows from the two streams being intact.

Only model-checked:

* everything about liveness, and with it the fairness half of the two refinements: fairness
  and ENABLED are beyond the prover.

Every invariant a passing run checks is also a theorem, under the hypotheses named above.

## Not modelled

Left out for good: log output and the wording of errors; `setNonBlocking` (two `fcntl`
calls, whose failure is the fault `setup`); the socket set-up of the server's `main`; the
argument checks of `Epoll` (EBADF, EINVAL), which the server never meets.  A client that
sends as fast as `readAvailable()` reads can keep the loop in one call; that depends on
rates and is beyond a model with finite streams.
