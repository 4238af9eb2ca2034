------------------------------ MODULE EventLoop ------------------------------
(***************************************************************************)
(* netpulse::server::EventLoop with the Connections it owns: one thread    *)
(* that waits on epoll for its listener, its client sockets and the        *)
(* dispatcher's eventfd, reads frames, submits them to the dispatcher, and *)
(* writes the results back.  The loop thread, the pool's workers and the   *)
(* clients interleave; a step of the loop is one system call on shared     *)
(* state or one locked section of the dispatcher.                          *)
(*                                                                         *)
(* The kernel (epoll, the sockets, accept4) and the clients are external   *)
(* and modelled by what the loop can observe.  A frame is named by the     *)
(* client that sent it and its number; the response, a constant in the     *)
(* code, is named by the frame it answers.  Frames split over several      *)
(* reads or writes are below this module's grain.                          *)
(***************************************************************************)
EXTENDS ProcessingDispatcher, FiniteSets

CONSTANTS
    Clients,         \* peers; each connects at most once
    MaxFrames,       \* bound on the frames a client sends
    SendBuffer,      \* responses a socket holds before send() would block
    MaxEvents,       \* kMaxEvents
    listenerFd, notificationFd,
    NoClient,        \* "this descriptor is not open"
    NoFd             \* "no client event is being handled"

\* A malformed header on the wire; the frames proper are numbered from 1.
Oversized == 0

ASSUME EventLoopAssumption ==
    /\ MaxFrames \in Nat /\ SendBuffer \in Nat \ {0} /\ MaxEvents \in Nat \ {0}
    /\ Frames = Clients \X (1..MaxFrames)
    /\ listenerFd \in Nat \ Fds /\ notificationFd \in Nat \ Fds
    /\ listenerFd # notificationFd
    /\ NoClient \notin Clients
    /\ NoFd \notin Fds

VARIABLES
    loop,                \* where the loop thread is, see EventLoopTypeOK
    batch,               \* events of the last epoll_wait() not yet handled
    results,             \* results taken and not yet applied
    ready_fd,            \* client descriptor handleClientEvent() works on
    frames,              \* read_result.frames not yet submitted
    status,              \* read_result.status
    connections,         \* the id under connections_[fd], 0 when there is none
    write_buffer,        \* responses in the connection's write_buffer_
    next_connection_id,  \* next_connection_id_
    peer,                \* client at the other end of an open descriptor
    interest,            \* what epoll watches: "none", "in" or "inout"
    backlog,             \* clients in the listener's accept queue
    link,                \* a client's connection: "new", "pending", "open", "closed"
    sent,                \* frames the client has sent
    inbound,             \* what the client sent and the server has not read
    ended,               \* how the client ended the stream: "no", "fin" or "rst"
    wire,                \* responses sent and not read by the client
    received             \* responses the client has read

loopVars == <<loop, batch, results, ready_fd, frames, status>>
serverVars == <<connections, write_buffer, next_connection_id>>
kernelVars == <<peer, interest, backlog>>
clientVars == <<link, sent, inbound, ended, wire, received>>
vars == <<dispatcherVars, loopVars, serverVars, kernelVars, clientVars>>

\* event.data.fd and the one flag handleClientEvent() acts on first: "err" for
\* EPOLLERR or EPOLLHUP, "in" for EPOLLIN or EPOLLRDHUP, else "out".  "id" is not
\* in the code: it records the connection the event was raised for.
Events == [fd : Fds \cup {listenerFd, notificationFd},
           kind : {"err", "in", "out"},
           id : 0..MaxConnectionId]

\* The loop's tables, the sockets and the clients keep their types and bounds; no
\* malformed frame gets past a read.
EventLoopTypeOK ==
    /\ DispatcherTypeOK
    /\ loop \in {"running", "accepting", "handling", "returned", "destroyed"}
    /\ batch \subseteq Events
    /\ results \in Seq(ProcessingResults)
    /\ ready_fd \in Fds \cup {NoFd}
    /\ frames \in Seq(Frames)
    /\ status \in {"ready", "peer_closed", "protocol_error", "io_error"}
    /\ connections \in [Fds -> 0..MaxConnectionId]
    /\ write_buffer \in [Fds -> Seq(Frames)]
    /\ next_connection_id \in 1..(MaxConnectionId + 1)
    /\ peer \in [Fds -> Clients \cup {NoClient}]
    /\ interest \in [Fds -> {"none", "in", "inout"}]
    /\ backlog \in Seq(Clients)
    /\ link \in [Clients -> {"new", "pending", "open", "closed"}]
    /\ sent \in [Clients -> 0..MaxFrames]
    /\ inbound \in [Clients -> Seq(0..MaxFrames)]
    /\ ended \in [Clients -> {"no", "fin", "rst"}]
    /\ wire \in [Clients -> Seq(Frames)]
    /\ \A c \in Clients : Len(wire[c]) <= SendBuffer
    /\ received \in [Clients -> Seq(Frames)]

\* The constructor; when a resource could not be set up run() returns at once.
EventLoopInit ==
    /\ DispatcherInit
    /\ loop \in IF failed THEN {"returned"}
                ELSE {"running"} \cup (IF "setup" \in Faults THEN {"returned"} ELSE {})
    /\ batch = {} /\ results = <<>>
    /\ ready_fd = NoFd /\ frames = <<>> /\ status = "ready"
    /\ connections = [fd \in Fds |-> 0]
    /\ write_buffer = [fd \in Fds |-> <<>>]
    /\ next_connection_id = 1
    /\ peer = [fd \in Fds |-> NoClient]
    /\ interest = [fd \in Fds |-> "none"]
    /\ backlog = <<>>
    /\ link = [c \in Clients |-> "new"]
    /\ sent = [c \in Clients |-> 0]
    /\ inbound = [c \in Clients |-> <<>>]
    /\ ended = [c \in Clients |-> "no"]
    /\ wire = [c \in Clients |-> <<>>]
    /\ received = [c \in Clients |-> <<>>]
-----------------------------------------------------------------------------
(* Epoll and the descriptor table.                                         *)

\* The flag of a client socket, "none" when it is not ready.
Readiness(fd) ==
    LET c == peer[fd] IN
    IF interest[fd] = "none" THEN "none"
    ELSE IF ended[c] = "rst" THEN "err"
    ELSE IF inbound[c] # <<>> \/ ended[c] = "fin" THEN "in"
    ELSE IF interest[fd] = "inout" /\ Len(wire[c]) < SendBuffer THEN "out"
    ELSE "none"

\* The events epoll_wait() has to report, level-triggered.
ReadyEvents ==
    {[fd |-> notificationFd, kind |-> "in", id |-> 0] : x \in {y \in {0} : counter > 0}}
    \cup {[fd |-> listenerFd, kind |-> "in", id |-> 0] : x \in {y \in {0} : backlog # <<>>}}
    \cup {[fd |-> fd, kind |-> Readiness(fd), id |-> connections[fd]] :
            fd \in {f \in Fds : Readiness(f) # "none"}}

\* Descriptors that are not open; accept4() gives the lowest.
FreeFds == {fd \in Fds : peer[fd] = NoClient}

\* Mutant: the entry stays in connections_.
CloseKeepsEntry(fd) ==
    /\ connections' = connections
    /\ write_buffer' = [write_buffer EXCEPT ![fd] = <<>>]
    /\ interest' = [interest EXCEPT ![fd] = "none"]
    /\ link' = [link EXCEPT ![peer[fd]] = "closed"]
    /\ peer' = [peer EXCEPT ![fd] = NoClient]

\* closeConnection(fd): removed from epoll, erased from connections_, and with
\* the Connection its socket and its unsent responses are gone.
CloseConnection(fd) ==
    /\ connections' = [connections EXCEPT ![fd] = 0]
    /\ write_buffer' = [write_buffer EXCEPT ![fd] = <<>>]
    /\ interest' = [interest EXCEPT ![fd] = "none"]
    /\ link' = [link EXCEPT ![peer[fd]] = "closed"]
    /\ peer' = [peer EXCEPT ![fd] = NoClient]

\* Mutant: EPOLLOUT is never asked for.
UpdateInterestInOnly(fd, responses) ==
    interest' = [interest EXCEPT ![fd] = "in"]

\* The interest updateInterest() gives a connection with these responses queued.
UpdateInterest(fd, responses) ==
    interest' = [interest EXCEPT ![fd] = IF responses # <<>> THEN "inout" ELSE "in"]
-----------------------------------------------------------------------------
(* run() and handleProcessingResults().                                    *)

\* Between two events of a batch, or before epoll_wait().
Dispatching == loop = "running" /\ ~draining /\ results = <<>>

\* epoll_.wait(): all that is ready, or kMaxEvents of it.
Wait ==
    /\ Dispatching /\ batch = {}
    /\ ReadyEvents # {}
    /\ \E reported \in SUBSET ReadyEvents :
         /\ Cardinality(reported) = IF Cardinality(ReadyEvents) < MaxEvents
                                    THEN Cardinality(ReadyEvents) ELSE MaxEvents
         /\ batch' = reported
    /\ UNCHANGED <<dispatcherVars, loop, results, ready_fd, frames, status,
                   serverVars, kernelVars, clientVars>>

\* epoll_wait(), the notifier, its read or the listener failed: run() returns 1.
RunFails ==
    /\ "run" \in Faults
    /\ Dispatching
    /\ loop' = "returned" /\ batch' = {}
    /\ UNCHANGED <<dispatcherVars, results, ready_fd, frames, status,
                   serverVars, kernelVars, clientVars>>

\* The notifier's event: consumeNotifications() (never EAGAIN, since no one else
\* reads the eventfd) ...
HandleNotification ==
    /\ Dispatching
    /\ \E event \in batch : event.fd = notificationFd /\ batch' = batch \ {event}
    /\ ConsumeNotifications
    /\ UNCHANGED <<loop, results, ready_fd, frames, status,
                   serverVars, kernelVars, clientVars>>

\* Mutant: takeCompleted() empties local_results from the back.
TakeResultsBackwards ==
    /\ loop = "running"
    /\ TakeCompleted
    /\ results' = [i \in DOMAIN completed |-> completed[Len(completed) + 1 - i]]
    /\ UNCHANGED <<loop, batch, ready_fd, frames, status,
                   serverVars, kernelVars, clientVars>>

\* ... then takeCompleted() ...
TakeResults ==
    /\ loop = "running"
    /\ TakeCompleted
    /\ results' = completed
    /\ UNCHANGED <<loop, batch, ready_fd, frames, status,
                   serverVars, kernelVars, clientVars>>

\* ... then every result in turn.
Applying == loop = "running" /\ ~draining /\ results # <<>>

\* The connection is gone, or its descriptor belongs to a later one.
ApplyStale ==
    /\ Applying
    /\ connections[Head(results).fd] # Head(results).id
    /\ results' = Tail(results)
    /\ UNCHANGED <<dispatcherVars, loop, batch, ready_fd, frames, status,
                   serverVars, kernelVars, clientVars>>

\* Mutant: the connection is looked up by descriptor alone.
ApplyIgnoresId ==
    LET result == Head(results) IN
    /\ Applying
    /\ connections[result.fd] # 0
    /\ write_buffer' = [write_buffer EXCEPT ![result.fd] = Append(@, result.frame)]
    /\ UpdateInterest(result.fd, write_buffer'[result.fd])
    /\ results' = Tail(results)
    /\ UNCHANGED <<dispatcherVars, loop, batch, ready_fd, frames, status,
                   connections, next_connection_id, peer, backlog, clientVars>>

\* Mutant: a response is written at once, and the connection closed when that fails.
ApplyWritesAtOnce ==
    LET result == Head(results) IN
    /\ Applying
    /\ connections[result.fd] = result.id
    /\ IF ended[peer[result.fd]] = "rst"
       THEN CloseConnection(result.fd)
       ELSE /\ write_buffer' = [write_buffer EXCEPT ![result.fd] = Append(@, result.frame)]
            /\ UpdateInterest(result.fd, write_buffer'[result.fd])
            /\ UNCHANGED <<connections, peer, link>>
    /\ results' = Tail(results)
    /\ UNCHANGED <<dispatcherVars, loop, batch, ready_fd, frames, status,
                   next_connection_id, backlog, sent, inbound, ended, wire, received>>

\* queueFrame() and updateInterest(); the response is far below the limit that
\* queueFrame() refuses.
ApplyQueues ==
    LET result == Head(results) IN
    /\ Applying
    /\ connections[result.fd] = result.id
    /\ write_buffer' = [write_buffer EXCEPT ![result.fd] = Append(@, result.frame)]
    /\ UpdateInterest(result.fd, write_buffer'[result.fd])
    /\ results' = Tail(results)
    /\ UNCHANGED <<dispatcherVars, loop, batch, ready_fd, frames, status,
                   connections, next_connection_id, peer, backlog, clientVars>>

\* updateInterest() failed.
ApplyFails ==
    /\ "modify" \in Faults
    /\ Applying
    /\ connections[Head(results).fd] = Head(results).id
    /\ CloseConnection(Head(results).fd)
    /\ results' = Tail(results)
    /\ UNCHANGED <<dispatcherVars, loop, batch, ready_fd, frames, status,
                   next_connection_id, backlog, sent, inbound, ended, wire, received>>
-----------------------------------------------------------------------------
(* acceptReadyClients().                                                   *)

HandleListener ==
    /\ Dispatching
    /\ \E event \in batch : event.fd = listenerFd /\ batch' = batch \ {event}
    /\ loop' = "accepting"
    /\ UNCHANGED <<dispatcherVars, results, ready_fd, frames, status,
                   serverVars, kernelVars, clientVars>>

\* accept4() succeeds: the connection is entered under a fresh id.  try_emplace()
\* always inserts, since only open descriptors are in connections_.
Accepts(fd) ==
    /\ loop = "accepting"
    /\ backlog # <<>>
    /\ fd \in FreeFds /\ \A other \in FreeFds : fd <= other
    /\ next_connection_id <= MaxConnectionId
    /\ next_connection_id' = next_connection_id + 1
    /\ backlog' = Tail(backlog)

Accept(fd) ==
    /\ Accepts(fd)
    /\ connections' = [connections EXCEPT ![fd] = next_connection_id]
    /\ peer' = [peer EXCEPT ![fd] = Head(backlog)]
    /\ interest' = [interest EXCEPT ![fd] = "in"]
    /\ link' = [link EXCEPT ![Head(backlog)] = "open"]
    /\ UNCHANGED <<dispatcherVars, loopVars, write_buffer,
                   sent, inbound, ended, wire, received>>

\* Mutant: the entry is not erased, and with it the socket stays open.
AcceptAddKeepsEntry(fd) ==
    /\ "add" \in Faults
    /\ Accepts(fd)
    /\ link' = [link EXCEPT ![Head(backlog)] = "open"]
    /\ connections' = [connections EXCEPT ![fd] = next_connection_id]
    /\ peer' = [peer EXCEPT ![fd] = Head(backlog)]
    /\ UNCHANGED <<dispatcherVars, loopVars, write_buffer,
                   interest, sent, inbound, ended, wire, received>>

\* epoll_.add() failed: the connection is erased, and the loop goes on.
AcceptAddFails(fd) ==
    /\ "add" \in Faults
    /\ Accepts(fd)
    /\ link' = [link EXCEPT ![Head(backlog)] = "closed"]
    /\ UNCHANGED <<dispatcherVars, loopVars, connections, write_buffer, peer,
                   interest, sent, inbound, ended, wire, received>>

\* EAGAIN.
AcceptDrained ==
    /\ loop = "accepting"
    /\ backlog = <<>> /\ FreeFds # {}
    /\ loop' = "running"
    /\ UNCHANGED <<dispatcherVars, batch, results, ready_fd, frames, status,
                   serverVars, kernelVars, clientVars>>

\* Any other error makes run() return 1.  Linux reserves the descriptor before it
\* looks at the queue: with none free accept4() reports EMFILE in any case.
AcceptFails ==
    /\ loop = "accepting"
    /\ FreeFds = {} \/ "accept" \in Faults
    /\ loop' = "returned" /\ batch' = {}
    /\ UNCHANGED <<dispatcherVars, results, ready_fd, frames, status,
                   serverVars, kernelVars, clientVars>>
-----------------------------------------------------------------------------
(* handleClientEvent().                                                    *)

\* The next event is one of a client descriptor.
ClientEvent(event) ==
    /\ Dispatching
    /\ event \in batch /\ event.fd \in Fds
    /\ batch' = batch \ {event}

\* No connection under this descriptor any more.
HandleGone(event) ==
    /\ ClientEvent(event)
    /\ connections[event.fd] = 0
    /\ UNCHANGED <<dispatcherVars, loop, results, ready_fd, frames, status,
                   serverVars, kernelVars, clientVars>>

HandleError(event) ==
    /\ ClientEvent(event)
    /\ connections[event.fd] # 0
    /\ event.kind = "err"
    /\ CloseConnection(event.fd)
    /\ UNCHANGED <<dispatcherVars, loop, results, ready_fd, frames, status,
                   next_connection_id, backlog, sent, inbound, ended, wire, received>>

\* Mutant: the length in the header is not checked.
DecodedUnchecked(data) == {Len(data)}

\* How many frames decodeNext() gives: all of them, or those before the first
\* malformed header.  There is one such number.
Decoded(data) ==
    {n \in 0..Len(data) :
        /\ \A i \in 1..n : data[i] # Oversized
        /\ n < Len(data) => data[n + 1] = Oversized}

\* Mutant: the end of the stream is taken for EAGAIN.
ReadIgnoresEnd(event) ==
    LET c == peer[event.fd] IN
    /\ ClientEvent(event)
    /\ connections[event.fd] # 0
    /\ event.kind = "in"
    /\ loop' = "handling" /\ ready_fd' = event.fd
    /\ \E n \in Decoded(inbound[c]) :
         /\ frames' = [i \in 1..n |-> <<c, inbound[c][i]>>]
         /\ status' = IF n < Len(inbound[c]) THEN "protocol_error"
                      ELSE IF ended[c] = "rst" THEN "io_error"
                      ELSE "ready"
         /\ inbound' = [inbound EXCEPT ![c] = SubSeq(@, n + 2, Len(@))]
    /\ UNCHANGED <<dispatcherVars, results, serverVars, kernelVars,
                   link, sent, ended, wire, received>>

\* readAvailable(): everything up to and with a malformed header, or up to the end
\* of the stream, the error, or EAGAIN.  The error is the client's reset or, as a
\* fault, any other errno of recv().
HandleReadable(event) ==
    LET c == peer[event.fd] IN
    /\ ClientEvent(event)
    /\ connections[event.fd] # 0
    /\ event.kind = "in"
    /\ loop' = "handling" /\ ready_fd' = event.fd
    /\ \E n \in Decoded(inbound[c]) :
         /\ frames' = [i \in 1..n |-> <<c, inbound[c][i]>>]
         /\ \/ status' = IF n < Len(inbound[c]) THEN "protocol_error"
                         ELSE IF ended[c] = "fin" THEN "peer_closed"
                         ELSE IF ended[c] = "rst" THEN "io_error"
                         ELSE "ready"
            \/ "io" \in Faults /\ n = Len(inbound[c]) /\ status' = "io_error"
         /\ inbound' = [inbound EXCEPT ![c] = SubSeq(@, n + 2, Len(@))]
    /\ UNCHANGED <<dispatcherVars, results, serverVars, kernelVars,
                   link, sent, ended, wire, received>>

\* Only writable: nothing is read.
HandleWritable(event) ==
    /\ ClientEvent(event)
    /\ connections[event.fd] # 0
    /\ event.kind = "out"
    /\ loop' = "handling" /\ ready_fd' = event.fd
    /\ UNCHANGED <<dispatcherVars, results, frames, status,
                   serverVars, kernelVars, clientVars>>

\* The handler returns to run().
HandlerReturns ==
    loop' = "running" /\ ready_fd' = NoFd /\ frames' = <<>> /\ status' = "ready"

\* The handler closes its connection and returns.
HandlerCloses ==
    /\ CloseConnection(ready_fd)
    /\ HandlerReturns
    /\ UNCHANGED <<batch, results, next_connection_id, backlog>>

FrameTask == [fd |-> ready_fd, id |-> connections[ready_fd], frame |-> Head(frames)]

SubmitFrame ==
    /\ loop = "handling" /\ frames # <<>>
    /\ TrySubmit(FrameTask)
    /\ frames' = Tail(frames)
    /\ UNCHANGED <<loop, batch, results, ready_fd, status,
                   serverVars, kernelVars, clientVars>>

\* Mutant: a frame the queue has no room for is skipped.
RejectedFrameSkipped ==
    /\ loop = "handling" /\ frames # <<>>
    /\ TrySubmitStatus(FrameTask) # "Success"
    /\ frames' = Tail(frames)
    /\ UNCHANGED <<dispatcherVars, loop, batch, results, ready_fd, status,
                   serverVars, kernelVars, clientVars>>

\* The queue is full or the dispatcher has failed: the frame and those behind it
\* are dropped and so is the connection.
SubmitRejected ==
    /\ loop = "handling" /\ frames # <<>>
    /\ TrySubmitStatus(FrameTask) # "Success"
    /\ HandlerCloses
    /\ UNCHANGED <<dispatcherVars, sent, inbound, ended, wire, received>>

\* peer_closed, protocol_error or io_error.
CloseAfterRead ==
    /\ loop = "handling" /\ frames = <<>> /\ status # "ready"
    /\ HandlerCloses
    /\ UNCHANGED <<dispatcherVars, sent, inbound, ended, wire, received>>

\* How many responses flushWrites() can send before send() would block.
Flushable(fd) ==
    LET room == SendBuffer - Len(wire[peer[fd]])
        queued == Len(write_buffer[fd])
    IN IF queued < room THEN queued ELSE room

\* flushWrites() hands them to the socket.
Flushes ==
    /\ loop = "handling" /\ frames = <<>> /\ status = "ready"
    /\ write_buffer[ready_fd] # <<>> => ended[peer[ready_fd]] # "rst"
    /\ wire' = [wire EXCEPT ![peer[ready_fd]] =
                  @ \o SubSeq(write_buffer[ready_fd], 1, Flushable(ready_fd))]

\* Mutant: what was sent stays in the buffer while more is left.
FlushResends ==
    /\ Flushes
    /\ write_buffer' = [write_buffer EXCEPT ![ready_fd] =
                          IF Flushable(ready_fd) = Len(@) THEN <<>> ELSE @]
    /\ UpdateInterest(ready_fd, write_buffer'[ready_fd])
    /\ HandlerReturns
    /\ UNCHANGED <<dispatcherVars, batch, results, connections, next_connection_id,
                   peer, backlog, link, sent, inbound, ended, received>>

\* Mutant: updateInterest() is left out after the flush.
FlushKeepsInterest ==
    /\ Flushes
    /\ write_buffer' = [write_buffer EXCEPT ![ready_fd] =
                          SubSeq(@, Flushable(ready_fd) + 1, Len(@))]
    /\ interest' = interest
    /\ HandlerReturns
    /\ UNCHANGED <<dispatcherVars, batch, results, connections, next_connection_id,
                   peer, backlog, link, sent, inbound, ended, received>>

FlushWrites ==
    /\ Flushes
    /\ write_buffer' = [write_buffer EXCEPT ![ready_fd] =
                          SubSeq(@, Flushable(ready_fd) + 1, Len(@))]
    /\ UpdateInterest(ready_fd, write_buffer'[ready_fd])
    /\ HandlerReturns
    /\ UNCHANGED <<dispatcherVars, batch, results, connections, next_connection_id,
                   peer, backlog, link, sent, inbound, ended, received>>

\* updateInterest() fails after the flush.
UpdateFails ==
    /\ "modify" \in Faults
    /\ Flushes
    /\ HandlerCloses
    /\ UNCHANGED <<dispatcherVars, sent, inbound, ended, received>>

\* send() fails: on a reset connection, or, as a fault, with any other errno.
FlushFails ==
    /\ loop = "handling" /\ frames = <<>> /\ status = "ready"
    /\ write_buffer[ready_fd] # <<>>
    /\ ended[peer[ready_fd]] = "rst" \/ "io" \in Faults
    /\ HandlerCloses
    /\ UNCHANGED <<dispatcherVars, sent, inbound, ended, wire, received>>
-----------------------------------------------------------------------------
(* After run(): ~EventLoop destroys dispatcher_ first, then the rest.      *)

StopDispatcher ==
    /\ loop = "returned"
    /\ StopPool \/ JoinPool
    /\ UNCHANGED <<loopVars, serverVars, kernelVars, clientVars>>

DestroyLoop ==
    /\ loop = "returned"
    /\ Destroy
    /\ loop' = "destroyed"
    /\ results' = <<>>
    /\ connections' = [fd \in Fds |-> 0]
    /\ write_buffer' = [fd \in Fds |-> <<>>]
    /\ peer' = [fd \in Fds |-> NoClient]
    /\ interest' = [fd \in Fds |-> "none"]
    /\ backlog' = <<>>
    /\ link' = [c \in Clients |-> IF link[c] = "new" THEN "new" ELSE "closed"]
    /\ UNCHANGED <<batch, ready_fd, frames, status, next_connection_id,
                   sent, inbound, ended, wire, received>>
-----------------------------------------------------------------------------
(* The clients: they connect, send, read and go away as they please.       *)

ClientConnects(c) ==
    /\ link[c] = "new" /\ loop # "destroyed"
    /\ link' = [link EXCEPT ![c] = "pending"]
    /\ backlog' = Append(backlog, c)
    /\ UNCHANGED <<dispatcherVars, loopVars, serverVars, peer, interest,
                   sent, inbound, ended, wire, received>>

\* A connection can be written to before it is accepted.
Writable(c) == link[c] \in {"pending", "open"} /\ ended[c] = "no"

ClientSends(c) ==
    /\ Writable(c) /\ sent[c] < MaxFrames
    /\ sent' = [sent EXCEPT ![c] = @ + 1]
    /\ inbound' = [inbound EXCEPT ![c] = Append(@, sent[c] + 1)]
    /\ UNCHANGED <<dispatcherVars, loopVars, serverVars, kernelVars,
                   link, ended, wire, received>>

ClientSendsOversized(c) ==
    /\ "oversized" \in Faults
    /\ Writable(c)
    /\ \A i \in DOMAIN inbound[c] : inbound[c][i] # Oversized
    /\ inbound' = [inbound EXCEPT ![c] = Append(@, Oversized)]
    /\ UNCHANGED <<dispatcherVars, loopVars, serverVars, kernelVars,
                   link, sent, ended, wire, received>>

\* The client closes its end; it may still read.
ClientShuts(c) ==
    /\ Writable(c)
    /\ ended' = [ended EXCEPT ![c] = "fin"]
    /\ UNCHANGED <<dispatcherVars, loopVars, serverVars, kernelVars,
                   link, sent, inbound, wire, received>>

\* The connection is reset; data still under way may be lost.
ClientResets(c) ==
    /\ "reset" \in Faults
    /\ link[c] \in {"pending", "open"} /\ ended[c] # "rst"
    /\ ended' = [ended EXCEPT ![c] = "rst"]
    /\ \E n \in 0..Len(inbound[c]) :
         inbound' = [inbound EXCEPT ![c] = SubSeq(@, 1, n)]
    /\ UNCHANGED <<dispatcherVars, loopVars, serverVars, kernelVars,
                   link, sent, wire, received>>

ClientReads(c) ==
    /\ wire[c] # <<>> /\ ended[c] # "rst"
    /\ received' = [received EXCEPT ![c] = Append(@, Head(wire[c]))]
    /\ wire' = [wire EXCEPT ![c] = Tail(@)]
    /\ UNCHANGED <<dispatcherVars, loopVars, serverVars, kernelVars,
                   link, sent, inbound, ended>>
-----------------------------------------------------------------------------
LoopStep ==
    \/ Wait \/ RunFails
    \/ HandleNotification \/ TakeResults \/ ApplyStale \/ ApplyQueues \/ ApplyFails
    \/ HandleListener \/ AcceptDrained \/ AcceptFails
    \/ \E fd \in Fds : Accept(fd) \/ AcceptAddFails(fd)
    \/ \E event \in batch : \/ HandleGone(event) \/ HandleError(event)
                            \/ HandleReadable(event) \/ HandleWritable(event)
    \/ SubmitFrame \/ SubmitRejected \/ CloseAfterRead
    \/ FlushWrites \/ UpdateFails \/ FlushFails
    \/ StopDispatcher \/ DestroyLoop

PoolStep(w) ==
    WorkerStep(w) /\ UNCHANGED <<loopVars, serverVars, kernelVars, clientVars>>

ClientStep(c) ==
    \/ ClientConnects(c) \/ ClientSends(c) \/ ClientSendsOversized(c)
    \/ ClientShuts(c) \/ ClientResets(c) \/ ClientReads(c)

EventLoopNext ==
    \/ LoopStep
    \/ \E w \in Workers : PoolStep(w)
    \/ \E c \in Clients : ClientStep(c)

EventLoopSpec == EventLoopInit /\ [][EventLoopNext]_vars

\* The threads of the server keep being scheduled, and a client reads what it is
\* sent.  No client has to connect, send or leave.
EventLoopFairness ==
    /\ WF_vars(LoopStep)
    /\ \A w \in Workers : WF_vars(PoolStep(w))
    /\ \A c \in Clients : WF_vars(ClientReads(c))

FairEventLoopSpec == EventLoopSpec /\ EventLoopFairness
-----------------------------------------------------------------------------
(* Properties.                                                             *)

InSeq(x, s) == \E i \in DOMAIN s : s[i] = x

\* No response goes to a client other than the one whose frame it answers, even
\* when descriptors are reused between the frame and its response: that is what
\* the ConnectionId comparison in handleProcessingResults() is for.
NoMisdelivery ==
    /\ \A fd \in Fds, frame \in Frames :
         InSeq(frame, write_buffer[fd]) => frame[1] = peer[fd]
    /\ \A c \in Clients, frame \in Frames :
         InSeq(frame, wire[c]) \/ InSeq(frame, received[c]) => frame[1] = c

\* connections_, the descriptor table and epoll agree: an open client descriptor
\* has exactly one entry and one registration and leads to a client of its own.
\* So try_emplace() never meets the duplicate it guards against, and updateInterest()
\* and closeConnection() never act on a descriptor of something else.
DescriptorsMatch ==
    /\ \A fd \in Fds :
         /\ (connections[fd] # 0) = (peer[fd] # NoClient)
         /\ (connections[fd] # 0) = (interest[fd] # "none")
         /\ connections[fd] # 0 => link[peer[fd]] = "open"
    /\ \A fd, other \in Fds :
         connections[fd] # 0 /\ fd # other =>
             peer[fd] # peer[other] /\ connections[fd] # connections[other]
    /\ loop = "handling" => connections[ready_fd] # 0

\* EPOLLOUT is watched exactly while there is something to write: otherwise a
\* response would stay in write_buffer_ for ever, or the loop would spin.
InterestMatches ==
    \A fd \in Fds :
        connections[fd] # 0 =>
            (interest[fd] = "inout") = (write_buffer[fd] # <<>>)

\* An event is never handed to a later connection on the descriptor it was raised
\* for, although events carry the descriptor only: within a batch a descriptor is
\* closed by its own event, which is then used up.  (When updateInterest() fails in
\* handleProcessingResults() this is lost: see the README.)
EventsAreFresh ==
    \A event \in batch :
        event.fd \in Fds => connections[event.fd] \in {0, event.id}

\* The places a frame, or the response to it, can be in.
Places(frame) ==
    {<<"inbound", i>> : i \in {j \in DOMAIN inbound[frame[1]] :
                                 inbound[frame[1]][j] = frame[2]}}
    \cup {<<"frames", i>> : i \in {j \in DOMAIN frames : frames[j] = frame}}
    \cup {<<"queue", i>> : i \in {j \in DOMAIN queue : queue[j].frame = frame}}
    \cup {<<"running", w>> : w \in {v \in Workers \ unnotified :
                                      /\ running[v] # NoTask
                                      /\ running[v].frame = frame}}
    \cup {<<"completed", i>> : i \in {j \in DOMAIN completed : completed[j].frame = frame}}
    \cup {<<"results", i>> : i \in {j \in DOMAIN results : results[j].frame = frame}}
    \cup (UNION {{<<"write_buffer", fd, i>> :
                    i \in {j \in DOMAIN write_buffer[fd] : write_buffer[fd][j] = frame}} :
                  fd \in Fds})
    \cup (UNION {{<<"wire", c, i>> : i \in {j \in DOMAIN wire[c] : wire[c][j] = frame}} :
                  c \in Clients})
    \cup (UNION {{<<"received", c, i>> :
                    i \in {j \in DOMAIN received[c] : received[c][j] = frame}} :
                  c \in Clients})

\* A frame is never processed or answered twice: however reads, notifications and
\* results interleave, it is in one place of the pipeline at most.
AtMostOnce == \A frame \in Frames : Cardinality(Places(frame)) <= 1

\* A frame is never lost while its connection lives: the server answers it or
\* closes the connection, also when the queue is full or results go stale.
NeverLost ==
    \A c \in Clients :
        link[c] \in {"pending", "open"} /\ ended[c] # "rst" =>
            \A n \in 1..sent[c] : Places(<<c, n>>) # {}

\* The stages of the pipeline, the one nearest to the client first.
Stages == <<"received", "wire", "write_buffer", "results", "completed", "running",
            "queue", "frames", "inbound">>

\* Frame f is ahead of frame g: in a later stage, or before it in the same one.  Of two
\* frames that workers have in hand none is ahead.
Ahead(f, g) ==
    \E p \in Places(f), q \in Places(g), k \in DOMAIN Stages :
        /\ p[1] = Stages[k]
        /\ \E l \in DOMAIN Stages :
             /\ q[1] = Stages[l]
             /\ k < l \/ (k = l /\ p[1] # "running" /\ p[Len(p)] < q[Len(q)])

\* Several workers may answer a client's frames in another order than it sent them,
\* but they are given to the workers in that order: a frame is overtaken only when a
\* worker has it, never in a read, in the queue or by a frame read later.
StartedInOrder ==
    \A c \in Clients : \A m, n \in 1..MaxFrames :
        m < n /\ Ahead(<<c, n>>, <<c, m>>) =>
            \A p \in Places(<<c, m>>) : p[1] \notin {"queue", "frames", "inbound"}

\* And nowhere else do frames or responses of a client change places: not when results
\* are taken over, when responses are queued behind others, or when a flush sends part
\* of them, whatever fails.
OvertakenByWorkersOnly ==
    [][\A c \in Clients : \A m, n \in 1..MaxFrames :
         m # n /\ Ahead(<<c, m>>, <<c, n>>) => ~Ahead(<<c, n>>, <<c, m>>)']_vars

\* Every frame is answered unless the connection ends: no wakeup, notification,
\* event or interest in writing is lost on the way.
FramesAnswered ==
    \A c \in Clients : \A n \in 1..MaxFrames :
        (sent[c] >= n) ~> \/ InSeq(<<c, n>>, received[c])
                          \/ ended[c] # "no" \/ link[c] = "closed"

\* A connection whose client has gone is closed, and its descriptor released; so
\* is every connection, accepted or not, once run() has returned.
ConnectionsReleased ==
    \A c \in Clients :
        (ended[c] # "no" \/ loop = "returned") /\ link[c] # "new" ~> link[c] = "closed"
=============================================================================
