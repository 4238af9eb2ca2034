-------------------------- MODULE EventLoopProofs ---------------------------
(***************************************************************************)
(* Type correctness of EventLoop, its use of the dispatcher, and the       *)
(* agreement of its tables: connections_, the epoll set, the kernel's      *)
(* descriptors and the events a batch still holds.  For any number of      *)
(* clients, descriptors and workers; with every fault where no theorem     *)
(* says otherwise.                                                         *)
(***************************************************************************)
EXTENDS EventLoop, ProcessingDispatcherProofs

\* EventLoopTypeOK by the groups of variables that change together.
LoopTypeOK ==
    /\ loop \in {"running", "accepting", "handling", "returned", "destroyed"}
    /\ batch \subseteq Events
    /\ results \in Seq(ProcessingResults)
    /\ ready_fd \in Fds \cup {NoFd}
    /\ frames \in Seq(Frames)
    /\ status \in {"ready", "peer_closed", "protocol_error", "io_error"}

TableTypeOK ==
    /\ connections \in [Fds -> 0..MaxConnectionId]
    /\ write_buffer \in [Fds -> Seq(Frames)]
    /\ next_connection_id \in 1..(MaxConnectionId + 1)
    /\ peer \in [Fds -> Clients \cup {NoClient}]
    /\ interest \in [Fds -> {"none", "in", "inout"}]
    /\ backlog \in Seq(Clients)

WireTypeOK ==
    /\ wire \in [Clients -> Seq(Frames)]
    /\ \A c \in Clients : Len(wire[c]) <= SendBuffer

ClientTypeOK ==
    /\ link \in [Clients -> {"new", "pending", "open", "closed"}]
    /\ sent \in [Clients -> 0..MaxFrames]
    /\ inbound \in [Clients -> Seq(0..MaxFrames)]
    /\ ended \in [Clients -> {"no", "fin", "rst"}]
    /\ WireTypeOK
    /\ received \in [Clients -> Seq(Frames)]

\* An open descriptor has a connection and a client, a closed one neither; ids are
\* given out in order; a handler works on an open connection.
TablesMatch ==
    /\ \A fd \in Fds : /\ (connections[fd] # 0) = (peer[fd] # NoClient)
                       /\ connections[fd] < next_connection_id
    /\ loop = "handling" => ready_fd \in Fds /\ connections[ready_fd] # 0
    /\ loop # "handling" => frames = <<>>

LoopTypes == LoopTypeOK /\ TableTypeOK /\ ClientTypeOK /\ TablesMatch
-----------------------------------------------------------------------------
\* The three groups make up the type invariant.
LEMMA TypesByGroup ==
    EventLoopTypeOK <=> DispatcherTypeOK /\ LoopTypeOK /\ TableTypeOK /\ ClientTypeOK
BY DEF EventLoopTypeOK, LoopTypeOK, TableTypeOK, ClientTypeOK, WireTypeOK

\* Parts of a sequence over a set are over the same set.
LEMMA SeqParts ==
    ASSUME NEW S, NEW s \in Seq(S)
    PROVE  /\ s # <<>> => Head(s) \in S /\ Tail(s) \in Seq(S)
           /\ \A x \in S : Append(s, x) \in Seq(S)
           /\ \A m \in 1..(Len(s) + 2), n \in 0..Len(s) : SubSeq(s, m, n) \in Seq(S)
           /\ \A t \in Seq(S) : s \o t \in Seq(S)
OBVIOUS

\* So are its elements.
LEMMA SeqElement ==
    ASSUME NEW S, NEW s \in Seq(S), NEW i \in 1..Len(s)
    PROVE  s[i] \in S
OBVIOUS

\* The length of a sequence is a number, and its tail is no longer than it.
LEMMA SeqLength ==
    ASSUME NEW S, NEW s \in Seq(S)
    PROVE  Len(s) \in Nat /\ (s # <<>> => Len(Tail(s)) <= Len(s))
OBVIOUS

\* A suffix of a sequence, or less than that.
LEMMA SeqRest ==
    ASSUME NEW S, NEW s \in Seq(S), NEW n \in 0..Len(s)
    PROVE  SubSeq(s, n + 2, Len(s)) \in Seq(S) /\ SubSeq(s, 1, n) \in Seq(S)
<1>1. n + 2 \in 1..(Len(s) + 2) /\ Len(s) \in 0..Len(s) /\ 1 \in 1..(Len(s) + 2)
  OBVIOUS
<1> QED
  BY <1>1, SeqParts

\* The result being applied is one.
LEMMA HeadOfResults ==
    ASSUME LoopTypeOK, results # <<>>
    PROVE  /\ Head(results) \in ProcessingTasks
           /\ Head(results).fd \in Fds
           /\ Head(results).id \in 1..MaxConnectionId
           /\ Head(results).frame \in Frames
<1>1. Head(results) \in ProcessingTasks
  BY SeqParts DEF LoopTypeOK, ProcessingResults
<1> QED
  BY <1>1 DEF ProcessingTasks

\* flushWrites() sends no more than there is, and no more than there is room for.
LEMMA FlushableBounds ==
    ASSUME NEW fd, Len(write_buffer[fd]) \in Nat, Len(wire[peer[fd]]) \in Nat,
           Len(wire[peer[fd]]) <= SendBuffer
    PROVE  /\ Flushable(fd) \in 0..Len(write_buffer[fd])
           /\ Flushable(fd) + Len(wire[peer[fd]]) <= SendBuffer
<1> DEFINE q == Len(write_buffer[fd])
           l == Len(wire[peer[fd]])
<1>1. q \in Nat /\ l \in Nat /\ SendBuffer \in Nat /\ l <= SendBuffer
  BY EventLoopAssumption
<1>2. Flushable(fd) = IF q < SendBuffer - l THEN q ELSE SendBuffer - l
  BY DEF Flushable
<1> HIDE DEF q, l
<1>3. Flushable(fd) \in 0..q /\ Flushable(fd) + l <= SendBuffer
  BY <1>1, <1>2
<1> QED
  BY <1>3 DEF q, l

\* The actions that write to the clients' side.
LEMMA ClientChanges ==
    ASSUME EventLoopNext
    PROVE  \/ UNCHANGED clientVars
           \/ \E fd \in Fds : Accept(fd) \/ AcceptAddFails(fd)
           \/ ApplyFails \/ \E event \in batch : HandleError(event) \/ HandleReadable(event)
           \/ SubmitRejected \/ CloseAfterRead \/ FlushWrites \/ UpdateFails \/ FlushFails
           \/ DestroyLoop
           \/ \E c \in Clients : ClientStep(c)
<1>1. CASE Wait \/ RunFails \/ HandleNotification \/ TakeResults \/ ApplyStale \/ ApplyQueues
  BY <1>1 DEF Wait, RunFails, HandleNotification, TakeResults, ApplyStale, ApplyQueues
<1>2. CASE HandleListener \/ AcceptDrained \/ AcceptFails \/ SubmitFrame \/ StopDispatcher
  BY <1>2 DEF HandleListener, AcceptDrained, AcceptFails, SubmitFrame, StopDispatcher
<1>3. CASE \E event \in batch : HandleGone(event) \/ HandleWritable(event)
  BY <1>3 DEF HandleGone, HandleWritable
<1>4. CASE \E w \in Workers : PoolStep(w)
  BY <1>4 DEF PoolStep
<1> QED
  BY <1>1, <1>2, <1>3, <1>4 DEF EventLoopNext, LoopStep

\* No step, of the server or of a client, takes the clients' side out of its type: in
\* particular flushWrites() never overfills a socket.
LEMMA ClientTypePreserved ==
    DispatcherTypeOK /\ LoopTypes /\ [EventLoopNext]_vars => ClientTypeOK'
<1> SUFFICES ASSUME DispatcherTypeOK, LoopTypes, [EventLoopNext]_vars PROVE ClientTypeOK'
  OBVIOUS
<1> USE DEF ClientTypeOK, LoopTypes
<1>u. CASE UNCHANGED clientVars
  BY <1>u DEF clientVars, WireTypeOK
<1>w. ASSUME UNCHANGED wire PROVE WireTypeOK'
  BY <1>w DEF WireTypeOK
<1>c. ASSUME NEW fd \in Fds, CloseConnection(fd), UNCHANGED <<sent, inbound, ended, received>>,
             WireTypeOK'
      PROVE  ClientTypeOK'
  BY <1>c DEF CloseConnection
<1>h. loop = "handling" => ready_fd \in Fds /\ peer[ready_fd] \in Clients
  BY EventLoopAssumption DEF TablesMatch, TableTypeOK
<1>1. ASSUME NEW fd \in Fds, Accept(fd) PROVE ClientTypeOK'
  BY <1>1, <1>w DEF Accept
<1>2. ASSUME NEW fd \in Fds, AcceptAddFails(fd) PROVE ClientTypeOK'
  BY <1>2, <1>w DEF AcceptAddFails
<1>3. CASE ApplyFails
  <2>1. Head(results).fd \in Fds
    BY <1>3, HeadOfResults DEF ApplyFails, Applying
  <2> QED
    BY <1>3, <1>c, <2>1, <1>w DEF ApplyFails
<1>4. ASSUME NEW event \in batch, HandleError(event) PROVE ClientTypeOK'
  BY <1>4, <1>c, <1>w DEF HandleError, ClientEvent
<1>5. ASSUME NEW event \in batch, HandleReadable(event) PROVE ClientTypeOK'
  <2> DEFINE c == peer[event.fd]
  <2>1. PICK n \in Decoded(inbound[c]) :
          inbound' = [inbound EXCEPT ![c] = SubSeq(@, n + 2, Len(@))]
    BY <1>5 DEF HandleReadable
  <2>2. c \in Clients
    <3>1. event.fd \in Fds /\ connections[event.fd] # 0
      BY <1>5 DEF HandleReadable, ClientEvent
    <3> QED
      BY <3>1 DEF TablesMatch, TableTypeOK
  <2>3. n \in 0..Len(inbound[c]) /\ inbound[c] \in Seq(0..MaxFrames)
    BY <2>2 DEF Decoded
  <2>4. SubSeq(inbound[c], n + 2, Len(inbound[c])) \in Seq(0..MaxFrames)
    BY <2>3, SeqRest
  <2> QED
    BY <1>5, <2>1, <2>2, <2>4, <1>w DEF HandleReadable
<1>6. CASE SubmitRejected \/ CloseAfterRead \/ FlushFails
  BY <1>6, <1>c, <1>h, <1>w DEF SubmitRejected, CloseAfterRead, FlushFails, HandlerCloses
<1>7. ASSUME Flushes PROVE WireTypeOK'
  <2> DEFINE c == peer[ready_fd]
             n == Flushable(ready_fd)
             more == SubSeq(write_buffer[ready_fd], 1, n)
  <2>1. ready_fd \in Fds /\ c \in Clients
    BY <1>7, <1>h DEF Flushes
  <2>2. write_buffer[ready_fd] \in Seq(Frames) /\ wire[c] \in Seq(Frames)
    BY <2>1 DEF TableTypeOK, WireTypeOK
  <2>3. n \in 0..Len(write_buffer[ready_fd]) /\ n + Len(wire[c]) <= SendBuffer
    <3>1. Len(wire[c]) \in Nat /\ Len(write_buffer[ready_fd]) \in Nat
      BY <2>2
    <3>2. Len(wire[c]) <= SendBuffer
      BY <2>1 DEF WireTypeOK
    <3> QED
      BY <3>1, <3>2, FlushableBounds
  <2>4. more \in Seq(Frames) /\ Len(more) = n
    BY <2>2, <2>3
  <2>5. wire[c] \o more \in Seq(Frames) /\ Len(wire[c] \o more) <= SendBuffer
    BY <2>2, <2>3, <2>4
  <2>6. wire' = [wire EXCEPT ![c] = wire[c] \o more]
    BY <1>7 DEF Flushes
  <2> HIDE DEF more, n, c
  <2> QED
    BY <2>1, <2>5, <2>6 DEF WireTypeOK
<1>8. CASE FlushWrites
  BY <1>7, <1>8 DEF FlushWrites
<1>9. CASE UpdateFails
  BY <1>7, <1>9, <1>c, <1>h DEF UpdateFails, HandlerCloses, Flushes
<1>10. CASE DestroyLoop
  BY <1>10, <1>w DEF DestroyLoop
<1>11. ASSUME NEW c \in Clients, ClientStep(c) PROVE ClientTypeOK'
  <2>1. CASE ClientConnects(c)
    BY <2>1, <1>w DEF ClientConnects
  <2>2. CASE ClientSends(c)
    BY <2>2, EventLoopAssumption, <1>w DEF ClientSends
  <2>3. CASE ClientSendsOversized(c)
    BY <2>3, EventLoopAssumption, <1>w DEF ClientSendsOversized, Oversized
  <2>4. CASE ClientShuts(c)
    BY <2>4, <1>w DEF ClientShuts
  <2>5. CASE ClientResets(c)
    <3>1. PICK n \in 0..Len(inbound[c]) :
            inbound' = [inbound EXCEPT ![c] = SubSeq(@, 1, n)]
      BY <2>5 DEF ClientResets
    <3>2. SubSeq(inbound[c], 1, n) \in Seq(0..MaxFrames)
      BY SeqRest
    <3> QED
      BY <2>5, <3>1, <3>2, <1>w DEF ClientResets
  <2>6. CASE ClientReads(c)
    <3>1. wire[c] \in Seq(Frames) /\ wire[c] # <<>>
      BY <2>6 DEF ClientReads, WireTypeOK
    <3>2. /\ Head(wire[c]) \in Frames /\ Tail(wire[c]) \in Seq(Frames)
          /\ Len(Tail(wire[c])) <= Len(wire[c])
      BY <3>1, SeqParts, SeqLength
    <3>3. WireTypeOK'
      <4>1. Len(wire[c]) \in Nat /\ Len(Tail(wire[c])) \in Nat
        BY <3>1, <3>2, SeqLength
      <4>2. SendBuffer \in Nat /\ Len(wire[c]) <= SendBuffer
        BY EventLoopAssumption DEF WireTypeOK
      <4>3. Len(Tail(wire[c])) <= SendBuffer
        BY <3>2, <4>1, <4>2
      <4> QED
        BY <2>6, <3>2, <4>3 DEF ClientReads, WireTypeOK
    <3> QED
      BY <2>6, <3>2, <3>3 DEF ClientReads
  <2> QED
    BY <1>11, <2>1, <2>2, <2>3, <2>4, <2>5, <2>6 DEF ClientStep
<1>12. CASE UNCHANGED vars
  BY <1>12, <1>u DEF vars
<1>13. CASE EventLoopNext
  BY <1>13, <1>u, <1>1, <1>2, <1>3, <1>4, <1>5, <1>6, <1>8, <1>9, <1>10, <1>11,
     ClientChanges
<1> QED
  BY <1>12, <1>13
-----------------------------------------------------------------------------
\* The actions that write to connections_, the descriptor table or the backlog.
LEMMA TableChanges ==
    ASSUME EventLoopNext
    PROVE  \/ UNCHANGED <<serverVars, kernelVars>>
           \/ \E fd \in Fds : Accept(fd) \/ AcceptAddFails(fd)
           \/ ApplyQueues \/ ApplyFails \/ \E event \in batch : HandleError(event)
           \/ SubmitRejected \/ CloseAfterRead \/ FlushWrites \/ UpdateFails \/ FlushFails
           \/ DestroyLoop
           \/ \E c \in Clients : ClientConnects(c)
<1>1. CASE Wait \/ RunFails \/ HandleNotification \/ TakeResults \/ ApplyStale
  BY <1>1 DEF Wait, RunFails, HandleNotification, TakeResults, ApplyStale
<1>2. CASE HandleListener \/ AcceptDrained \/ AcceptFails \/ SubmitFrame \/ StopDispatcher
  BY <1>2 DEF HandleListener, AcceptDrained, AcceptFails, SubmitFrame, StopDispatcher
<1>3. CASE \E event \in batch : HandleGone(event) \/ HandleReadable(event) \/ HandleWritable(event)
  BY <1>3 DEF HandleGone, HandleReadable, HandleWritable
<1>4. CASE \E w \in Workers : PoolStep(w)
  BY <1>4 DEF PoolStep
<1>5. ASSUME NEW c \in Clients, ClientStep(c), ~ClientConnects(c)
      PROVE  UNCHANGED <<serverVars, kernelVars>>
  BY <1>5 DEF ClientStep, ClientSends, ClientSendsOversized, ClientShuts, ClientResets,
              ClientReads
<1> QED
  BY <1>1, <1>2, <1>3, <1>4, <1>5 DEF EventLoopNext, LoopStep

\* The descriptor a handler closes is open.
LEMMA HandlerHasConnection ==
    ASSUME LoopTypes, loop = "handling"
    PROVE  /\ ready_fd \in Fds /\ connections[ready_fd] # 0
           /\ connections[ready_fd] \in 1..MaxConnectionId
           /\ peer[ready_fd] \in Clients
<1>1. ready_fd \in Fds /\ connections[ready_fd] # 0
  BY DEF LoopTypes, TablesMatch
<1>2. peer[ready_fd] \in Clients
  BY <1>1 DEF LoopTypes, TablesMatch, TableTypeOK
<1>3. connections[ready_fd] \in 1..MaxConnectionId
  BY <1>1, DispatcherAssumption DEF LoopTypes, TableTypeOK
<1> QED
  BY <1>1, <1>2, <1>3

\* Accepting, closing, queueing and flushing keep the tables in their types.
LEMMA TableTypePreserved ==
    LoopTypes /\ [EventLoopNext]_vars => TableTypeOK'
<1> SUFFICES ASSUME LoopTypes, [EventLoopNext]_vars PROVE TableTypeOK'
  OBVIOUS
<1> USE DispatcherAssumption DEF TableTypeOK, LoopTypes
<1>u. CASE UNCHANGED <<serverVars, kernelVars>>
  BY <1>u DEF serverVars, kernelVars
<1>c. ASSUME NEW fd \in Fds, CloseConnection(fd), UNCHANGED <<next_connection_id, backlog>>
      PROVE  TableTypeOK'
  BY <1>c DEF CloseConnection
<1>a. ASSUME NEW fd \in Fds, Accepts(fd)
      PROVE  /\ next_connection_id' \in 1..(MaxConnectionId + 1)
             /\ next_connection_id \in 0..MaxConnectionId
             /\ backlog' \in Seq(Clients) /\ Head(backlog) \in Clients
  <2>1. Head(backlog) \in Clients /\ Tail(backlog) \in Seq(Clients)
    BY <1>a, SeqParts DEF Accepts
  <2> QED
    BY <1>a, <2>1 DEF Accepts
<1>1. ASSUME NEW fd \in Fds, Accept(fd) PROVE TableTypeOK'
  BY <1>1, <1>a DEF Accept
<1>2. ASSUME NEW fd \in Fds, AcceptAddFails(fd) PROVE TableTypeOK'
  BY <1>2, <1>a DEF AcceptAddFails
<1>3. CASE ApplyQueues
  <2>1. Head(results).fd \in Fds /\ Head(results).frame \in Frames
    BY <1>3, HeadOfResults DEF ApplyQueues, Applying
  <2>2. Append(write_buffer[Head(results).fd], Head(results).frame) \in Seq(Frames)
    BY <2>1, SeqParts
  <2> QED
    BY <1>3, <2>1, <2>2 DEF ApplyQueues, UpdateInterest
<1>4. CASE ApplyFails
  BY <1>4, <1>c, HeadOfResults DEF ApplyFails, Applying
<1>5. ASSUME NEW event \in batch, HandleError(event) PROVE TableTypeOK'
  BY <1>5, <1>c DEF HandleError, ClientEvent
<1>6. CASE SubmitRejected \/ CloseAfterRead \/ FlushFails \/ UpdateFails
  BY <1>6, <1>c, HandlerHasConnection
  DEF SubmitRejected, CloseAfterRead, FlushFails, UpdateFails, Flushes, HandlerCloses
<1>7. CASE FlushWrites
  <2>1. ready_fd \in Fds /\ peer[ready_fd] \in Clients
    BY <1>7, HandlerHasConnection DEF FlushWrites, Flushes
  <2>2. Flushable(ready_fd) + 1 \in 1..(Len(write_buffer[ready_fd]) + 2)
    <3>1. Len(wire[peer[ready_fd]]) \in Nat /\ Len(write_buffer[ready_fd]) \in Nat
      BY <2>1 DEF ClientTypeOK, WireTypeOK
    <3>2. Len(wire[peer[ready_fd]]) <= SendBuffer
      BY <2>1 DEF ClientTypeOK, WireTypeOK
    <3>3. Flushable(ready_fd) \in 0..Len(write_buffer[ready_fd])
      BY <3>1, <3>2, FlushableBounds
    <3> QED
      BY <3>1, <3>3
  <2>3. SubSeq(write_buffer[ready_fd], Flushable(ready_fd) + 1, Len(write_buffer[ready_fd]))
          \in Seq(Frames)
    BY <2>1, <2>2, SeqParts
  <2> QED
    BY <1>7, <2>1, <2>3 DEF FlushWrites, UpdateInterest
<1>8. CASE DestroyLoop
  BY <1>8 DEF DestroyLoop
<1>9. ASSUME NEW c \in Clients, ClientConnects(c) PROVE TableTypeOK'
  BY <1>9, SeqParts DEF ClientConnects, serverVars
<1>10. CASE UNCHANGED vars
  BY <1>10, <1>u DEF vars
<1>11. CASE EventLoopNext
  BY <1>11, <1>u, <1>1, <1>2, <1>3, <1>4, <1>5, <1>6, <1>7, <1>8, <1>9, TableChanges
<1> QED
  BY <1>10, <1>11
-----------------------------------------------------------------------------
\* The frames a read delivers, and no malformed one among them, are the client's.
LEMMA ReadFrames ==
    ASSUME LoopTypes, NEW event \in batch, HandleReadable(event)
    PROVE  /\ peer[event.fd] \in Clients
           /\ frames' \in Seq(Frames)
           /\ \A i \in DOMAIN frames' : frames'[i][1] = peer[event.fd]
           /\ status' \in {"ready", "peer_closed", "protocol_error", "io_error"}
<1> DEFINE c == peer[event.fd]
<1>1. c \in Clients
  BY DEF HandleReadable, ClientEvent, LoopTypes, TablesMatch, TableTypeOK
<1>2. PICK n \in Decoded(inbound[c]) : frames' = [i \in 1..n |-> <<c, inbound[c][i]>>]
  BY DEF HandleReadable
<1>3. inbound[c] \in Seq(0..MaxFrames)
  BY <1>1 DEF LoopTypes, ClientTypeOK
<1>4. n \in 0..Len(inbound[c]) /\ \A i \in 1..n : inbound[c][i] # 0
  BY DEF Decoded, Oversized
<1>5. \A i \in 1..n : inbound[c][i] \in 1..MaxFrames
  <2> TAKE i \in 1..n
  <2>1. Len(inbound[c]) \in Nat
    BY <1>3
  <2>2. i \in 1..Len(inbound[c])
    BY <1>4, <2>1
  <2>3. inbound[c][i] \in 0..MaxFrames
    BY <1>3, <2>2, SeqElement
  <2>4. inbound[c][i] # 0
    BY <1>4
  <2> QED
    BY <2>3, <2>4, EventLoopAssumption
<1>6. \A i \in 1..n : <<c, inbound[c][i]>> \in Frames
  BY <1>1, <1>5, EventLoopAssumption
<1>7. n \in Nat
  BY <1>3, <1>4
<1>8. frames' \in Seq(Frames)
  BY <1>2, <1>6, <1>7
<1>9. \A i \in DOMAIN frames' : frames'[i][1] = c
  BY <1>2
<1>10. status' \in {"ready", "peer_closed", "protocol_error", "io_error"}
  BY DEF HandleReadable
<1> QED
  BY <1>1, <1>8, <1>9, <1>10

\* The actions that move the loop thread.
LEMMA LoopChanges ==
    ASSUME EventLoopNext
    PROVE  \/ UNCHANGED loopVars
           \/ Wait \/ RunFails \/ HandleNotification \/ TakeResults
           \/ ApplyStale \/ ApplyQueues \/ ApplyFails
           \/ HandleListener \/ AcceptDrained \/ AcceptFails
           \/ \E event \in batch : \/ HandleGone(event) \/ HandleError(event)
                                   \/ HandleReadable(event) \/ HandleWritable(event)
           \/ SubmitFrame \/ SubmitRejected \/ CloseAfterRead
           \/ FlushWrites \/ UpdateFails \/ FlushFails \/ DestroyLoop
<1>1. CASE \E fd \in Fds : Accept(fd) \/ AcceptAddFails(fd)
  BY <1>1 DEF Accept, AcceptAddFails
<1>2. CASE StopDispatcher
  BY <1>2 DEF StopDispatcher
<1>3. CASE \E w \in Workers : PoolStep(w)
  BY <1>3 DEF PoolStep
<1>4. CASE \E c \in Clients : ClientStep(c)
  BY <1>4 DEF ClientStep, ClientConnects, ClientSends, ClientSendsOversized, ClientShuts,
              ClientResets, ClientReads
<1> QED
  BY <1>1, <1>2, <1>3, <1>4 DEF EventLoopNext, LoopStep

\* Every path through run() and the handlers keeps the loop's variables in their types.
LEMMA LoopTypePreserved ==
    DispatcherTypeOK /\ LoopTypes /\ [EventLoopNext]_vars => LoopTypeOK'
<1> SUFFICES ASSUME DispatcherTypeOK, LoopTypes, [EventLoopNext]_vars PROVE LoopTypeOK'
  OBVIOUS
<1> USE DEF LoopTypeOK, LoopTypes
<1>n. <<>> \in Seq(Frames) /\ <<>> \in Seq(ProcessingResults)
  OBVIOUS
<1>u. CASE UNCHANGED loopVars
  BY <1>u DEF loopVars
<1>1. CASE Wait
  <2>1. ReadyEvents \subseteq Events
    <3>1. \A fd \in Fds : Readiness(fd) \in {"none", "err", "in", "out"}
      BY DEF Readiness
    <3>2. \A fd \in Fds : connections[fd] \in 0..MaxConnectionId
      BY DEF TableTypeOK
    <3>3. 0 \in 0..MaxConnectionId
      BY DispatcherAssumption
    <3> QED
      BY <3>1, <3>2, <3>3 DEF ReadyEvents, Events
  <2> QED
    BY <1>1, <2>1 DEF Wait
<1>2. CASE RunFails \/ HandleNotification \/ HandleListener \/ AcceptDrained \/ AcceptFails
  BY <1>2 DEF RunFails, HandleNotification, HandleListener, AcceptDrained, AcceptFails
<1>3. CASE TakeResults
  BY <1>3 DEF TakeResults, DispatcherTypeOK
<1>4. CASE ApplyStale \/ ApplyQueues \/ ApplyFails
  <2>1. results # <<>> /\ results' = Tail(results)
    BY <1>4 DEF ApplyStale, ApplyQueues, ApplyFails, Applying
  <2>2. results' \in Seq(ProcessingResults)
    BY <2>1, SeqParts
  <2> QED
    BY <1>4, <2>2 DEF ApplyStale, ApplyQueues, ApplyFails
<1>5. ASSUME NEW event \in batch, HandleGone(event) \/ HandleError(event) PROVE LoopTypeOK'
  BY <1>5 DEF HandleGone, HandleError, ClientEvent
<1>6. ASSUME NEW event \in batch, HandleReadable(event) PROVE LoopTypeOK'
  BY <1>6, ReadFrames DEF HandleReadable, ClientEvent
<1>7. ASSUME NEW event \in batch, HandleWritable(event) PROVE LoopTypeOK'
  BY <1>7 DEF HandleWritable, ClientEvent
<1>8. CASE SubmitFrame
  <2>1. Tail(frames) \in Seq(Frames)
    BY <1>8, SeqParts DEF SubmitFrame
  <2> QED
    BY <1>8, <2>1 DEF SubmitFrame
<1>9. CASE SubmitRejected \/ CloseAfterRead \/ FlushWrites \/ UpdateFails \/ FlushFails
  BY <1>9, <1>n DEF SubmitRejected, CloseAfterRead, FlushWrites, UpdateFails, FlushFails,
                    HandlerCloses, HandlerReturns
<1>10. CASE DestroyLoop
  BY <1>10, <1>n DEF DestroyLoop
<1>11. CASE UNCHANGED vars
  BY <1>11, <1>u DEF vars
<1>12. CASE EventLoopNext
  BY <1>12, <1>u, <1>1, <1>2, <1>3, <1>4, <1>5, <1>6, <1>7, <1>8, <1>9, <1>10, LoopChanges
<1> QED
  BY <1>11, <1>12

\* connections_ and the descriptor table change together, an id is given out once, and
\* no step takes the connection away from under a handler that is using it.
LEMMA TablesPreserved ==
    LoopTypes /\ [EventLoopNext]_vars => TablesMatch'
<1> SUFFICES ASSUME LoopTypes, [EventLoopNext]_vars PROVE TablesMatch'
  OBVIOUS
<1> DEFINE Entries == \A fd \in Fds : /\ (connections[fd] # 0) = (peer[fd] # NoClient)
                                      /\ connections[fd] < next_connection_id
           Handling == /\ loop = "handling" => ready_fd \in Fds /\ connections[ready_fd] # 0
                       /\ loop # "handling" => frames = <<>>
<1>e. Entries /\ Handling
  BY DEF LoopTypes, TablesMatch
<1>t. connections \in [Fds -> 0..MaxConnectionId] /\ next_connection_id \in Nat
  BY DispatcherAssumption DEF LoopTypes, TableTypeOK
<1>1. Entries'
  <2>u. CASE UNCHANGED <<connections, peer, next_connection_id>>
    BY <2>u, <1>e
  <2>c. ASSUME NEW fd \in Fds, CloseConnection(fd), UNCHANGED next_connection_id
        PROVE  Entries'
    <3>1. peer \in [Fds -> Clients \cup {NoClient}] /\ next_connection_id > 0
      BY DispatcherAssumption DEF LoopTypes, TableTypeOK
    <3> QED
      BY <2>c, <1>e, <1>t, <3>1 DEF CloseConnection
  <2>1. ASSUME NEW fd \in Fds, Accept(fd) PROVE Entries'
    <3>1. /\ peer \in [Fds -> Clients \cup {NoClient}] /\ Head(backlog) \in Clients
          /\ next_connection_id > 0
      BY <2>1, SeqParts, DispatcherAssumption DEF Accept, Accepts, LoopTypes, TableTypeOK
    <3> QED
      BY <2>1, <1>e, <1>t, <3>1, EventLoopAssumption DEF Accept, Accepts
  <2>2. ASSUME NEW fd \in Fds, AcceptAddFails(fd) PROVE Entries'
    BY <2>2, <1>e, <1>t DEF AcceptAddFails, Accepts
  <2>3. CASE ApplyQueues \/ FlushWrites
    BY <2>3, <2>u DEF ApplyQueues, FlushWrites
  <2>4. CASE ApplyFails
    BY <2>4, <2>c, HeadOfResults DEF ApplyFails, Applying, LoopTypes
  <2>5. ASSUME NEW event \in batch, HandleError(event) PROVE Entries'
    BY <2>5, <2>c DEF HandleError, ClientEvent
  <2>6. CASE SubmitRejected \/ CloseAfterRead \/ FlushFails \/ UpdateFails
    BY <2>6, <2>c, HandlerHasConnection
    DEF SubmitRejected, CloseAfterRead, FlushFails, UpdateFails, Flushes, HandlerCloses
  <2>7. CASE DestroyLoop
    <3>1. next_connection_id > 0
      BY DispatcherAssumption DEF LoopTypes, TableTypeOK
    <3> QED
      BY <2>7, <3>1 DEF DestroyLoop
  <2>8. ASSUME NEW c \in Clients, ClientConnects(c) PROVE Entries'
    BY <2>8, <2>u DEF ClientConnects, serverVars
  <2>9. CASE UNCHANGED <<serverVars, kernelVars>>
    BY <2>9, <2>u DEF serverVars, kernelVars
  <2>10. CASE UNCHANGED vars
    BY <2>10, <2>9 DEF vars
  <2> HIDE DEF Entries
  <2>11. CASE EventLoopNext
    BY <2>11, <2>1, <2>2, <2>3, <2>4, <2>5, <2>6, <2>7, <2>8, <2>9, TableChanges
  <2> QED
    BY <2>10, <2>11
<1>2. Handling'
  <2>h. /\ loop = "handling" => ready_fd \in Fds /\ connections[ready_fd] # 0
        /\ loop # "handling" => frames = <<>>
    BY <1>e
  <2>u. CASE UNCHANGED <<loop, ready_fd, frames, connections>>
    BY <2>u, <2>h
  <2>r. ASSUME HandlerReturns PROVE Handling'
    BY <2>r DEF HandlerReturns
  <2>1. CASE Wait \/ HandleNotification \/ TakeResults \/ ApplyStale \/ ApplyQueues
    BY <2>1, <2>u DEF Wait, HandleNotification, TakeResults, ApplyStale, ApplyQueues, serverVars
  <2>2. CASE RunFails \/ ApplyFails \/ HandleListener \/ AcceptDrained \/ AcceptFails
    BY <2>2, <2>h DEF RunFails, ApplyFails, HandleListener, AcceptDrained, AcceptFails,
                      Dispatching, Applying
  <2>3. ASSUME NEW event \in batch, HandleGone(event) \/ HandleError(event) PROVE Handling'
    BY <2>3, <2>h DEF HandleGone, HandleError, ClientEvent, Dispatching
  <2>4. ASSUME NEW event \in batch, HandleReadable(event) \/ HandleWritable(event)
        PROVE  Handling'
    BY <2>4 DEF HandleReadable, HandleWritable, ClientEvent, serverVars
  <2>5. CASE SubmitFrame
    BY <2>5, <2>h DEF SubmitFrame, serverVars
  <2>6. CASE SubmitRejected \/ CloseAfterRead \/ FlushWrites \/ UpdateFails \/ FlushFails
    BY <2>6, <2>r DEF SubmitRejected, CloseAfterRead, FlushWrites, UpdateFails, FlushFails,
                      HandlerCloses
  <2>7. CASE DestroyLoop
    BY <2>7, <2>h DEF DestroyLoop
  <2>8. CASE UNCHANGED loopVars /\ EventLoopNext
    <3>1. ASSUME NEW fd \in Fds, Accept(fd) PROVE Handling'
      BY <3>1, <2>h DEF Accept, Accepts, loopVars
    <3>2. CASE UNCHANGED connections
      BY <2>8, <3>2, <2>u DEF loopVars
    <3>3. ASSUME NEW fd \in Fds, AcceptAddFails(fd) PROVE Handling'
      BY <3>2, <3>3 DEF AcceptAddFails
    <3>4. ASSUME NEW c \in Clients, ClientStep(c) PROVE Handling'
      BY <3>2, <3>4 DEF ClientStep, ClientConnects, ClientSends, ClientSendsOversized,
                        ClientShuts, ClientResets, ClientReads, serverVars
    <3>5. CASE StopDispatcher \/ \E w \in Workers : PoolStep(w)
      BY <3>2, <3>5 DEF StopDispatcher, PoolStep, serverVars
    <3> HIDE DEF Handling
    <3> QED
      BY <2>8, <3>1, <3>3, <3>4, <3>5, <2>1, <2>2, <2>3, <2>4, <2>5, <2>6, <2>7
      DEF EventLoopNext, LoopStep
  <2>9. CASE UNCHANGED vars
    BY <2>9, <2>u DEF vars, loopVars, serverVars
  <2> HIDE DEF Handling
  <2>10. CASE EventLoopNext
    BY <2>10, <2>1, <2>2, <2>3, <2>4, <2>5, <2>6, <2>7, <2>8, LoopChanges
  <2> QED
    BY <2>9, <2>10
<1> QED
  BY <1>1, <1>2 DEF TablesMatch
-----------------------------------------------------------------------------
\* The loop uses the dispatcher through its operations and with valid tasks only.
LEMMA LoopUsesDispatcher ==
    LoopTypes /\ [EventLoopNext]_vars => [DispatcherNext]_dispatcherVars
<1> SUFFICES ASSUME LoopTypes, [EventLoopNext]_vars PROVE [DispatcherNext]_dispatcherVars
  OBVIOUS
<1>1. CASE Wait \/ RunFails \/ ApplyStale \/ ApplyQueues \/ ApplyFails
  BY <1>1 DEF Wait, RunFails, ApplyStale, ApplyQueues, ApplyFails
<1>2. CASE HandleListener \/ AcceptDrained \/ AcceptFails
           \/ \E fd \in Fds : Accept(fd) \/ AcceptAddFails(fd)
  BY <1>2 DEF HandleListener, AcceptDrained, AcceptFails, Accept, AcceptAddFails
<1>3. CASE \E event \in batch : \/ HandleGone(event) \/ HandleError(event)
                                \/ HandleReadable(event) \/ HandleWritable(event)
  BY <1>3 DEF HandleGone, HandleError, HandleReadable, HandleWritable
<1>4. CASE SubmitRejected \/ CloseAfterRead \/ FlushWrites \/ UpdateFails \/ FlushFails
  BY <1>4 DEF SubmitRejected, CloseAfterRead, FlushWrites, UpdateFails, FlushFails
<1>5. CASE HandleNotification \/ TakeResults \/ StopDispatcher \/ DestroyLoop
  BY <1>5 DEF HandleNotification, TakeResults, StopDispatcher, DestroyLoop, DispatcherNext
<1>6. CASE SubmitFrame
  <2>1. ready_fd \in Fds /\ connections[ready_fd] \in 1..MaxConnectionId
    BY <1>6, HandlerHasConnection DEF SubmitFrame
  <2>2. Head(frames) \in Frames
    BY <1>6, SeqParts DEF SubmitFrame, LoopTypes, LoopTypeOK
  <2>3. FrameTask \in ProcessingTasks
    BY <2>1, <2>2 DEF FrameTask, ProcessingTasks
  <2> QED
    BY <1>6, <2>3 DEF SubmitFrame, DispatcherNext
<1>7. CASE \E w \in Workers : PoolStep(w)
  BY <1>7 DEF PoolStep, DispatcherNext
<1>8. CASE \E c \in Clients : ClientStep(c)
  BY <1>8 DEF ClientStep, ClientConnects, ClientSends, ClientSendsOversized, ClientShuts,
              ClientResets, ClientReads
<1>9. CASE UNCHANGED vars
  BY <1>9 DEF vars
<1> QED
  BY <1>1, <1>2, <1>3, <1>4, <1>5, <1>6, <1>7, <1>8, <1>9 DEF EventLoopNext, LoopStep

\* The inductive invariant for the types.
LoopInv == DispatcherInv /\ LoopTypes

\* The invariant on which the theorems about the server rest holds throughout.
THEOREM LoopInvariant == EventLoopSpec => []LoopInv
<1>1. EventLoopInit => LoopInv
  <2> SUFFICES ASSUME EventLoopInit PROVE LoopInv
    OBVIOUS
  <2>1. DispatcherInv
    BY DispatcherStarts DEF EventLoopInit
  <2>2. loop \in {"running", "returned"}
    BY DEF EventLoopInit
  <2>n. /\ <<>> \in Seq(Frames) /\ <<>> \in Seq(ProcessingResults) /\ <<>> \in Seq(Clients)
        /\ <<>> \in Seq(0..MaxFrames) /\ Len(<<>>) = 0
    OBVIOUS
  <2>m. /\ 0 \in 0..MaxFrames /\ 0 \in 0..MaxConnectionId /\ 1 \in 1..(MaxConnectionId + 1)
        /\ 0 <= SendBuffer
    BY EventLoopAssumption, DispatcherAssumption
  <2>3. LoopTypeOK
    BY <2>2, <2>n DEF EventLoopInit, LoopTypeOK
  <2>4. TableTypeOK
    BY <2>n, <2>m DEF EventLoopInit, TableTypeOK
  <2>5. ClientTypeOK
    BY <2>n, <2>m DEF EventLoopInit, ClientTypeOK, WireTypeOK
  <2>6. TablesMatch
    BY <2>2 DEF EventLoopInit, TablesMatch
  <2> QED
    BY <2>1, <2>3, <2>4, <2>5, <2>6 DEF LoopInv, LoopTypes
<1>2. LoopInv /\ [EventLoopNext]_vars => LoopInv'
  <2> SUFFICES ASSUME LoopInv, [EventLoopNext]_vars PROVE LoopInv'
    OBVIOUS
  <2>1. DispatcherInv'
    BY LoopUsesDispatcher, DispatcherKeeps DEF LoopInv
  <2>2. LoopTypes'
    BY LoopTypePreserved, TableTypePreserved, ClientTypePreserved, TablesPreserved
    DEF LoopInv, DispatcherInv, LoopTypes
  <2> QED
    BY <2>1, <2>2 DEF LoopInv
<1> QED
  BY <1>1, <1>2, PTL DEF EventLoopSpec

\* Type correctness of the server: what its variables may hold, the bound on the task
\* queue and on the socket, and that no malformed frame leaves a read.
THEOREM EventLoopTypeCorrect == EventLoopSpec => []EventLoopTypeOK
<1>1. LoopInv => EventLoopTypeOK
  BY TypesByGroup DEF LoopInv, DispatcherInv, LoopTypes
<1> QED
  BY <1>1, LoopInvariant, PTL

\* The server is a correct user of the dispatcher: its steps are steps of the
\* dispatcher's own specification, in which tasks are valid, results are taken only
\* after the eventfd was read, and destruction follows the join.
THEOREM EventLoopImplementsDispatcher == EventLoopSpec => DispatcherSpec
<1>1. EventLoopInit => DispatcherInit
  BY DEF EventLoopInit
<1>2. LoopInv /\ [EventLoopNext]_vars => [DispatcherNext]_dispatcherVars
  BY LoopUsesDispatcher DEF LoopInv
<1> QED
  BY <1>1, <1>2, LoopInvariant, PTL DEF EventLoopSpec, DispatcherSpec

\* So no worker of the server outlives the dispatcher's notifier.
THEOREM ServerWorkersLeaveFirst == EventLoopSpec => []NotifierOutlivesWorkers
BY EventLoopImplementsDispatcher, WorkersLeaveFirst

-----------------------------------------------------------------------------
(* connections_, the descriptor table, epoll and the accept queue.         *)

\* A client waits in the accept queue once, and is pending while it does.
BacklogWaits ==
    /\ \A i \in DOMAIN backlog : link[backlog[i]] = "pending"
    /\ \A i, j \in DOMAIN backlog : backlog[i] = backlog[j] => i = j

\* An open descriptor is registered, and leads to an open client of its own.
PeersOpen ==
    /\ \A fd \in Fds : (connections[fd] # 0) = (interest[fd] # "none")
    /\ \A fd \in Fds : connections[fd] # 0 => link[peer[fd]] = "open"
    /\ \A fd, other \in Fds :
         connections[fd] # 0 /\ fd # other =>
             peer[fd] # peer[other] /\ connections[fd] # connections[other]

\* A descriptor without a connection has no responses, one with responses wants to write.
BuffersMatch ==
    \A fd \in Fds :
        /\ connections[fd] = 0 => write_buffer[fd] = <<>>
        /\ connections[fd] # 0 => (interest[fd] = "inout") = (write_buffer[fd] # <<>>)

\* The three together are inductive.
ServerTables == BacklogWaits /\ PeersOpen /\ BuffersMatch

\* The first client of the accept queue is pending, and the others are others.
LEMMA AcceptedClient ==
    ASSUME LoopTypes, BacklogWaits, backlog # <<>>
    PROVE  /\ Head(backlog) \in Clients /\ link[Head(backlog)] = "pending"
           /\ DOMAIN Tail(backlog) \subseteq Nat
           /\ \A i \in DOMAIN Tail(backlog) : /\ i + 1 \in DOMAIN backlog
                                              /\ Tail(backlog)[i] = backlog[i + 1]
                                              /\ Tail(backlog)[i] # Head(backlog)
                                              /\ Tail(backlog)[i] \in Clients
<1>1. backlog \in Seq(Clients)
  BY DEF LoopTypes, TableTypeOK
<1>2. 1 \in DOMAIN backlog /\ Head(backlog) = backlog[1] /\ Head(backlog) \in Clients
  BY <1>1
<1>3. DOMAIN Tail(backlog) \subseteq Nat
  BY <1>1
<1>4. \A i \in DOMAIN Tail(backlog) : /\ i + 1 \in DOMAIN backlog /\ i + 1 # 1
                                      /\ Tail(backlog)[i] = backlog[i + 1]
                                      /\ backlog[i + 1] \in Clients
  BY <1>1
<1> QED
  BY <1>2, <1>3, <1>4 DEF BacklogWaits

\* The accept queue without its first client still waits.
LEMMA TailWaits ==
    ASSUME LoopTypes, BacklogWaits, backlog # <<>>, backlog' = Tail(backlog),
           NEW state, link' = [link EXCEPT ![Head(backlog)] = state]
    PROVE  BacklogWaits'
<1>1. link \in [Clients -> {"new", "pending", "open", "closed"}]
  BY DEF LoopTypes, ClientTypeOK
<1>2. \A i \in DOMAIN backlog' : link'[backlog'[i]] = "pending"
  BY <1>1, AcceptedClient DEF BacklogWaits
<1>3. ASSUME NEW i \in DOMAIN backlog', NEW j \in DOMAIN backlog', backlog'[i] = backlog'[j]
      PROVE  i = j
  <2>1. i \in Nat /\ j \in Nat
    BY AcceptedClient
  <2>2. i + 1 = j + 1
    BY <1>3, AcceptedClient DEF BacklogWaits
  <2> QED
    BY <2>1, <2>2
<1> QED
  BY <1>2, <1>3 DEF BacklogWaits

\* Closing a connection takes its entry, its registration, its responses and its client,
\* and nothing of another one.
LEMMA CloseKeepsTables ==
    ASSUME LoopTypes, ServerTables, NEW fd \in Fds, connections[fd] # 0,
           CloseConnection(fd), UNCHANGED backlog
    PROVE  ServerTables'
<1>t. /\ connections \in [Fds -> 0..MaxConnectionId] /\ write_buffer \in [Fds -> Seq(Frames)]
      /\ peer \in [Fds -> Clients \cup {NoClient}] /\ interest \in [Fds -> {"none", "in", "inout"}]
      /\ backlog \in Seq(Clients) /\ link \in [Clients -> {"new", "pending", "open", "closed"}]
  BY DEF LoopTypes, TableTypeOK, ClientTypeOK
<1>1. peer[fd] \in Clients /\ link[peer[fd]] = "open"
  BY <1>t DEF LoopTypes, TablesMatch, ServerTables, PeersOpen
<1>2. /\ connections'[fd] = 0 /\ write_buffer'[fd] = <<>> /\ interest'[fd] = "none"
      /\ \A other \in Fds \ {fd} :
           /\ connections'[other] = connections[other] /\ peer'[other] = peer[other]
           /\ write_buffer'[other] = write_buffer[other] /\ interest'[other] = interest[other]
  BY <1>t DEF CloseConnection
<1>3. \A c \in Clients \ {peer[fd]} : link'[c] = link[c]
  BY <1>t DEF CloseConnection
<1>4. BacklogWaits'
  BY <1>t, <1>1, <1>3 DEF ServerTables, BacklogWaits
<1>5. PeersOpen'
  <2>1. \A other \in Fds \ {fd} : connections[other] # 0 =>
          peer[other] # peer[fd] /\ peer[other] \in Clients
    BY <1>t DEF ServerTables, PeersOpen, LoopTypes, TablesMatch
  <2>2. \A other \in Fds : connections'[other] # 0 => link'[peer'[other]] = "open"
    BY <1>2, <1>3, <2>1 DEF ServerTables, PeersOpen
  <2>3. peer'[fd] = NoClient
    BY <1>t DEF CloseConnection
  <2>4. \A this, other \in Fds : connections'[this] # 0 /\ this # other =>
             peer'[this] # peer'[other] /\ connections'[this] # connections'[other]
    BY <1>2, <2>1, <2>3, EventLoopAssumption DEF ServerTables, PeersOpen
  <2>5. \A other \in Fds : (connections'[other] # 0) = (interest'[other] # "none")
    BY <1>2 DEF ServerTables, PeersOpen
  <2> QED
    BY <2>2, <2>4, <2>5 DEF PeersOpen
<1>6. BuffersMatch'
  BY <1>2 DEF ServerTables, BuffersMatch
<1> QED
  BY <1>4, <1>5, <1>6 DEF ServerTables

\* A connection whose responses and interest change together keeps the tables.
LEMMA UpdateKeepsTables ==
    ASSUME LoopTypes, ServerTables, NEW fd \in Fds, connections[fd] # 0, NEW responses,
           write_buffer' = [write_buffer EXCEPT ![fd] = responses],
           UpdateInterest(fd, responses), UNCHANGED <<connections, peer, backlog, link>>
    PROVE  ServerTables'
<1>t. write_buffer \in [Fds -> Seq(Frames)] /\ interest \in [Fds -> {"none", "in", "inout"}]
  BY DEF LoopTypes, TableTypeOK
<1>1. /\ write_buffer'[fd] = responses
      /\ interest'[fd] = IF responses # <<>> THEN "inout" ELSE "in"
      /\ \A other \in Fds \ {fd} :
           write_buffer'[other] = write_buffer[other] /\ interest'[other] = interest[other]
  BY <1>t DEF UpdateInterest
<1>2. BacklogWaits' /\ BuffersMatch'
  BY <1>1 DEF ServerTables, BacklogWaits, BuffersMatch
<1>3. PeersOpen'
  BY <1>1 DEF ServerTables, PeersOpen
<1> QED
  BY <1>2, <1>3 DEF ServerTables

\* Every step keeps the tables together.
LEMMA TablesStay ==
    ASSUME LoopTypes, ServerTables, [EventLoopNext]_vars
    PROVE  ServerTables'
<1>t. /\ connections \in [Fds -> 0..MaxConnectionId] /\ write_buffer \in [Fds -> Seq(Frames)]
      /\ peer \in [Fds -> Clients \cup {NoClient}] /\ interest \in [Fds -> {"none", "in", "inout"}]
      /\ backlog \in Seq(Clients) /\ link \in [Clients -> {"new", "pending", "open", "closed"}]
      /\ next_connection_id \in Nat
  BY DispatcherAssumption DEF LoopTypes, TableTypeOK, ClientTypeOK
<1>u. ASSUME UNCHANGED <<connections, peer, write_buffer, interest, backlog, link>>
      PROVE  ServerTables'
  BY <1>u DEF ServerTables, BacklogWaits, PeersOpen, BuffersMatch
<1>1. ASSUME NEW fd \in Fds, Accept(fd) PROVE ServerTables'
  <2> DEFINE client == Head(backlog)
  <2>0. /\ backlog # <<>> /\ backlog' = Tail(backlog) /\ peer[fd] = NoClient
        /\ link' = [link EXCEPT ![client] = "open"] /\ UNCHANGED write_buffer
    BY <1>1 DEF Accept, Accepts, FreeFds
  <2>1. client \in Clients /\ link[client] = "pending"
    BY <2>0, AcceptedClient DEF ServerTables
  <2>2. BacklogWaits'
    BY <2>0, TailWaits DEF ServerTables
  <2> HIDE DEF client
  <2>3. connections[fd] = 0 /\ write_buffer[fd] = <<>>
    BY <2>0 DEF LoopTypes, TablesMatch, ServerTables, BuffersMatch
  <2>4. /\ connections'[fd] = next_connection_id /\ peer'[fd] = client /\ interest'[fd] = "in"
        /\ next_connection_id # 0
        /\ \A other \in Fds \ {fd} :
             /\ connections'[other] = connections[other] /\ peer'[other] = peer[other]
             /\ interest'[other] = interest[other] /\ connections[other] # next_connection_id
    BY <1>1, <1>t DEF Accept, LoopTypes, TablesMatch, TableTypeOK, client
  <2>5. \A other \in Fds : connections[other] # 0 => peer[other] \in Clients /\ peer[other] # client
    BY <1>t, <2>1 DEF LoopTypes, TablesMatch, ServerTables, PeersOpen
  <2>6. \A c \in Clients \ {client} : link'[c] = link[c]
    BY <1>t, <2>0, <2>1
  <2>7. link'[client] = "open"
    BY <1>t, <2>0, <2>1
  <2>8. PeersOpen'
    <3>1. \A other \in Fds : (connections'[other] # 0) = (interest'[other] # "none")
      BY <2>4 DEF ServerTables, PeersOpen
    <3>2. \A other \in Fds : connections'[other] # 0 => link'[peer'[other]] = "open"
      BY <2>4, <2>5, <2>6, <2>7 DEF ServerTables, PeersOpen
    <3>3. \A other \in Fds \ {fd} : peer[other] # client
      BY <1>t, <2>1, <2>5, EventLoopAssumption DEF LoopTypes, TablesMatch
    <3>4. \A this, other \in Fds : connections'[this] # 0 /\ this # other =>
             peer'[this] # peer'[other] /\ connections'[this] # connections'[other]
      BY <2>4, <3>3 DEF ServerTables, PeersOpen
    <3> QED
      BY <3>1, <3>2, <3>4 DEF PeersOpen
  <2>9. BuffersMatch'
    BY <2>0, <2>3, <2>4 DEF ServerTables, BuffersMatch
  <2> QED
    BY <2>2, <2>8, <2>9 DEF ServerTables
<1>2. ASSUME NEW fd \in Fds, AcceptAddFails(fd) PROVE ServerTables'
  <2>0. /\ backlog # <<>> /\ backlog' = Tail(backlog)
        /\ link' = [link EXCEPT ![Head(backlog)] = "closed"]
        /\ UNCHANGED <<connections, peer, write_buffer, interest>>
    BY <1>2 DEF AcceptAddFails, Accepts
  <2>1. Head(backlog) \in Clients /\ link[Head(backlog)] = "pending"
    BY <2>0, AcceptedClient DEF ServerTables
  <2>2. BacklogWaits'
    BY <2>0, TailWaits DEF ServerTables
  <2>3. \A other \in Fds : connections[other] # 0 => link'[peer[other]] = "open"
    <3>1. \A other \in Fds : connections[other] # 0 => peer[other] \in Clients
      BY <1>t DEF LoopTypes, TablesMatch
    <3> QED
      BY <1>t, <2>0, <2>1, <3>1 DEF ServerTables, PeersOpen
  <2> QED
    BY <2>0, <2>2, <2>3 DEF ServerTables, PeersOpen, BuffersMatch
<1>3. CASE ApplyQueues
  <2>1. Head(results).fd \in Fds /\ connections[Head(results).fd] # 0
    BY <1>3, HeadOfResults DEF ApplyQueues, Applying, LoopTypes
  <2>2. write_buffer'[Head(results).fd]
          = Append(write_buffer[Head(results).fd], Head(results).frame)
    BY <1>t, <1>3, <2>1 DEF ApplyQueues
  <2> QED
    BY <1>3, <2>1, <2>2, UpdateKeepsTables DEF ApplyQueues, clientVars
<1>4. CASE ApplyFails
  <2>1. Head(results).fd \in Fds /\ connections[Head(results).fd] # 0
    BY <1>4, HeadOfResults DEF ApplyFails, Applying, LoopTypes
  <2> QED
    BY <1>4, <2>1, CloseKeepsTables DEF ApplyFails
<1>5. ASSUME NEW event \in batch, HandleError(event) PROVE ServerTables'
  BY <1>5, CloseKeepsTables DEF HandleError, ClientEvent
<1>6. CASE SubmitRejected \/ CloseAfterRead \/ FlushFails \/ UpdateFails
  <2>1. CloseConnection(ready_fd) /\ UNCHANGED backlog /\ loop = "handling"
    BY <1>6 DEF SubmitRejected, CloseAfterRead, FlushFails, UpdateFails, Flushes, HandlerCloses
  <2> QED
    BY <2>1, HandlerHasConnection, CloseKeepsTables
<1>7. CASE FlushWrites
  <2>1. ready_fd \in Fds /\ connections[ready_fd] # 0
    BY <1>7, HandlerHasConnection DEF FlushWrites, Flushes
  <2> DEFINE rest == SubSeq(write_buffer[ready_fd], Flushable(ready_fd) + 1,
                            Len(write_buffer[ready_fd]))
  <2>2. write_buffer' = [write_buffer EXCEPT ![ready_fd] = rest]
    BY <1>7 DEF FlushWrites
  <2> HIDE DEF rest
  <2>3. write_buffer'[ready_fd] = rest
    BY <1>t, <2>1, <2>2
  <2> QED
    BY <1>7, <2>1, <2>2, <2>3, UpdateKeepsTables DEF FlushWrites
<1>8. CASE DestroyLoop
  BY <1>8 DEF DestroyLoop, ServerTables, BacklogWaits, PeersOpen, BuffersMatch
<1>9. ASSUME NEW c \in Clients, ClientConnects(c) PROVE ServerTables'
  <2>1. /\ link[c] = "new" /\ link' = [link EXCEPT ![c] = "pending"]
        /\ backlog' = Append(backlog, c)
        /\ UNCHANGED <<connections, write_buffer, peer, interest>>
    BY <1>9 DEF ClientConnects, serverVars
  <2>2. BacklogWaits'
    <3>1. \A i \in DOMAIN backlog : backlog[i] \in Clients /\ backlog[i] # c
      BY <1>t, <2>1 DEF ServerTables, BacklogWaits
    <3>2. \A i \in DOMAIN backlog' : \/ backlog'[i] = c /\ i = Len(backlog) + 1
                                     \/ i \in DOMAIN backlog /\ backlog'[i] = backlog[i]
      BY <1>t, <2>1
    <3> QED
      BY <1>t, <2>1, <3>1, <3>2 DEF ServerTables, BacklogWaits
  <2>3. \A fd \in Fds : connections[fd] # 0 => peer[fd] \in Clients
    BY <1>t DEF LoopTypes, TablesMatch
  <2> QED
    BY <1>t, <2>1, <2>2, <2>3 DEF ServerTables, PeersOpen, BuffersMatch
<1>10. CASE UNCHANGED <<serverVars, kernelVars>> /\ UNCHANGED link
  BY <1>10, <1>u DEF serverVars, kernelVars
<1>11. CASE UNCHANGED vars
  BY <1>11, <1>10 DEF vars, clientVars
<1>12. CASE EventLoopNext
  <2>1. CASE UNCHANGED <<serverVars, kernelVars>>
    <3>1. CASE \E c \in Clients : ClientStep(c)
      BY <1>9, <1>10, <2>1, <3>1 DEF ClientStep, ClientSends, ClientSendsOversized, ClientShuts,
         ClientResets, ClientReads
    <3>2. CASE \E event \in batch : HandleReadable(event)
      BY <1>10, <2>1, <3>2 DEF HandleReadable
    <3>3. CASE UNCHANGED clientVars
      BY <1>10, <2>1, <3>3 DEF clientVars
    <3> QED
      BY <1>1, <1>2, <1>4, <1>5, <1>6, <1>7, <1>8, <1>12, <3>1, <3>2, <3>3, ClientChanges
  <2> QED
    BY <1>1, <1>2, <1>3, <1>4, <1>5, <1>6, <1>7, <1>8, <1>9, <1>12, <2>1, TableChanges
<1> QED
  BY <1>11, <1>12

\* The tables agree throughout.
LEMMA TablesHold == EventLoopSpec => []ServerTables
<1>1. EventLoopInit => ServerTables
  BY DEF EventLoopInit, ServerTables, BacklogWaits, PeersOpen, BuffersMatch
<1>2. LoopInv /\ ServerTables /\ [EventLoopNext]_vars => ServerTables'
  BY TablesStay DEF LoopInv
<1> QED
  BY <1>1, <1>2, LoopInvariant, PTL DEF EventLoopSpec

\* connections_, the descriptor table and epoll agree whatever fails: no two connections
\* share a descriptor, an id or a client, and a handler's connection is there while it
\* works on it.
THEOREM DescriptorsAgree == EventLoopSpec => []DescriptorsMatch
<1>1. LoopInv /\ ServerTables => DescriptorsMatch
  BY DEF LoopInv, LoopTypes, TablesMatch, ServerTables, PeersOpen, DescriptorsMatch
<1> QED
  BY <1>1, LoopInvariant, TablesHold, PTL

\* EPOLLOUT is watched exactly while a connection has responses to write, after every
\* queueFrame(), flush, close and reuse of a descriptor.
THEOREM InterestAgrees == EventLoopSpec => []InterestMatches
<1>1. ServerTables => InterestMatches
  BY DEF ServerTables, BuffersMatch, InterestMatches
<1> QED
  BY <1>1, TablesHold, PTL
-----------------------------------------------------------------------------
(* The events of a batch.                                                  *)

\* An event of a client descriptor waits for the connection it was raised for, which is
\* still open; a descriptor has one event in a batch, which is used up while it is
\* handled; nothing is left of a batch when run() has returned.
EventsOpen ==
    /\ \A event \in batch :
         event.fd \in Fds => connections[event.fd] = event.id /\ event.id # 0
    /\ \A event, other \in batch : event.fd = other.fd => event = other
    /\ loop = "handling" => \A event \in batch : event.fd # ready_fd
    /\ loop \in {"returned", "destroyed"} => batch = {}

\* What epoll_wait() reports are events of open connections, one per descriptor.
LEMMA ReportedEvents ==
    ASSUME LoopTypes, ServerTables
    PROVE  /\ \A event \in ReadyEvents :
                event.fd \in Fds => connections[event.fd] = event.id /\ event.id # 0
           /\ \A event, other \in ReadyEvents : event.fd = other.fd => event = other
<1>a. listenerFd \notin Fds /\ notificationFd \notin Fds /\ listenerFd # notificationFd
  BY EventLoopAssumption
<1>1. ASSUME NEW fd \in Fds, Readiness(fd) # "none" PROVE connections[fd] # 0
  BY <1>1 DEF Readiness, ServerTables, PeersOpen
<1>2. \A event \in ReadyEvents :
        \/ event = [fd |-> notificationFd, kind |-> "in", id |-> 0]
        \/ event = [fd |-> listenerFd, kind |-> "in", id |-> 0]
        \/ \E fd \in Fds : /\ Readiness(fd) # "none"
                           /\ event = [fd |-> fd, kind |-> Readiness(fd), id |-> connections[fd]]
  BY DEF ReadyEvents
<1>3. \A event \in ReadyEvents :
        event.fd \in Fds =>
            /\ event = [fd |-> event.fd, kind |-> Readiness(event.fd),
                        id |-> connections[event.fd]]
            /\ Readiness(event.fd) # "none"
  BY <1>2, <1>a
<1>4. \A event \in ReadyEvents :
        event.fd \in Fds => connections[event.fd] = event.id /\ event.id # 0
  BY <1>3, <1>1
<1>5. ASSUME NEW event \in ReadyEvents, NEW other \in ReadyEvents, event.fd = other.fd
      PROVE  event = other
  <2>1. CASE event.fd \in Fds
    BY <1>3, <1>5, <2>1
  <2>2. CASE event.fd \notin Fds
    <3>1. \/ event = [fd |-> notificationFd, kind |-> "in", id |-> 0]
          \/ event = [fd |-> listenerFd, kind |-> "in", id |-> 0]
      BY <1>2, <2>2
    <3>2. \/ other = [fd |-> notificationFd, kind |-> "in", id |-> 0]
          \/ other = [fd |-> listenerFd, kind |-> "in", id |-> 0]
      BY <1>2, <1>5, <2>2
    <3> QED
      BY <1>5, <1>a, <3>1, <3>2
  <2> QED
    BY <2>1, <2>2
<1> QED
  BY <1>4, <1>5

\* Within a batch a connection is closed by its own event only, and a descriptor that
\* is accepted has no event in the batch: so no event outlives its connection.
LEMMA EventsStay ==
    ASSUME LoopTypes, ServerTables, EventsOpen, "modify" \notin Faults, [EventLoopNext]_vars
    PROVE  EventsOpen'
<1>t. connections \in [Fds -> 0..MaxConnectionId] /\ next_connection_id \in Nat \ {0}
  BY DispatcherAssumption DEF LoopTypes, TableTypeOK
<1>h. loop = "handling" => ready_fd \in Fds
  BY DEF LoopTypes, TablesMatch
<1>e. ASSUME batch' = {} PROVE EventsOpen'
  BY <1>e DEF EventsOpen
<1>u. ASSUME UNCHANGED <<batch, connections>>, loop' \in {"running", "accepting"}
      PROVE  EventsOpen'
  BY <1>u DEF EventsOpen
<1>v. ASSUME UNCHANGED <<batch, connections, loop, ready_fd>> PROVE EventsOpen'
  BY <1>v DEF EventsOpen
<1>r. ASSUME NEW event \in batch, batch' = batch \ {event}, UNCHANGED connections,
             loop' \in {"running", "accepting"} \/ (loop' = "handling" /\ ready_fd' = event.fd)
      PROVE  EventsOpen'
  BY <1>r DEF EventsOpen
<1>c. ASSUME loop = "handling", CloseConnection(ready_fd), HandlerReturns, UNCHANGED batch
      PROVE  EventsOpen'
  <2>1. \A event \in batch : event.fd \in Fds => connections'[event.fd] = connections[event.fd]
    BY <1>c, <1>t, <1>h DEF CloseConnection, EventsOpen
  <2> QED
    BY <1>c, <2>1 DEF EventsOpen, HandlerReturns
<1>1. CASE Wait
  <2>1. batch' \subseteq ReadyEvents /\ loop' = "running" /\ UNCHANGED connections
    BY <1>1 DEF Wait, Dispatching, serverVars
  <2> QED
    BY <2>1, ReportedEvents DEF EventsOpen
<1>2. CASE RunFails \/ AcceptFails
  BY <1>2, <1>e DEF RunFails, AcceptFails
<1>3. CASE HandleNotification
  BY <1>3, <1>r DEF HandleNotification, Dispatching, serverVars
<1>4. CASE HandleListener
  BY <1>4, <1>r DEF HandleListener, Dispatching, serverVars
<1>5. CASE TakeResults \/ ApplyStale \/ ApplyQueues
  BY <1>5, <1>u DEF TakeResults, ApplyStale, ApplyQueues, Applying, serverVars
<1>6. CASE ApplyFails
  BY <1>6 DEF ApplyFails
<1>7. CASE AcceptDrained
  BY <1>7, <1>u DEF AcceptDrained, serverVars
<1>8. ASSUME NEW fd \in Fds, Accept(fd) PROVE EventsOpen'
  <2>1. connections[fd] = 0
    BY <1>8 DEF Accept, Accepts, FreeFds, LoopTypes, TablesMatch
  <2>2. \A event \in batch : event.fd \in Fds => connections'[event.fd] = connections[event.fd]
    BY <1>8, <1>t, <2>1 DEF Accept, EventsOpen
  <2> QED
    BY <1>8, <2>2 DEF EventsOpen, Accept, loopVars
<1>9. ASSUME NEW fd \in Fds, AcceptAddFails(fd) PROVE EventsOpen'
  BY <1>9, <1>v DEF AcceptAddFails, loopVars
<1>10. ASSUME NEW event \in batch, HandleGone(event) PROVE EventsOpen'
  BY <1>10, <1>r DEF HandleGone, ClientEvent, Dispatching, serverVars
<1>11. ASSUME NEW event \in batch, HandleError(event) PROVE EventsOpen'
  <2>1. /\ event.fd \in Fds /\ batch' = batch \ {event} /\ loop' = "running"
        /\ connections' = [connections EXCEPT ![event.fd] = 0]
    BY <1>11 DEF HandleError, ClientEvent, Dispatching, CloseConnection
  <2>2. \A other \in batch' : other.fd \in Fds => connections'[other.fd] = connections[other.fd]
    BY <1>t, <2>1 DEF EventsOpen
  <2> QED
    BY <2>1, <2>2 DEF EventsOpen
<1>12. ASSUME NEW event \in batch, HandleReadable(event) \/ HandleWritable(event)
       PROVE  EventsOpen'
  BY <1>12, <1>r DEF HandleReadable, HandleWritable, ClientEvent, serverVars
<1>13. CASE SubmitFrame
  BY <1>13, <1>v DEF SubmitFrame, serverVars
<1>14. CASE SubmitRejected \/ CloseAfterRead \/ FlushFails \/ UpdateFails
  BY <1>14, <1>c DEF SubmitRejected, CloseAfterRead, FlushFails, UpdateFails, Flushes,
                     HandlerCloses
<1>15. CASE FlushWrites
  BY <1>15, <1>u DEF FlushWrites, HandlerReturns
<1>16. CASE StopDispatcher \/ \E w \in Workers : PoolStep(w)
  BY <1>16, <1>v DEF StopDispatcher, PoolStep, loopVars, serverVars
<1>17. CASE DestroyLoop
  BY <1>17, <1>e DEF DestroyLoop, EventsOpen
<1>18. CASE \E c \in Clients : ClientStep(c)
  BY <1>18, <1>v DEF ClientStep, ClientConnects, ClientSends, ClientSendsOversized,
                     ClientShuts, ClientResets, ClientReads, loopVars, serverVars
<1>19. CASE UNCHANGED vars
  BY <1>19, <1>v DEF vars, loopVars, serverVars
<1> QED
  BY <1>1, <1>2, <1>3, <1>4, <1>5, <1>6, <1>7, <1>8, <1>9, <1>10, <1>11, <1>12, <1>13, <1>14,
     <1>15, <1>16, <1>17, <1>18, <1>19 DEF EventLoopNext, LoopStep

\* An event is never handed to a later connection on its descriptor, although epoll
\* events carry the descriptor only, as long as updateInterest() does not fail (the
\* one fault under which handleProcessingResults() closes a connection whose event is
\* still in the batch).
THEOREM EventsReachTheirConnections ==
    ASSUME "modify" \notin Faults
    PROVE  EventLoopSpec => []EventsAreFresh
<1>1. EventLoopInit => EventsOpen
  BY DEF EventLoopInit, EventsOpen
<1>2. LoopInv /\ ServerTables /\ EventsOpen /\ [EventLoopNext]_vars => EventsOpen'
  BY EventsStay DEF LoopInv
<1>3. EventsOpen => EventsAreFresh
  BY DEF EventsOpen, EventsAreFresh
<1> QED
  BY <1>1, <1>2, <1>3, LoopInvariant, TablesHold, PTL DEF EventLoopSpec
=============================================================================
