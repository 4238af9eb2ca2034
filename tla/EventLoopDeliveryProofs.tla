---------------------- MODULE EventLoopDeliveryProofs -----------------------
(***************************************************************************)
(* What becomes of a frame, for any number of clients, descriptors and     *)
(* workers.  No response is delivered to a client that did not ask for it: *)
(* a task carries the id of the connection its frame was read from, ids    *)
(* are never given out twice, so a result whose id still stands under its  *)
(* descriptor belongs to the client now at the other end of it.  A frame   *)
(* is in one place at a time, so it is answered at most once; and each     *)
(* step moves it on or drops it with its connection, so it is never lost.  *)
(* No step but a worker's lets a frame overtake another of its client.     *)
(***************************************************************************)
EXTENDS EventLoopProofs, FiniteSetTheorems

\* The connection the item was made for has existed, and if it still stands under
\* the item's descriptor then the client there sent the item's frame.
Owned(item) ==
    /\ item.id < next_connection_id
    /\ connections[item.fd] = item.id => peer[item.fd] = item.frame[1]

\* The item is between trySubmit() and handleProcessingResults().
InPipeline(item) ==
    \/ InSeq(item, queue) \/ InSeq(item, completed) \/ InSeq(item, results)
    \/ \E w \in Workers : running[w] = item

PipelineOwned == \A item \in ProcessingTasks : InPipeline(item) => Owned(item)

FramesOwned == \A frame \in Frames : InSeq(frame, frames) => frame[1] = peer[ready_fd]

BuffersOwned ==
    \A fd \in Fds, frame \in Frames : InSeq(frame, write_buffer[fd]) => frame[1] = peer[fd]

WiresOwned ==
    \A c \in Clients, frame \in Frames :
        InSeq(frame, wire[c]) \/ InSeq(frame, received[c]) => frame[1] = c

\* The inductive invariant.
DeliveryInv == LoopInv /\ PipelineOwned /\ FramesOwned /\ BuffersOwned /\ WiresOwned
-----------------------------------------------------------------------------
\* Nothing is in the empty sequence.
LEMMA InEmpty == \A x : ~InSeq(x, <<>>)
BY DEF InSeq

\* The elements of the parts of a sequence.
LEMMA InParts ==
    ASSUME NEW S, NEW s \in Seq(S), NEW x
    PROVE  /\ s # <<>> => InSeq(Head(s), s)
           /\ s # <<>> /\ InSeq(x, Tail(s)) => InSeq(x, s)
           /\ \A y \in S : InSeq(x, Append(s, y)) => InSeq(x, s) \/ x = y
<1>1. s # <<>> => InSeq(Head(s), s)
  BY DEF InSeq
<1>2. ASSUME s # <<>>, NEW i \in DOMAIN Tail(s), Tail(s)[i] = x PROVE InSeq(x, s)
  <2>1. i + 1 \in DOMAIN s /\ Tail(s)[i] = s[i + 1]
    BY <1>2
  <2> QED
    BY <1>2, <2>1 DEF InSeq
<1>3. ASSUME NEW y \in S, NEW i \in DOMAIN Append(s, y), Append(s, y)[i] = x, x # y
      PROVE  InSeq(x, s)
  <2>1. i \in DOMAIN s /\ Append(s, y)[i] = s[i]
    BY <1>3
  <2> QED
    BY <1>3, <2>1 DEF InSeq
<1> QED
  BY <1>1, <1>2, <1>3 DEF InSeq

\* The elements of a subsequence.
LEMMA InSubSeq ==
    ASSUME NEW S, NEW s \in Seq(S), NEW m \in 1..(Len(s) + 1), NEW n \in 0..Len(s), NEW x,
           InSeq(x, SubSeq(s, m, n))
    PROVE  InSeq(x, s)
<1>1. PICK i \in DOMAIN SubSeq(s, m, n) : SubSeq(s, m, n)[i] = x
  BY DEF InSeq
<1>2. m + i - 1 \in DOMAIN s /\ SubSeq(s, m, n)[i] = s[m + i - 1]
  OBVIOUS
<1> QED
  BY <1>1, <1>2 DEF InSeq

\* The elements of a concatenation.
LEMMA InConcat ==
    ASSUME NEW S, NEW s \in Seq(S), NEW t \in Seq(S), NEW x, InSeq(x, s \o t)
    PROVE  InSeq(x, s) \/ InSeq(x, t)
<1>1. PICK i \in DOMAIN (s \o t) : (s \o t)[i] = x
  BY DEF InSeq
<1>2. CASE i <= Len(s)
  <2>1. i \in DOMAIN s /\ (s \o t)[i] = s[i]
    BY <1>2
  <2> QED
    BY <1>1, <2>1 DEF InSeq
<1>3. CASE i > Len(s)
  <2>1. i - Len(s) \in DOMAIN t /\ (s \o t)[i] = t[i - Len(s)]
    BY <1>3
  <2> QED
    BY <1>1, <2>1 DEF InSeq
<1>4. i \in Nat /\ Len(s) \in Nat
  OBVIOUS
<1> QED
  BY <1>2, <1>3, <1>4
-----------------------------------------------------------------------------
\* A task or result in the pipeline was there before, or SubmitFrame has just put it
\* there: workers and the I/O thread only pass it on.
LEMMA PipelineSources ==
    ASSUME LoopInv, EventLoopNext, NEW item \in ProcessingTasks, InPipeline(item)'
    PROVE  InPipeline(item) \/ (SubmitFrame /\ item = FrameTask)
<1>t. /\ queue \in Seq(ProcessingTasks) /\ completed \in Seq(ProcessingTasks)
      /\ results \in Seq(ProcessingTasks)
      /\ running \in [Workers -> ProcessingTasks \cup {NoTask}]
  BY DEF LoopInv, DispatcherInv, DispatcherTypeOK, LoopTypes, LoopTypeOK, ProcessingResults
<1>n. NoTask \notin ProcessingTasks
  BY DispatcherAssumption DEF ProcessingTasks
<1>u. ASSUME UNCHANGED <<queue, running, completed>>, InSeq(item, results') => InSeq(item, results)
      PROVE  InPipeline(item)
  BY <1>u DEF InPipeline
<1>e. ASSUME UNCHANGED <<queue, running, completed, results>> PROVE InPipeline(item)
  BY <1>u, <1>e
<1>1. CASE Wait \/ RunFails \/ HandleListener \/ AcceptDrained \/ AcceptFails
  BY <1>1, <1>e DEF Wait, RunFails, HandleListener, AcceptDrained, AcceptFails,
                    dispatcherVars, poolVars
<1>2. CASE \E fd \in Fds : Accept(fd) \/ AcceptAddFails(fd)
  BY <1>2, <1>e DEF Accept, AcceptAddFails, loopVars, dispatcherVars, poolVars
<1>3. CASE \E event \in batch : \/ HandleGone(event) \/ HandleError(event)
                                \/ HandleReadable(event) \/ HandleWritable(event)
  BY <1>3, <1>e DEF HandleGone, HandleError, HandleReadable, HandleWritable,
                    dispatcherVars, poolVars
<1>4. CASE SubmitRejected \/ CloseAfterRead \/ FlushWrites \/ UpdateFails \/ FlushFails
  BY <1>4, <1>e DEF SubmitRejected, CloseAfterRead, FlushWrites, UpdateFails, FlushFails,
                    HandlerCloses, dispatcherVars, poolVars
<1>5. CASE \E c \in Clients : ClientStep(c)
  BY <1>5, <1>e DEF ClientStep, ClientConnects, ClientSends, ClientSendsOversized,
                    ClientShuts, ClientResets, ClientReads, loopVars, dispatcherVars, poolVars
<1>6. CASE HandleNotification \/ StopDispatcher
  BY <1>6, <1>e DEF HandleNotification, ConsumeNotifications, StopDispatcher, StopPool,
                    JoinPool, Pool!Close, Pool!Join, loopVars, poolVars
<1>7. CASE ApplyStale \/ ApplyQueues \/ ApplyFails
  <2>1. results # <<>> /\ results' = Tail(results) /\ UNCHANGED <<queue, running, completed>>
    BY <1>7 DEF ApplyStale, ApplyQueues, ApplyFails, Applying, dispatcherVars, poolVars
  <2> QED
    BY <2>1, <1>u, <1>t, InParts
<1>8. CASE TakeResults
  <2>1. results' = completed /\ completed' = <<>> /\ UNCHANGED <<queue, running>>
    BY <1>8 DEF TakeResults, TakeCompleted, poolVars
  <2> QED
    BY <2>1, InEmpty DEF InPipeline
<1>9. CASE DestroyLoop
  <2>1. results' = <<>> /\ completed' = <<>> /\ UNCHANGED <<queue, running>>
    BY <1>9 DEF DestroyLoop, Destroy, poolVars
  <2> QED
    BY <2>1, InEmpty DEF InPipeline
<1>10. CASE SubmitFrame
  <2>1. queue' = Append(queue, FrameTask) /\ UNCHANGED <<running, completed, results>>
    BY <1>10 DEF SubmitFrame, TrySubmit, Pool!Submit
  <2>2. FrameTask \in ProcessingTasks
    <3>1. ready_fd \in Fds /\ connections[ready_fd] \in 1..MaxConnectionId
      BY <1>10, HandlerHasConnection DEF SubmitFrame, LoopInv
    <3>2. Head(frames) \in Frames
      BY <1>10, SeqParts DEF SubmitFrame, LoopInv, LoopTypes, LoopTypeOK
    <3> QED
      BY <3>1, <3>2 DEF FrameTask, ProcessingTasks
  <2>3. InSeq(item, queue') => InSeq(item, queue) \/ item = FrameTask
    BY <2>1, <2>2, <1>t, InParts
  <2> QED
    BY <1>10, <2>1, <2>3 DEF InPipeline
<1>11. ASSUME NEW w \in Workers, PoolStep(w) PROVE InPipeline(item)
  <2>0. UNCHANGED results
    BY <1>11 DEF PoolStep, loopVars
  <2>1. CASE StartTask(w)
    <3>1. /\ queue # <<>> /\ queue' = Tail(queue) /\ UNCHANGED completed
          /\ running' = [running EXCEPT ![w] = Head(queue)]
      BY <2>1 DEF StartTask, Pool!Start
    <3>2. InSeq(item, queue') => InSeq(item, queue)
      BY <3>1, <1>t, InParts
    <3>3. InSeq(Head(queue), queue)
      BY <3>1, <1>t, InParts
    <3>4. ASSUME NEW v \in Workers, running'[v] = item
          PROVE  running[v] = item \/ item = Head(queue)
      BY <3>1, <3>4, <1>t
    <3> QED
      BY <2>0, <3>1, <3>2, <3>3, <3>4 DEF InPipeline
  <2>2. CASE Publish(w)
    <3>1. /\ completed' = Append(completed, running[w]) /\ UNCHANGED <<queue, running>>
          /\ running[w] # NoTask
      BY <2>2 DEF Publish, poolVars
    <3>2. running[w] \in ProcessingTasks
      BY <3>1, <1>t
    <3>3. InSeq(item, completed') => InSeq(item, completed) \/ item = running[w]
      BY <3>1, <3>2, <1>t, InParts
    <3> QED
      BY <2>0, <3>1, <3>3 DEF InPipeline
  <2>3. CASE TaskThrows(w) \/ Notify(w) \/ NotifyFails(w)
    <3>1. /\ UNCHANGED <<queue, completed>>
          /\ running' = [running EXCEPT ![w] = NoTask]
      BY <2>3 DEF TaskThrows, Notify, NotifyFails, Pool!Finish
    <3>2. ASSUME NEW v \in Workers, running'[v] = item PROVE running[v] = item
      BY <3>1, <3>2, <1>t, <1>n
    <3> QED
      BY <2>0, <3>1, <3>2 DEF InPipeline
  <2> QED
    BY <1>11, <2>1, <2>2, <2>3 DEF PoolStep, WorkerStep
<1> QED
  BY <1>1, <1>2, <1>3, <1>4, <1>5, <1>6, <1>7, <1>8, <1>9, <1>10, <1>11
  DEF EventLoopNext, LoopStep
-----------------------------------------------------------------------------
\* A step leaves connection ids and their clients alone, closes connections, or gives
\* an id out that no item carries.
LEMMA OwnedKept ==
    ASSUME LoopInv, EventLoopNext, NEW item \in ProcessingTasks, Owned(item)
    PROVE  Owned(item)'
<1> USE DEF LoopInv
<1>i. item.fd \in Fds /\ item.id \in 1..MaxConnectionId
  BY DEF ProcessingTasks
<1>t. /\ connections \in [Fds -> 0..MaxConnectionId] /\ next_connection_id \in Nat
      /\ peer \in [Fds -> Clients \cup {NoClient}]
  BY DispatcherAssumption DEF LoopTypes, TableTypeOK
<1>u. ASSUME UNCHANGED <<connections, peer, next_connection_id>> PROVE Owned(item)'
  BY <1>u DEF Owned
<1>c. ASSUME NEW fd \in Fds, CloseConnection(fd), UNCHANGED next_connection_id
      PROVE  Owned(item)'
  BY <1>c, <1>i, <1>t DEF CloseConnection, Owned
<1>1. ASSUME NEW fd \in Fds, Accept(fd) PROVE Owned(item)'
  BY <1>1, <1>i, <1>t DEF Accept, Accepts, Owned
<1>2. ASSUME NEW fd \in Fds, AcceptAddFails(fd) PROVE Owned(item)'
  BY <1>2, <1>i, <1>t DEF AcceptAddFails, Accepts, Owned
<1>3. CASE ApplyQueues \/ FlushWrites
  BY <1>3, <1>u DEF ApplyQueues, FlushWrites
<1>4. CASE ApplyFails
  BY <1>4, <1>c, HeadOfResults DEF ApplyFails, Applying, LoopTypes
<1>5. ASSUME NEW event \in batch, HandleError(event) PROVE Owned(item)'
  BY <1>5, <1>c DEF HandleError, ClientEvent
<1>6. CASE SubmitRejected \/ CloseAfterRead \/ FlushFails \/ UpdateFails
  BY <1>6, <1>c, HandlerHasConnection
  DEF SubmitRejected, CloseAfterRead, FlushFails, UpdateFails, Flushes, HandlerCloses
<1>7. CASE DestroyLoop
  <2>1. connections'[item.fd] = 0 /\ item.id # 0
    BY <1>7, <1>i DEF DestroyLoop
  <2> QED
    BY <1>7, <2>1 DEF DestroyLoop, Owned
<1>8. ASSUME NEW c \in Clients, ClientConnects(c) PROVE Owned(item)'
  BY <1>8, <1>u DEF ClientConnects, serverVars
<1>9. CASE UNCHANGED <<serverVars, kernelVars>>
  BY <1>9, <1>u DEF serverVars, kernelVars
<1> QED
  BY <1>1, <1>2, <1>3, <1>4, <1>5, <1>6, <1>7, <1>8, <1>9, TableChanges

\* So the items of the pipeline stay with their clients; the one SubmitFrame adds is
\* made from the open connection its frame was read from.
LEMMA PipelineKept ==
    ASSUME LoopInv, PipelineOwned, FramesOwned, EventLoopNext
    PROVE  PipelineOwned'
<1> SUFFICES ASSUME NEW item \in ProcessingTasks, InPipeline(item)' PROVE Owned(item)'
  BY DEF PipelineOwned
<1>1. CASE InPipeline(item)
  BY <1>1, OwnedKept DEF PipelineOwned
<1>2. CASE SubmitFrame /\ item = FrameTask
  <2>1. ready_fd \in Fds /\ connections[ready_fd] < next_connection_id
    BY <1>2, HandlerHasConnection DEF SubmitFrame, LoopInv, LoopTypes, TablesMatch
  <2>2. Head(frames) \in Frames /\ InSeq(Head(frames), frames)
    BY <1>2, SeqParts, InParts DEF SubmitFrame, LoopInv, LoopTypes, LoopTypeOK
  <2>3. Head(frames)[1] = peer[ready_fd]
    BY <2>2 DEF FramesOwned
  <2>4. Owned(item)
    BY <1>2, <2>1, <2>3 DEF Owned, FrameTask
  <2> QED
    BY <2>4, OwnedKept
<1> QED
  BY <1>1, <1>2, PipelineSources

\* The frames being submitted are those of the client the handler reads from: its
\* connection is not replaced before the handler returns.
LEMMA FramesKept ==
    ASSUME LoopInv, FramesOwned, EventLoopNext
    PROVE  FramesOwned'
<1>t. frames \in Seq(Frames) /\ (loop # "handling" => frames = <<>>)
  BY DEF LoopInv, LoopTypes, LoopTypeOK, TablesMatch
<1>n. ASSUME frames' = <<>> PROVE FramesOwned'
  BY <1>n, InEmpty DEF FramesOwned
<1>u. ASSUME UNCHANGED <<frames, ready_fd, peer>> PROVE FramesOwned'
  BY <1>u DEF FramesOwned
<1>1. CASE Wait \/ HandleNotification \/ TakeResults \/ ApplyStale \/ ApplyQueues
  BY <1>1, <1>u DEF Wait, HandleNotification, TakeResults, ApplyStale, ApplyQueues, kernelVars
<1>2. CASE RunFails \/ HandleListener \/ AcceptDrained \/ AcceptFails
  BY <1>2, <1>u DEF RunFails, HandleListener, AcceptDrained, AcceptFails, kernelVars
<1>3. CASE ApplyFails \/ DestroyLoop
  BY <1>3, <1>n, <1>t DEF ApplyFails, Applying, DestroyLoop
<1>4. ASSUME NEW fd \in Fds, Accept(fd) \/ AcceptAddFails(fd) PROVE FramesOwned'
  BY <1>4, <1>n, <1>t DEF Accept, AcceptAddFails, Accepts, loopVars
<1>5. ASSUME NEW event \in batch, HandleGone(event) \/ HandleError(event) PROVE FramesOwned'
  BY <1>5, <1>n, <1>t DEF HandleGone, HandleError, ClientEvent, Dispatching
<1>6. ASSUME NEW event \in batch, HandleReadable(event) PROVE FramesOwned'
  <2>1. \A i \in DOMAIN frames' : frames'[i][1] = peer[event.fd]
    BY <1>6, ReadFrames DEF LoopInv
  <2>2. ready_fd' = event.fd /\ UNCHANGED peer
    BY <1>6 DEF HandleReadable, kernelVars
  <2> QED
    BY <2>1, <2>2 DEF FramesOwned, InSeq
<1>7. ASSUME NEW event \in batch, HandleWritable(event) PROVE FramesOwned'
  BY <1>7, <1>n, <1>t DEF HandleWritable, ClientEvent, Dispatching
<1>8. CASE SubmitFrame
  <2>1. frames # <<>> /\ frames' = Tail(frames) /\ UNCHANGED <<ready_fd, peer>>
    BY <1>8 DEF SubmitFrame, kernelVars
  <2> QED
    BY <2>1, <1>t, InParts DEF FramesOwned
<1>9. CASE SubmitRejected \/ CloseAfterRead \/ FlushWrites \/ UpdateFails \/ FlushFails
  BY <1>9, <1>n DEF SubmitRejected, CloseAfterRead, FlushWrites, UpdateFails, FlushFails,
                    HandlerCloses, HandlerReturns
<1>10. CASE StopDispatcher \/ \E w \in Workers : PoolStep(w)
  BY <1>10, <1>u DEF StopDispatcher, PoolStep, loopVars, kernelVars
<1>11. ASSUME NEW c \in Clients, ClientStep(c) PROVE FramesOwned'
  BY <1>11, <1>u DEF ClientStep, ClientConnects, ClientSends, ClientSendsOversized,
                     ClientShuts, ClientResets, ClientReads, loopVars, kernelVars
<1> QED
  BY <1>1, <1>2, <1>3, <1>4, <1>5, <1>6, <1>7, <1>8, <1>9, <1>10, <1>11
  DEF EventLoopNext, LoopStep

\* What flushWrites() sends and what it keeps was in the write buffer.
LEMMA FlushedParts ==
    ASSUME LoopInv, loop = "handling", NEW frame
    PROVE  LET buffer == write_buffer[ready_fd]
               n == Flushable(ready_fd)
           IN /\ SubSeq(buffer, 1, n) \in Seq(Frames)
              /\ InSeq(frame, SubSeq(buffer, 1, n)) => InSeq(frame, buffer)
              /\ InSeq(frame, SubSeq(buffer, n + 1, Len(buffer))) => InSeq(frame, buffer)
<1> DEFINE buffer == write_buffer[ready_fd]
           n == Flushable(ready_fd)
<1>1. ready_fd \in Fds /\ peer[ready_fd] \in Clients
  BY HandlerHasConnection DEF LoopInv
<1>2. buffer \in Seq(Frames) /\ wire[peer[ready_fd]] \in Seq(Frames)
  BY <1>1 DEF LoopInv, LoopTypes, TableTypeOK, ClientTypeOK, WireTypeOK
<1>3. Len(wire[peer[ready_fd]]) <= SendBuffer
  BY <1>1 DEF LoopInv, LoopTypes, ClientTypeOK, WireTypeOK
<1>4. Len(buffer) \in Nat /\ Len(wire[peer[ready_fd]]) \in Nat
  BY <1>2
<1>5. n \in 0..Len(buffer)
  BY <1>3, <1>4, FlushableBounds
<1> HIDE DEF buffer, n
<1>6. /\ 1 \in 1..(Len(buffer) + 1) /\ n + 1 \in 1..(Len(buffer) + 1)
      /\ Len(buffer) \in 0..Len(buffer)
  BY <1>4, <1>5
<1>7. /\ InSeq(frame, SubSeq(buffer, 1, n)) => InSeq(frame, buffer)
      /\ InSeq(frame, SubSeq(buffer, n + 1, Len(buffer))) => InSeq(frame, buffer)
  BY <1>2, <1>5, <1>6, InSubSeq
<1>8. SubSeq(buffer, 1, n) \in Seq(Frames)
  BY <1>2, <1>5, SeqRest
<1> QED
  BY <1>7, <1>8 DEF buffer, n

\* A response is queued only on the connection its frame came from, and a descriptor
\* is given to the next client with an empty buffer.
LEMMA BuffersKept ==
    ASSUME LoopInv, PipelineOwned, BuffersOwned, EventLoopNext
    PROVE  BuffersOwned'
<1>t. write_buffer \in [Fds -> Seq(Frames)] /\ peer \in [Fds -> Clients \cup {NoClient}]
  BY DEF LoopInv, LoopTypes, TableTypeOK
<1>f. \A frame \in Frames : frame[1] \in Clients
  BY EventLoopAssumption
<1>u. ASSUME UNCHANGED <<write_buffer, peer>> PROVE BuffersOwned'
  BY <1>u DEF BuffersOwned
<1>c. ASSUME NEW fd \in Fds, CloseConnection(fd) PROVE BuffersOwned'
  <2>1. \A other \in Fds : \/ write_buffer'[other] = <<>>
                           \/ write_buffer'[other] = write_buffer[other]
                              /\ peer'[other] = peer[other]
    BY <1>c, <1>t DEF CloseConnection
  <2> QED
    BY <2>1, InEmpty DEF BuffersOwned
<1>1. ASSUME NEW fd \in Fds, Accept(fd) PROVE BuffersOwned'
  <2>1. \A frame \in Frames : ~InSeq(frame, write_buffer[fd])
    BY <1>1, <1>f, EventLoopAssumption DEF BuffersOwned, Accept, Accepts, FreeFds
  <2>2. UNCHANGED write_buffer /\ \A other \in Fds \ {fd} : peer'[other] = peer[other]
    BY <1>1, <1>t DEF Accept
  <2> QED
    BY <2>1, <2>2 DEF BuffersOwned
<1>2. ASSUME NEW fd \in Fds, AcceptAddFails(fd) PROVE BuffersOwned'
  BY <1>2, <1>u DEF AcceptAddFails
<1>3. CASE ApplyQueues
  <2> DEFINE result == Head(results)
  <2>1. results # <<>> /\ connections[result.fd] = result.id /\ UNCHANGED peer
    BY <1>3 DEF ApplyQueues, Applying
  <2>2. result \in ProcessingTasks /\ result.fd \in Fds /\ result.frame \in Frames
    BY <2>1, HeadOfResults DEF LoopInv, LoopTypes
  <2>3. InSeq(result, results)
    BY <2>1, InParts DEF LoopInv, LoopTypes, LoopTypeOK
  <2>4. peer[result.fd] = result.frame[1]
    BY <2>1, <2>2, <2>3 DEF PipelineOwned, InPipeline, Owned
  <2>5. write_buffer' = [write_buffer EXCEPT ![result.fd] =
                           Append(write_buffer[result.fd], result.frame)]
    BY <1>3 DEF ApplyQueues
  <2> HIDE DEF result
  <2>6. ASSUME NEW fd \in Fds, NEW frame \in Frames, InSeq(frame, write_buffer'[fd])
        PROVE  InSeq(frame, write_buffer[fd]) \/ (fd = result.fd /\ frame = result.frame)
    <3>1. CASE fd = result.fd
      <4>1. InSeq(frame, Append(write_buffer[fd], result.frame))
        BY <2>2, <2>5, <2>6, <3>1, <1>t
      <4>2. write_buffer[fd] \in Seq(Frames)
        BY <1>t
      <4> QED
        BY <2>2, <3>1, <4>1, <4>2, InParts
    <3>2. CASE fd # result.fd
      BY <2>5, <2>6, <3>2, <1>t
    <3> QED
      BY <3>1, <3>2
  <2> QED
    BY <2>1, <2>4, <2>6 DEF BuffersOwned
<1>4. CASE ApplyFails
  BY <1>4, <1>c, HeadOfResults DEF ApplyFails, Applying, LoopInv, LoopTypes
<1>5. ASSUME NEW event \in batch, HandleError(event) PROVE BuffersOwned'
  BY <1>5, <1>c DEF HandleError, ClientEvent
<1>6. CASE SubmitRejected \/ CloseAfterRead \/ FlushFails \/ UpdateFails
  BY <1>6, <1>c, HandlerHasConnection
  DEF SubmitRejected, CloseAfterRead, FlushFails, UpdateFails, Flushes, HandlerCloses, LoopInv
<1>7. CASE FlushWrites
  <2> DEFINE rest == SubSeq(write_buffer[ready_fd], Flushable(ready_fd) + 1,
                            Len(write_buffer[ready_fd]))
  <2>1. loop = "handling" /\ UNCHANGED peer
    BY <1>7 DEF FlushWrites, Flushes
  <2>2. write_buffer' = [write_buffer EXCEPT ![ready_fd] = rest]
    BY <1>7 DEF FlushWrites
  <2>3. \A frame \in Frames : InSeq(frame, rest) => InSeq(frame, write_buffer[ready_fd])
    BY <2>1, FlushedParts
  <2> HIDE DEF rest
  <2>4. \A fd \in Fds, frame \in Frames :
          InSeq(frame, write_buffer'[fd]) => InSeq(frame, write_buffer[fd])
    BY <2>2, <2>3, <1>t
  <2> QED
    BY <2>1, <2>4 DEF BuffersOwned
<1>8. CASE DestroyLoop
  BY <1>8, InEmpty DEF DestroyLoop, BuffersOwned
<1>9. ASSUME NEW c \in Clients, ClientConnects(c) PROVE BuffersOwned'
  BY <1>9, <1>u DEF ClientConnects, serverVars
<1>10. CASE UNCHANGED <<serverVars, kernelVars>>
  BY <1>10, <1>u DEF serverVars, kernelVars
<1> QED
  BY <1>1, <1>2, <1>3, <1>4, <1>5, <1>6, <1>7, <1>8, <1>9, <1>10, TableChanges

\* A socket carries what was in its connection's write buffer, and a client reads
\* from its own socket.
LEMMA WiresKept ==
    ASSUME LoopInv, BuffersOwned, WiresOwned, EventLoopNext
    PROVE  WiresOwned'
<1>t. /\ wire \in [Clients -> Seq(Frames)] /\ received \in [Clients -> Seq(Frames)]
      /\ write_buffer \in [Fds -> Seq(Frames)]
  BY DEF LoopInv, LoopTypes, ClientTypeOK, WireTypeOK, TableTypeOK
<1>u. ASSUME UNCHANGED <<wire, received>> PROVE WiresOwned'
  BY <1>u DEF WiresOwned
<1>1. ASSUME Flushes, UNCHANGED received PROVE WiresOwned'
  <2> DEFINE c == peer[ready_fd]
             more == SubSeq(write_buffer[ready_fd], 1, Flushable(ready_fd))
  <2>1. loop = "handling" /\ wire' = [wire EXCEPT ![c] = wire[c] \o more]
    BY <1>1 DEF Flushes
  <2>2. ready_fd \in Fds /\ c \in Clients
    BY <2>1, HandlerHasConnection DEF LoopInv
  <2>3. /\ more \in Seq(Frames)
        /\ \A frame \in Frames : InSeq(frame, more) => InSeq(frame, write_buffer[ready_fd])
    BY <2>1, FlushedParts
  <2>4. \A frame \in Frames : InSeq(frame, more) => frame[1] = c
    BY <2>2, <2>3 DEF BuffersOwned
  <2> HIDE DEF c, more
  <2>5. wire[c] \in Seq(Frames) /\ wire'[c] = wire[c] \o more
    BY <2>1, <2>2, <1>t
  <2>6. \A frame \in Frames : InSeq(frame, wire'[c]) => InSeq(frame, wire[c]) \/ InSeq(frame, more)
    BY <2>3, <2>5, InConcat
  <2>7. \A other \in Clients \ {c} : wire'[other] = wire[other]
    BY <2>1, <1>t
  <2> QED
    BY <1>1, <2>2, <2>4, <2>6, <2>7 DEF WiresOwned
<1>2. ASSUME NEW c \in Clients, ClientReads(c) PROVE WiresOwned'
  <2>1. /\ wire[c] \in Seq(Frames) /\ wire[c] # <<>>
        /\ received[c] \in Seq(Frames) /\ Head(wire[c]) \in Frames
    <3>1. wire[c] \in Seq(Frames) /\ wire[c] # <<>> /\ received[c] \in Seq(Frames)
      BY <1>2, <1>t DEF ClientReads
    <3> QED
      BY <3>1, SeqParts
  <2>2. Head(wire[c])[1] = c
    <3>1. InSeq(Head(wire[c]), wire[c])
      BY <2>1, InParts
    <3> QED
      BY <2>1, <3>1 DEF WiresOwned
  <2>3. \A frame \in Frames : InSeq(frame, Tail(wire[c])) => InSeq(frame, wire[c])
    BY <2>1, InParts
  <2>4. \A frame \in Frames : InSeq(frame, Append(received[c], Head(wire[c])))
                                => InSeq(frame, received[c]) \/ frame = Head(wire[c])
    BY <2>1, InParts
  <2>5. /\ wire' = [wire EXCEPT ![c] = Tail(wire[c])]
        /\ received' = [received EXCEPT ![c] = Append(received[c], Head(wire[c]))]
    BY <1>2 DEF ClientReads
  <2>6. \A frame \in Frames : InSeq(frame, wire'[c]) \/ InSeq(frame, received'[c])
                                => frame[1] = c
    BY <2>2, <2>3, <2>4, <2>5, <1>t DEF WiresOwned
  <2>7. \A other \in Clients \ {c} :
          wire'[other] = wire[other] /\ received'[other] = received[other]
    BY <2>5, <1>t
  <2> QED
    BY <2>6, <2>7 DEF WiresOwned
<1>3. CASE UNCHANGED clientVars
  BY <1>3, <1>u DEF clientVars
<1>4. CASE \E fd \in Fds : Accept(fd) \/ AcceptAddFails(fd)
  BY <1>4, <1>u DEF Accept, AcceptAddFails
<1>5. CASE ApplyFails \/ \E event \in batch : HandleError(event) \/ HandleReadable(event)
  BY <1>5, <1>u DEF ApplyFails, HandleError, HandleReadable
<1>6. CASE SubmitRejected \/ CloseAfterRead \/ FlushFails \/ DestroyLoop
  BY <1>6, <1>u DEF SubmitRejected, CloseAfterRead, FlushFails, DestroyLoop
<1>7. CASE FlushWrites \/ UpdateFails
  BY <1>7, <1>1 DEF FlushWrites, UpdateFails
<1>8. ASSUME NEW c \in Clients, ClientStep(c) PROVE WiresOwned'
  BY <1>8, <1>2, <1>u DEF ClientStep, ClientConnects, ClientSends, ClientSendsOversized,
                          ClientShuts, ClientResets
<1> QED
  BY <1>2, <1>3, <1>4, <1>5, <1>6, <1>7, <1>8, ClientChanges
-----------------------------------------------------------------------------
\* The delivery invariant holds throughout.
THEOREM DeliveryInvariant == EventLoopSpec => []DeliveryInv
<1>1. EventLoopInit => PipelineOwned /\ FramesOwned /\ BuffersOwned /\ WiresOwned
  <2> SUFFICES ASSUME EventLoopInit
               PROVE  PipelineOwned /\ FramesOwned /\ BuffersOwned /\ WiresOwned
    OBVIOUS
  <2>1. PipelineOwned
    <3>1. NoTask \notin ProcessingTasks
      BY DispatcherAssumption DEF ProcessingTasks
    <3>2. /\ queue = <<>> /\ completed = <<>> /\ results = <<>>
          /\ \A w \in Workers : running[w] = NoTask
      BY DEF EventLoopInit, DispatcherInit
    <3> QED
      BY <3>1, <3>2, InEmpty DEF PipelineOwned, InPipeline
  <2>2. FramesOwned /\ BuffersOwned /\ WiresOwned
    BY InEmpty DEF EventLoopInit, FramesOwned, BuffersOwned, WiresOwned
  <2> QED
    BY <2>1, <2>2
<1>2. /\ LoopInv /\ PipelineOwned /\ FramesOwned /\ BuffersOwned /\ WiresOwned
      /\ [EventLoopNext]_vars
      => (PipelineOwned /\ FramesOwned /\ BuffersOwned /\ WiresOwned)'
  <2> SUFFICES ASSUME LoopInv, PipelineOwned, FramesOwned, BuffersOwned, WiresOwned,
                      [EventLoopNext]_vars
               PROVE  (PipelineOwned /\ FramesOwned /\ BuffersOwned /\ WiresOwned)'
    OBVIOUS
  <2>1. CASE EventLoopNext
    BY <2>1, PipelineKept, FramesKept, BuffersKept, WiresKept
  <2>2. CASE UNCHANGED vars
    BY <2>2 DEF vars, dispatcherVars, poolVars, loopVars, serverVars, kernelVars, clientVars,
                PipelineOwned, InPipeline, Owned, FramesOwned, BuffersOwned, WiresOwned
  <2> QED
    BY <2>1, <2>2
<1> QED
  BY <1>1, <1>2, LoopInvariant, PTL DEF EventLoopSpec, DeliveryInv

\* No response reaches a client other than the one whose frame it answers, however
\* descriptors are reused while the frame is processed.
THEOREM ResponsesReachTheirClients == EventLoopSpec => []NoMisdelivery
<1>1. DeliveryInv => NoMisdelivery
  BY DEF DeliveryInv, BuffersOwned, WiresOwned, NoMisdelivery
<1> QED
  BY <1>1, DeliveryInvariant, PTL
-----------------------------------------------------------------------------
(* A frame is in one place of the pipeline at most.                        *)

\* The kinds of places, in the order a frame passes them.
AtInbound(frame, p) ==
    \E i \in DOMAIN inbound[frame[1]] :
        inbound[frame[1]][i] = frame[2] /\ p = <<"inbound", i>>

AtFrames(frame, p) == \E i \in DOMAIN frames : frames[i] = frame /\ p = <<"frames", i>>

AtQueue(frame, p) == \E i \in DOMAIN queue : queue[i].frame = frame /\ p = <<"queue", i>>

AtRunning(frame, p) ==
    \E w \in Workers \ unnotified :
        running[w] # NoTask /\ running[w].frame = frame /\ p = <<"running", w>>

AtCompleted(frame, p) ==
    \E i \in DOMAIN completed : completed[i].frame = frame /\ p = <<"completed", i>>

AtResults(frame, p) == \E i \in DOMAIN results : results[i].frame = frame /\ p = <<"results", i>>

AtBuffer(frame, p) ==
    \E fd \in Fds : \E i \in DOMAIN write_buffer[fd] :
        write_buffer[fd][i] = frame /\ p = <<"write_buffer", fd, i>>

AtWire(frame, p) ==
    \E c \in Clients : \E i \in DOMAIN wire[c] : wire[c][i] = frame /\ p = <<"wire", c, i>>

AtReceived(frame, p) ==
    \E c \in Clients : \E i \in DOMAIN received[c] :
        received[c][i] = frame /\ p = <<"received", c, i>>

AtSome(frame, p) ==
    \/ AtInbound(frame, p) \/ AtFrames(frame, p) \/ AtQueue(frame, p)
    \/ AtRunning(frame, p) \/ AtCompleted(frame, p) \/ AtResults(frame, p)
    \/ AtBuffer(frame, p) \/ AtWire(frame, p) \/ AtReceived(frame, p)

\* The places of a frame are of these kinds.
LEMMA PlacesAre == \A frame, p : p \in Places(frame) <=> AtSome(frame, p)
<1> SUFFICES ASSUME NEW frame, NEW p PROVE p \in Places(frame) <=> AtSome(frame, p)
  OBVIOUS
<1> DEFINE own(s, x) == {j \in DOMAIN s : s[j] = x}
           task(s) == {j \in DOMAIN s : s[j].frame = frame}
           busy == {v \in Workers \ unnotified : running[v] # NoTask /\ running[v].frame = frame}
           in1 == {<<"inbound", i>> : i \in own(inbound[frame[1]], frame[2])}
           in2 == {<<"frames", i>> : i \in own(frames, frame)}
           in3 == {<<"queue", i>> : i \in task(queue)}
           in4 == {<<"running", w>> : w \in busy}
           in5 == {<<"completed", i>> : i \in task(completed)}
           in6 == {<<"results", i>> : i \in task(results)}
           buffers(fd) == {<<"write_buffer", fd, i>> : i \in own(write_buffer[fd], frame)}
           wires(c) == {<<"wire", c, i>> : i \in own(wire[c], frame)}
           reads(c) == {<<"received", c, i>> : i \in own(received[c], frame)}
           in7 == UNION {buffers(fd) : fd \in Fds}
           in8 == UNION {wires(c) : c \in Clients}
           in9 == UNION {reads(c) : c \in Clients}
<1>1. Places(frame) = in1 \cup in2 \cup in3 \cup in4 \cup in5 \cup in6 \cup in7 \cup in8 \cup in9
  BY DEF Places
<1>2. /\ p \in in1 <=> AtInbound(frame, p)
      /\ p \in in2 <=> AtFrames(frame, p)
      /\ p \in in3 <=> AtQueue(frame, p)
      /\ p \in in4 <=> AtRunning(frame, p)
  BY DEF AtInbound, AtFrames, AtQueue, AtRunning
<1>3. /\ p \in in5 <=> AtCompleted(frame, p)
      /\ p \in in6 <=> AtResults(frame, p)
  BY DEF AtCompleted, AtResults
<1>4. /\ \A fd \in Fds : p \in buffers(fd) <=>
                           \E i \in DOMAIN write_buffer[fd] : /\ write_buffer[fd][i] = frame
                                                              /\ p = <<"write_buffer", fd, i>>
      /\ \A c \in Clients : p \in wires(c) <=>
                              \E i \in DOMAIN wire[c] : wire[c][i] = frame /\ p = <<"wire", c, i>>
      /\ \A c \in Clients : p \in reads(c) <=>
                              \E i \in DOMAIN received[c] : /\ received[c][i] = frame
                                                            /\ p = <<"received", c, i>>
  OBVIOUS
<1> HIDE DEF buffers, wires, reads
<1>5. /\ p \in in7 <=> \E fd \in Fds : p \in buffers(fd)
      /\ p \in in8 <=> \E c \in Clients : p \in wires(c)
      /\ p \in in9 <=> \E c \in Clients : p \in reads(c)
  BY Zenon
<1>6. /\ p \in in7 <=> AtBuffer(frame, p)
      /\ p \in in8 <=> AtWire(frame, p)
      /\ p \in in9 <=> AtReceived(frame, p)
  BY <1>4, <1>5, Zenon DEF AtBuffer, AtWire, AtReceived
<1> HIDE DEF in1, in2, in3, in4, in5, in6, in7, in8, in9
<1> QED
  BY <1>1, <1>2, <1>3, <1>6, Zenon DEF AtSome

\* And so they are after a step.
LEMMA PlacesAreNext == (\A frame, p : p \in Places(frame) <=> AtSome(frame, p))'
BY PlacesAre, PTL

\* A place names its kind.
LEMMA PlaceKinds ==
    ASSUME NEW frame, NEW p
    PROVE  /\ AtInbound(frame, p) => p[1] = "inbound"
           /\ AtFrames(frame, p) => p[1] = "frames"
           /\ AtQueue(frame, p) => p[1] = "queue"
           /\ AtRunning(frame, p) => p[1] = "running"
           /\ AtCompleted(frame, p) => p[1] = "completed"
           /\ AtResults(frame, p) => p[1] = "results"
           /\ AtBuffer(frame, p) => p[1] = "write_buffer"
           /\ AtWire(frame, p) => p[1] = "wire"
           /\ AtReceived(frame, p) => p[1] = "received"
BY DEF AtInbound, AtFrames, AtQueue, AtRunning, AtCompleted, AtResults, AtBuffer, AtWire,
       AtReceived

\* No two places, and only for a frame its client has sent.
Single(S) == \A p, q \in S : p = q

OnceAt(frame) ==
    /\ Single(Places(frame))
    /\ Places(frame) # {} => frame[2] <= sent[frame[1]]

\* The place p is an old one of another kind than the given one, or is where the place
\* q of that kind has moved.
From(frame, kind, moved, p) ==
    \/ p \in Places(frame) /\ p[1] # kind
    \/ \E q \in Places(frame) : q[1] = kind /\ p = moved[q]

\* When the places of one kind move, each to one place, and those of the other kinds
\* stay, there are no more places than before.
LEMMA OneComesFromOne ==
    ASSUME NEW frame, NEW kind, NEW moved, OnceAt(frame), UNCHANGED sent,
           \A p : AtSome(frame, p)' => From(frame, kind, moved, p)
    PROVE  OnceAt(frame)'
<1> DEFINE S == Places(frame)
           T == Places(frame)'
<1>1. \A p \in T : \/ p \in S /\ p[1] # kind
                   \/ \E q \in S : q[1] = kind /\ p = moved[q]
  BY PlacesAreNext DEF From
<1>2. Single(S) /\ (S # {} => frame[2] <= sent[frame[1]])
  BY DEF OnceAt
<1> HIDE DEF S, T
<1>3. Single(T) /\ (T # {} => S # {})
  BY <1>1, <1>2, Zenon DEF Single
<1> QED
  BY <1>2, <1>3 DEF OnceAt, Single, T

\* Nothing is moved and nothing is added.
LEMMA NoMoreComesFromOne ==
    ASSUME NEW frame, OnceAt(frame), UNCHANGED sent,
           \A p : AtSome(frame, p)' => p \in Places(frame)
    PROVE  OnceAt(frame)'
<1>1. \A p \in Places(frame)' : p \in Places(frame)
  BY PlacesAreNext
<1> QED
  BY <1>1 DEF OnceAt, Single

\* Places in what a step leaves unchanged.
LEMMA PlacesStay ==
    ASSUME NEW frame, NEW p
    PROVE  /\ UNCHANGED inbound => (AtInbound(frame, p)' <=> AtInbound(frame, p))
           /\ UNCHANGED frames => (AtFrames(frame, p)' <=> AtFrames(frame, p))
           /\ UNCHANGED queue => (AtQueue(frame, p)' <=> AtQueue(frame, p))
           /\ UNCHANGED <<running, unnotified>> => (AtRunning(frame, p)' <=> AtRunning(frame, p))
           /\ UNCHANGED completed => (AtCompleted(frame, p)' <=> AtCompleted(frame, p))
           /\ UNCHANGED results => (AtResults(frame, p)' <=> AtResults(frame, p))
           /\ UNCHANGED write_buffer => (AtBuffer(frame, p)' <=> AtBuffer(frame, p))
           /\ UNCHANGED wire => (AtWire(frame, p)' <=> AtWire(frame, p))
           /\ UNCHANGED received => (AtReceived(frame, p)' <=> AtReceived(frame, p))
BY DEF AtInbound, AtFrames, AtQueue, AtRunning, AtCompleted, AtResults, AtBuffer, AtWire,
       AtReceived

\* Indices in the parts of a sequence.
LEMMA PartIndices ==
    ASSUME NEW S, NEW s \in Seq(S)
    PROVE  /\ s # <<>> => 1 \in DOMAIN s /\ Head(s) = s[1]
           /\ s # <<>> => \A i \in DOMAIN Tail(s) : /\ i \in Nat \ {0} /\ i + 1 \in DOMAIN s
                                                    /\ Tail(s)[i] = s[i + 1]
           /\ \A y \in S : \A i \in DOMAIN Append(s, y) :
                \/ i \in DOMAIN s /\ Append(s, y)[i] = s[i]
                \/ i = Len(s) + 1 /\ Append(s, y)[i] = y
           /\ \A t \in Seq(S) : \A i \in DOMAIN (s \o t) :
                \/ i \in DOMAIN s /\ (s \o t)[i] = s[i]
                \/ /\ i - Len(s) \in DOMAIN t /\ (s \o t)[i] = t[i - Len(s)]
                   /\ Len(s) + (i - Len(s)) = i
OBVIOUS

\* readAvailable() takes the frames of one client out of its socket, in order, and
\* drops the malformed header behind them, which is the place of no frame.
LEMMA ReadMovesPlaces ==
    ASSUME LoopInv, NEW event \in batch, HandleReadable(event), NEW frame \in Frames,
           OnceAt(frame)
    PROVE  OnceAt(frame)'
<1> DEFINE c == peer[event.fd]
           data == inbound[c]
<1>1. event.fd \in Fds /\ connections[event.fd] # 0 /\ frames = <<>>
  BY DEF HandleReadable, ClientEvent, Dispatching, LoopInv, LoopTypes, TablesMatch
<1>2. c \in Clients
  BY <1>1 DEF LoopInv, LoopTypes, TablesMatch, TableTypeOK
<1>3. PICK n \in Decoded(data) :
        /\ frames' = [i \in 1..n |-> <<c, data[i]>>]
        /\ inbound' = [inbound EXCEPT ![c] = SubSeq(data, n + 2, Len(data))]
  BY DEF HandleReadable
<1>4. /\ inbound \in [Clients -> Seq(0..MaxFrames)] /\ data \in Seq(0..MaxFrames)
      /\ n \in 0..Len(data)
  BY <1>2 DEF Decoded, LoopInv, LoopTypes, ClientTypeOK
<1>5. /\ frame[1] \in Clients /\ frame = <<frame[1], frame[2]>>
  BY EventLoopAssumption
<1>u. UNCHANGED <<sent, queue, running, unnotified, completed, results, write_buffer, wire,
                  received>>
  BY DEF HandleReadable, dispatcherVars, poolVars, serverVars
<1> DEFINE moved == [q \in Places(frame) |->
                       IF frame[1] # c THEN q
                       ELSE IF q[2] <= n THEN <<"frames", q[2]>>
                       ELSE <<"inbound", q[2] - (n + 1)>>]
<1> HIDE DEF c, data
<1>6. ASSUME NEW p, AtFrames(frame, p)'
      PROVE  \E q \in Places(frame) : q[1] = "inbound" /\ p = moved[q]
  <2>1. PICK i \in 1..n : <<c, data[i]>> = frame /\ p = <<"frames", i>>
    BY <1>3, <1>4, <1>6 DEF AtFrames
  <2>2. c = frame[1] /\ data[i] = frame[2] /\ i \in DOMAIN data /\ i <= n
    BY <1>4, <1>5, <2>1
  <2>3. AtInbound(frame, <<"inbound", i>>)
    BY <2>2 DEF AtInbound, data
  <2>4. <<"inbound", i>> \in Places(frame)
    BY <2>3, PlacesAre DEF AtSome
  <2> QED
    BY <2>1, <2>2, <2>4
<1>7. ASSUME NEW p, AtInbound(frame, p)'
      PROVE  \E q \in Places(frame) : q[1] = "inbound" /\ p = moved[q]
  <2>1. PICK i \in DOMAIN inbound'[frame[1]] :
          inbound'[frame[1]][i] = frame[2] /\ p = <<"inbound", i>>
    BY <1>7 DEF AtInbound
  <2>2. CASE frame[1] # c
    <3>1. inbound'[frame[1]] = inbound[frame[1]]
      BY <1>3, <1>4, <1>5, <2>2
    <3>2. AtInbound(frame, p)
      BY <2>1, <3>1 DEF AtInbound
    <3> QED
      BY <2>2, <3>2, PlacesAre, PlaceKinds DEF AtSome
  <2>3. CASE frame[1] = c
    <3>1. inbound'[c] = SubSeq(data, n + 2, Len(data))
      BY <1>2, <1>3, <1>4
    <3>2. i + n + 1 \in DOMAIN data /\ data[i + n + 1] = inbound'[c][i] /\ i \in Nat \ {0}
      BY <1>4, <2>1, <2>3, <3>1
    <3>3. AtInbound(frame, <<"inbound", i + n + 1>>)
      BY <2>1, <2>3, <3>2 DEF AtInbound, data
    <3>4. <<"inbound", i + n + 1>> \in Places(frame)
      BY <3>3, PlacesAre DEF AtSome
    <3>5. ~(i + n + 1 <= n) /\ (i + n + 1) - (n + 1) = i
      BY <1>4, <3>2
    <3> QED
      BY <2>1, <2>3, <3>4, <3>5
  <2> QED
    BY <2>2, <2>3
<1>8. ASSUME NEW p, \/ AtQueue(frame, p) \/ AtRunning(frame, p) \/ AtCompleted(frame, p)
                    \/ AtResults(frame, p) \/ AtBuffer(frame, p) \/ AtWire(frame, p)
                    \/ AtReceived(frame, p)
      PROVE  p \in Places(frame) /\ p[1] # "inbound"
  BY <1>8, PlacesAre, PlaceKinds DEF AtSome
<1> HIDE DEF moved
<1>9. ASSUME NEW p, AtSome(frame, p)' PROVE From(frame, "inbound", moved, p)
  BY <1>6, <1>7, <1>8, <1>9, <1>u, PlacesStay DEF AtSome, From
<1> QED
  BY <1>9, <1>u, OneComesFromOne

\* trySubmit() moves the first frame of the read to the end of the task queue.
LEMMA SubmitMovesPlaces ==
    ASSUME LoopInv, SubmitFrame, NEW frame \in Frames, OnceAt(frame)
    PROVE  OnceAt(frame)'
<1>t. frames \in Seq(Frames) /\ queue \in Seq(ProcessingTasks)
  BY DEF LoopInv, LoopTypes, LoopTypeOK, DispatcherInv, DispatcherTypeOK
<1>1. /\ frames # <<>> /\ frames' = Tail(frames)
      /\ queue' = Append(queue, FrameTask) /\ FrameTask.frame = Head(frames)
      /\ UNCHANGED <<sent, inbound, running, unnotified, completed, results, write_buffer, wire,
                     received>>
  BY DEF SubmitFrame, TrySubmit, Pool!Submit, FrameTask, serverVars, clientVars
<1>2. FrameTask \in ProcessingTasks
  <2>1. ready_fd \in Fds /\ connections[ready_fd] \in 1..MaxConnectionId
    BY HandlerHasConnection DEF SubmitFrame, LoopInv
  <2>2. Head(frames) \in Frames
    BY <1>1, <1>t, SeqParts
  <2> QED
    BY <2>1, <2>2 DEF FrameTask, ProcessingTasks
<1> DEFINE moved == [q \in Places(frame) |-> IF q[2] = 1 THEN <<"queue", Len(queue) + 1>>
                                             ELSE <<"frames", q[2] - 1>>]
<1>3. ASSUME NEW i \in DOMAIN frames, frames[i] = frame
      PROVE  <<"frames", i>> \in Places(frame)
  BY <1>3, PlacesAre DEF AtSome, AtFrames
<1>4. ASSUME NEW p, AtFrames(frame, p)' PROVE From(frame, "frames", moved, p)
  <2>1. PICK i \in DOMAIN Tail(frames) : Tail(frames)[i] = frame /\ p = <<"frames", i>>
    BY <1>1, <1>4 DEF AtFrames
  <2>2. i + 1 \in DOMAIN frames /\ frames[i + 1] = frame /\ i + 1 # 1 /\ (i + 1) - 1 = i
    BY <1>1, <1>t, <2>1, PartIndices
  <2> QED
    BY <1>3, <2>1, <2>2 DEF From
<1>5. ASSUME NEW p, AtQueue(frame, p)' PROVE From(frame, "frames", moved, p)
  <2>1. PICK i \in DOMAIN queue' : queue'[i].frame = frame /\ p = <<"queue", i>>
    BY <1>5 DEF AtQueue
  <2>2. CASE i \in DOMAIN queue /\ queue'[i] = queue[i]
    BY <2>1, <2>2, PlacesAre DEF AtSome, AtQueue, From
  <2>3. CASE i = Len(queue) + 1 /\ queue'[i] = FrameTask
    <3>1. 1 \in DOMAIN frames /\ frames[1] = frame
      BY <1>1, <1>t, <2>1, <2>3, PartIndices
    <3> QED
      BY <1>3, <2>1, <2>3, <3>1 DEF From
  <2> QED
    BY <1>1, <1>2, <1>t, <2>2, <2>3, PartIndices
<1>6. ASSUME NEW p, \/ AtInbound(frame, p) \/ AtRunning(frame, p) \/ AtCompleted(frame, p)
                    \/ AtResults(frame, p) \/ AtBuffer(frame, p) \/ AtWire(frame, p)
                    \/ AtReceived(frame, p)
      PROVE  From(frame, "frames", moved, p)
  BY <1>6, PlacesAre, PlaceKinds DEF AtSome, From
<1> HIDE DEF moved
<1>7. ASSUME NEW p, AtSome(frame, p)' PROVE From(frame, "frames", moved, p)
  BY <1>1, <1>4, <1>5, <1>6, <1>7, PlacesStay DEF AtSome
<1> QED
  BY <1>1, <1>7, OneComesFromOne

\* A worker takes the first task of the queue.
LEMMA StartMovesPlaces ==
    ASSUME LoopInv, NEW w \in Workers, PoolStep(w), StartTask(w), NEW frame \in Frames,
           OnceAt(frame)
    PROVE  OnceAt(frame)'
<1>t. /\ queue \in Seq(ProcessingTasks)
      /\ running \in [Workers -> ProcessingTasks \cup {NoTask}]
  BY DEF LoopInv, DispatcherInv, DispatcherTypeOK
<1>1. /\ queue # <<>> /\ queue' = Tail(queue)
      /\ running' = [running EXCEPT ![w] = Head(queue)]
      /\ UNCHANGED <<sent, inbound, frames, unnotified, completed, results, write_buffer, wire,
                     received>>
  BY DEF PoolStep, StartTask, Pool!Start, loopVars, serverVars, clientVars
<1> DEFINE moved == [q \in Places(frame) |-> IF q[2] = 1 THEN <<"running", w>>
                                             ELSE <<"queue", q[2] - 1>>]
<1>2. ASSUME NEW i \in DOMAIN queue, queue[i].frame = frame
      PROVE  <<"queue", i>> \in Places(frame)
  BY <1>2, PlacesAre DEF AtSome, AtQueue
<1>3. ASSUME NEW p, AtQueue(frame, p)' PROVE From(frame, "queue", moved, p)
  <2>1. PICK i \in DOMAIN Tail(queue) : Tail(queue)[i].frame = frame /\ p = <<"queue", i>>
    BY <1>1, <1>3 DEF AtQueue
  <2>2. i + 1 \in DOMAIN queue /\ queue[i + 1].frame = frame /\ i + 1 # 1 /\ (i + 1) - 1 = i
    BY <1>1, <1>t, <2>1, PartIndices
  <2> QED
    BY <1>2, <2>1, <2>2 DEF From
<1>4. ASSUME NEW p, AtRunning(frame, p)' PROVE From(frame, "queue", moved, p)
  <2>1. PICK v \in Workers \ unnotified :
          running'[v] # NoTask /\ running'[v].frame = frame /\ p = <<"running", v>>
    BY <1>1, <1>4 DEF AtRunning
  <2>2. CASE v # w
    <3>1. AtRunning(frame, p)
      BY <1>1, <1>t, <2>1, <2>2 DEF AtRunning
    <3> QED
      BY <3>1, PlacesAre, PlaceKinds DEF AtSome, From
  <2>3. CASE v = w
    <3>1. 1 \in DOMAIN queue /\ queue[1].frame = frame
      BY <1>1, <1>t, <2>1, <2>3, PartIndices
    <3> QED
      BY <1>2, <2>1, <2>3, <3>1 DEF From
  <2> QED
    BY <2>2, <2>3
<1>5. ASSUME NEW p, \/ AtInbound(frame, p) \/ AtFrames(frame, p) \/ AtCompleted(frame, p)
                    \/ AtResults(frame, p) \/ AtBuffer(frame, p) \/ AtWire(frame, p)
                    \/ AtReceived(frame, p)
      PROVE  From(frame, "queue", moved, p)
  BY <1>5, PlacesAre, PlaceKinds DEF AtSome, From
<1> HIDE DEF moved
<1>6. ASSUME NEW p, AtSome(frame, p)' PROVE From(frame, "queue", moved, p)
  BY <1>1, <1>3, <1>4, <1>5, <1>6, PlacesStay DEF AtSome
<1> QED
  BY <1>1, <1>6, OneComesFromOne

\* publish() moves a worker's result to the end of completed_; from then on the worker,
\* which has only the eventfd to write, is no place of the frame.
LEMMA PublishMovesPlaces ==
    ASSUME LoopInv, NEW w \in Workers, PoolStep(w), Publish(w), NEW frame \in Frames,
           OnceAt(frame)
    PROVE  OnceAt(frame)'
<1>t. /\ completed \in Seq(ProcessingTasks)
      /\ running \in [Workers -> ProcessingTasks \cup {NoTask}]
  BY DEF LoopInv, DispatcherInv, DispatcherTypeOK, ProcessingResults
<1>1. /\ running[w] # NoTask /\ w \notin unnotified
      /\ completed' = Append(completed, running[w]) /\ unnotified' = unnotified \cup {w}
      /\ UNCHANGED <<sent, inbound, frames, queue, running, results, write_buffer, wire,
                     received>>
  BY DEF PoolStep, Publish, poolVars, loopVars, serverVars, clientVars
<1> DEFINE moved == [q \in Places(frame) |-> IF q[2] = w THEN <<"completed", Len(completed) + 1>>
                                             ELSE q]
<1>2. ASSUME NEW v \in Workers \ unnotified, running[v] # NoTask, running[v].frame = frame
      PROVE  <<"running", v>> \in Places(frame)
  BY <1>2, PlacesAre DEF AtSome, AtRunning
<1>3. ASSUME NEW p, AtRunning(frame, p)' PROVE From(frame, "running", moved, p)
  <2>1. PICK v \in Workers \ unnotified :
          running[v] # NoTask /\ running[v].frame = frame /\ p = <<"running", v>> /\ v # w
    BY <1>1, <1>3 DEF AtRunning
  <2> QED
    BY <1>2, <2>1 DEF From
<1>4. ASSUME NEW p, AtCompleted(frame, p)' PROVE From(frame, "running", moved, p)
  <2>1. PICK i \in DOMAIN completed' : completed'[i].frame = frame /\ p = <<"completed", i>>
    BY <1>4 DEF AtCompleted
  <2>2. CASE i \in DOMAIN completed /\ completed'[i] = completed[i]
    BY <2>1, <2>2, PlacesAre DEF AtSome, AtCompleted, From
  <2>3. CASE i = Len(completed) + 1 /\ completed'[i] = running[w]
    <3>1. <<"running", w>> \in Places(frame)
      BY <1>1, <1>2, <2>1, <2>3
    <3>2. moved[<<"running", w>>] = p
      BY <2>1, <2>3, <3>1
    <3> QED
      BY <3>1, <3>2 DEF From
  <2> QED
    BY <1>1, <1>t, <2>2, <2>3, PartIndices
<1>5. ASSUME NEW p, \/ AtInbound(frame, p) \/ AtFrames(frame, p) \/ AtQueue(frame, p)
                    \/ AtResults(frame, p) \/ AtBuffer(frame, p) \/ AtWire(frame, p)
                    \/ AtReceived(frame, p)
      PROVE  From(frame, "running", moved, p)
  BY <1>5, PlacesAre, PlaceKinds DEF AtSome, From
<1> HIDE DEF moved
<1>6. ASSUME NEW p, AtSome(frame, p)' PROVE From(frame, "running", moved, p)
  BY <1>1, <1>3, <1>4, <1>5, <1>6, PlacesStay DEF AtSome
<1> QED
  BY <1>1, <1>6, OneComesFromOne

\* takeCompleted() swaps all results out at once, also when an empty set of results is taken
\* on a notification that is left over.
LEMMA TakeMovesPlaces ==
    ASSUME TakeResults, NEW frame \in Frames, OnceAt(frame)
    PROVE  OnceAt(frame)'
<1>1. /\ results' = completed /\ completed' = <<>>
      /\ UNCHANGED <<sent, inbound, frames, queue, running, unnotified, write_buffer, wire,
                     received>>
  BY DEF TakeResults, TakeCompleted, poolVars, serverVars, clientVars
<1> DEFINE moved == [q \in Places(frame) |-> <<"results", q[2]>>]
<1>2. ASSUME NEW p, AtResults(frame, p)' PROVE From(frame, "completed", moved, p)
  <2>1. PICK i \in DOMAIN completed : completed[i].frame = frame /\ p = <<"results", i>>
    BY <1>1, <1>2 DEF AtResults
  <2>2. <<"completed", i>> \in Places(frame)
    BY <2>1, PlacesAre DEF AtSome, AtCompleted
  <2> QED
    BY <2>1, <2>2 DEF From
<1>3. ASSUME NEW p PROVE ~AtCompleted(frame, p)'
  BY <1>1 DEF AtCompleted
<1>4. ASSUME NEW p, \/ AtInbound(frame, p) \/ AtFrames(frame, p) \/ AtQueue(frame, p)
                    \/ AtRunning(frame, p) \/ AtBuffer(frame, p) \/ AtWire(frame, p)
                    \/ AtReceived(frame, p)
      PROVE  From(frame, "completed", moved, p)
  BY <1>4, PlacesAre, PlaceKinds DEF AtSome, From
<1> HIDE DEF moved
<1>5. ASSUME NEW p, AtSome(frame, p)' PROVE From(frame, "completed", moved, p)
  BY <1>1, <1>2, <1>3, <1>4, <1>5, PlacesStay DEF AtSome
<1> QED
  BY <1>1, <1>5, OneComesFromOne

\* A result leaves results_ for the write buffer of its connection, or for nowhere.
LEMMA ApplyMovesPlaces ==
    ASSUME LoopInv, ApplyStale \/ ApplyQueues \/ ApplyFails, NEW frame \in Frames,
           OnceAt(frame)
    PROVE  OnceAt(frame)'
<1> DEFINE result == Head(results)
           fd == result.fd
<1>t. /\ results \in Seq(ProcessingTasks) /\ write_buffer \in [Fds -> Seq(Frames)]
  BY DEF LoopInv, LoopTypes, LoopTypeOK, TableTypeOK, ProcessingResults
<1>1. /\ results # <<>> /\ results' = Tail(results)
      /\ UNCHANGED <<sent, inbound, frames, queue, running, unnotified, completed, wire,
                     received>>
  BY DEF ApplyStale, ApplyQueues, ApplyFails, Applying, dispatcherVars, poolVars, clientVars
<1>2. fd \in Fds /\ result.frame \in Frames
  BY <1>1, HeadOfResults DEF LoopInv, LoopTypes
<1>3. \/ UNCHANGED write_buffer
      \/ write_buffer' = [write_buffer EXCEPT ![fd] = Append(write_buffer[fd], result.frame)]
      \/ write_buffer' = [write_buffer EXCEPT ![fd] = <<>>]
  BY DEF ApplyStale, ApplyQueues, ApplyFails, CloseConnection, serverVars
<1>4. 1 \in DOMAIN results /\ result = results[1]
  BY <1>1, <1>t, PartIndices
<1> HIDE DEF result, fd
<1> DEFINE moved == [q \in Places(frame) |->
                       IF q[2] = 1 THEN <<"write_buffer", fd, Len(write_buffer[fd]) + 1>>
                       ELSE <<"results", q[2] - 1>>]
<1>5. ASSUME NEW i \in DOMAIN results, results[i].frame = frame
      PROVE  <<"results", i>> \in Places(frame)
  BY <1>5, PlacesAre DEF AtSome, AtResults
<1>6. ASSUME NEW p, AtResults(frame, p)' PROVE From(frame, "results", moved, p)
  <2>1. PICK i \in DOMAIN Tail(results) : Tail(results)[i].frame = frame /\ p = <<"results", i>>
    BY <1>1, <1>6 DEF AtResults
  <2>2. i + 1 \in DOMAIN results /\ results[i + 1].frame = frame /\ i + 1 # 1 /\ (i + 1) - 1 = i
    BY <1>1, <1>t, <2>1, PartIndices
  <2> QED
    BY <1>5, <2>1, <2>2 DEF From
<1>7. ASSUME NEW p, AtBuffer(frame, p)' PROVE From(frame, "results", moved, p)
  <2>0. PICK g \in Fds : \E i \in DOMAIN write_buffer'[g] :
          write_buffer'[g][i] = frame /\ p = <<"write_buffer", g, i>>
    BY <1>7 DEF AtBuffer
  <2>1. PICK i \in DOMAIN write_buffer'[g] :
          write_buffer'[g][i] = frame /\ p = <<"write_buffer", g, i>>
    BY <2>0
  <2>2. ASSUME i \in DOMAIN write_buffer[g], write_buffer'[g][i] = write_buffer[g][i]
        PROVE  From(frame, "results", moved, p)
    BY <2>1, <2>2, PlacesAre DEF AtSome, AtBuffer, From
  <2>3. CASE UNCHANGED write_buffer \/ g # fd
    BY <1>2, <1>3, <1>t, <2>1, <2>2, <2>3
  <2>4. CASE g = fd /\ write_buffer' = [write_buffer EXCEPT ![fd] = <<>>]
    <3>1. write_buffer'[g] = <<>>
      BY <1>2, <1>t, <2>4
    <3> QED
      BY <2>1, <3>1
  <2>5. CASE /\ g = fd
             /\ write_buffer' = [write_buffer EXCEPT ![fd] = Append(write_buffer[fd], result.frame)]
    <3>1. write_buffer[fd] \in Seq(Frames)
      BY <1>2, <1>t
    <3>2. write_buffer'[g] = Append(write_buffer[fd], result.frame)
      BY <1>2, <1>t, <2>5
    <3>3. \/ i \in DOMAIN write_buffer[g] /\ write_buffer'[g][i] = write_buffer[g][i]
          \/ i = Len(write_buffer[fd]) + 1 /\ write_buffer'[g][i] = result.frame
      BY <1>2, <2>1, <2>5, <3>1, <3>2, PartIndices
    <3>4. CASE i = Len(write_buffer[fd]) + 1 /\ write_buffer'[g][i] = result.frame
      <4>1. <<"results", 1>> \in Places(frame)
        BY <1>4, <1>5, <2>1, <3>4
      <4>2. moved[<<"results", 1>>] = p
        BY <2>1, <2>5, <3>4, <4>1
      <4> QED
        BY <4>1, <4>2 DEF From
    <3> QED
      BY <2>2, <3>3, <3>4
  <2> QED
    BY <1>3, <2>3, <2>4, <2>5
<1>8. ASSUME NEW p, \/ AtInbound(frame, p) \/ AtFrames(frame, p) \/ AtQueue(frame, p)
                    \/ AtRunning(frame, p) \/ AtCompleted(frame, p) \/ AtWire(frame, p)
                    \/ AtReceived(frame, p)
      PROVE  From(frame, "results", moved, p)
  BY <1>8, PlacesAre, PlaceKinds DEF AtSome, From
<1> HIDE DEF moved
<1>9. ASSUME NEW p, AtSome(frame, p)' PROVE From(frame, "results", moved, p)
  BY <1>1, <1>6, <1>7, <1>8, <1>9, PlacesStay DEF AtSome
<1> QED
  BY <1>1, <1>9, OneComesFromOne

\* flushWrites() moves the front of a write buffer to the socket; the rest stays, or is
\* gone with the connection.
LEMMA FlushMovesPlaces ==
    ASSUME LoopInv, FlushWrites \/ UpdateFails, NEW frame \in Frames, OnceAt(frame)
    PROVE  OnceAt(frame)'
<1> DEFINE c == peer[ready_fd]
           n == Flushable(ready_fd)
           buffer == write_buffer[ready_fd]
           front == SubSeq(buffer, 1, n)
           rest == SubSeq(buffer, n + 1, Len(buffer))
<1>t. /\ write_buffer \in [Fds -> Seq(Frames)] /\ wire \in [Clients -> Seq(Frames)]
  BY DEF LoopInv, LoopTypes, TableTypeOK, ClientTypeOK, WireTypeOK
<1>1. /\ Flushes /\ loop = "handling" /\ frames = <<>> /\ frames' = <<>>
      /\ UNCHANGED <<sent, inbound, queue, running, unnotified, completed, results, received>>
  BY
      DEF FlushWrites, UpdateFails, Flushes, HandlerCloses, HandlerReturns, dispatcherVars, poolVars
<1>2. ready_fd \in Fds /\ c \in Clients
  BY <1>1, HandlerHasConnection DEF LoopInv
<1>3. /\ buffer \in Seq(Frames) /\ wire[c] \in Seq(Frames) /\ n \in 0..Len(buffer)
  <2>1. buffer \in Seq(Frames) /\ wire[c] \in Seq(Frames)
    BY <1>2, <1>t
  <2>2. Len(buffer) \in Nat /\ Len(wire[c]) \in Nat
    BY <2>1
  <2>3. Len(wire[c]) <= SendBuffer
    BY <1>2 DEF LoopInv, LoopTypes, ClientTypeOK, WireTypeOK
  <2> QED
    BY <2>1, <2>2, <2>3, FlushableBounds
<1>4. wire' = [wire EXCEPT ![c] = wire[c] \o front]
  BY <1>1 DEF Flushes
<1>5. \/ write_buffer' = [write_buffer EXCEPT ![ready_fd] = rest]
      \/ write_buffer' = [write_buffer EXCEPT ![ready_fd] = <<>>]
  BY DEF FlushWrites, UpdateFails, HandlerCloses, CloseConnection
<1> HIDE DEF c, n, buffer
<1>6. /\ front \in Seq(Frames)
      /\ \A i \in DOMAIN front : i \in DOMAIN buffer /\ front[i] = buffer[i] /\ i <= n
      /\ \A i \in DOMAIN rest : /\ i + n \in DOMAIN buffer /\ rest[i] = buffer[i + n]
                                /\ ~(i + n <= n) /\ (i + n) - n = i
  BY <1>3
<1> HIDE DEF front, rest
<1> DEFINE moved == [q \in Places(frame) |->
                       IF q[2] # ready_fd THEN q
                       ELSE IF q[3] <= n THEN <<"wire", c, Len(wire[c]) + q[3]>>
                       ELSE <<"write_buffer", ready_fd, q[3] - n>>]
<1>7. ASSUME NEW g \in Fds, NEW i \in DOMAIN write_buffer[g], write_buffer[g][i] = frame
      PROVE  <<"write_buffer", g, i>> \in Places(frame)
  BY <1>7, PlacesAre DEF AtSome, AtBuffer
<1>8. ASSUME NEW p, AtBuffer(frame, p)' PROVE From(frame, "write_buffer", moved, p)
  <2>0. PICK g \in Fds : \E i \in DOMAIN write_buffer'[g] :
          write_buffer'[g][i] = frame /\ p = <<"write_buffer", g, i>>
    BY <1>8 DEF AtBuffer
  <2>1. PICK i \in DOMAIN write_buffer'[g] :
          write_buffer'[g][i] = frame /\ p = <<"write_buffer", g, i>>
    BY <2>0
  <2>2. CASE g # ready_fd
    <3>1. i \in DOMAIN write_buffer[g] /\ write_buffer[g][i] = frame
      BY <1>5, <1>t, <2>1, <2>2
    <3>2. moved[p] = p /\ p \in Places(frame) /\ p[1] = "write_buffer"
      BY <1>7, <2>1, <2>2, <3>1
    <3> QED
      BY <3>2 DEF From
  <2>3. CASE g = ready_fd
    <3>1. write_buffer'[g] = rest \/ write_buffer'[g] = <<>>
      BY <1>2, <1>5, <1>t, <2>3
    <3>2. i \in DOMAIN rest /\ rest[i] = frame
      BY <2>1, <3>1
    <3>3. <<"write_buffer", ready_fd, i + n>> \in Places(frame)
      BY <1>2, <1>6, <1>7, <3>2 DEF buffer
    <3>4. moved[<<"write_buffer", ready_fd, i + n>>] = p
      BY <1>6, <2>1, <2>3, <3>2, <3>3
    <3> QED
      BY <3>3, <3>4 DEF From
  <2> QED
    BY <2>2, <2>3
<1>9. ASSUME NEW p, AtWire(frame, p)' PROVE From(frame, "write_buffer", moved, p)
  <2>0. PICK d \in Clients : \E i \in DOMAIN wire'[d] :
          wire'[d][i] = frame /\ p = <<"wire", d, i>>
    BY <1>9 DEF AtWire
  <2>1. PICK i \in DOMAIN wire'[d] : wire'[d][i] = frame /\ p = <<"wire", d, i>>
    BY <2>0
  <2>2. ASSUME i \in DOMAIN wire[d], wire'[d][i] = wire[d][i]
        PROVE  From(frame, "write_buffer", moved, p)
    BY <2>1, <2>2, PlacesAre DEF AtSome, AtWire, From
  <2>3. CASE d # c
    BY <1>4, <1>t, <2>1, <2>2, <2>3
  <2>4. CASE d = c
    <3>1. wire'[d] = wire[c] \o front
      BY <1>2, <1>4, <1>t, <2>4
    <3>2. \/ i \in DOMAIN wire[d] /\ wire'[d][i] = wire[d][i]
          \/ /\ i - Len(wire[c]) \in DOMAIN front /\ wire'[d][i] = front[i - Len(wire[c])]
             /\ Len(wire[c]) + (i - Len(wire[c])) = i
      BY <1>3, <1>6, <2>1, <2>4, <3>1, PartIndices
    <3>3. ASSUME NEW j \in DOMAIN front, front[j] = frame, i = Len(wire[c]) + j
          PROVE  From(frame, "write_buffer", moved, p)
      <4>1. <<"write_buffer", ready_fd, j>> \in Places(frame)
        BY <1>2, <1>6, <1>7, <3>3 DEF buffer
      <4>2. moved[<<"write_buffer", ready_fd, j>>] = p
        BY <1>6, <2>1, <2>4, <3>3, <4>1
      <4> QED
        BY <4>1, <4>2 DEF From
    <3> QED
      BY <2>1, <2>2, <3>2, <3>3
  <2> QED
    BY <2>3, <2>4
<1>10. ASSUME NEW p PROVE ~AtFrames(frame, p)'
  BY <1>1 DEF AtFrames
<1>11. ASSUME NEW p, \/ AtInbound(frame, p) \/ AtQueue(frame, p) \/ AtRunning(frame, p)
                     \/ AtCompleted(frame, p) \/ AtResults(frame, p) \/ AtReceived(frame, p)
       PROVE  From(frame, "write_buffer", moved, p)
  BY <1>11, PlacesAre, PlaceKinds DEF AtSome, From
<1> HIDE DEF moved
<1>12. ASSUME NEW p, AtSome(frame, p)' PROVE From(frame, "write_buffer", moved, p)
  BY <1>1, <1>8, <1>9, <1>10, <1>11, <1>12, PlacesStay DEF AtSome
<1> QED
  BY <1>1, <1>12, OneComesFromOne

\* The client takes the first response out of its socket.
LEMMA ClientReadMovesPlaces ==
    ASSUME LoopInv, NEW c \in Clients, ClientReads(c), NEW frame \in Frames, OnceAt(frame)
    PROVE  OnceAt(frame)'
<1>t. /\ wire \in [Clients -> Seq(Frames)] /\ received \in [Clients -> Seq(Frames)]
      /\ wire[c] \in Seq(Frames) /\ received[c] \in Seq(Frames)
  BY DEF LoopInv, LoopTypes, ClientTypeOK, WireTypeOK
<1>1. /\ wire[c] # <<>> /\ wire' = [wire EXCEPT ![c] = Tail(wire[c])]
      /\ received' = [received EXCEPT ![c] = Append(received[c], Head(wire[c]))]
      /\ UNCHANGED <<sent, inbound, frames, queue, running, unnotified, completed, results,
                     write_buffer>>
  BY DEF ClientReads, dispatcherVars, poolVars, loopVars, serverVars
<1>2. /\ Head(wire[c]) \in Frames /\ 1 \in DOMAIN wire[c] /\ Head(wire[c]) = wire[c][1]
  BY <1>1, <1>t, PartIndices, SeqParts
<1> DEFINE moved == [q \in Places(frame) |->
                       IF q[2] # c THEN q
                       ELSE IF q[3] = 1 THEN <<"received", c, Len(received[c]) + 1>>
                       ELSE <<"wire", c, q[3] - 1>>]
<1>3. ASSUME NEW d \in Clients, NEW i \in DOMAIN wire[d], wire[d][i] = frame
      PROVE  <<"wire", d, i>> \in Places(frame)
  BY <1>3, PlacesAre DEF AtSome, AtWire
<1>4. ASSUME NEW p, AtWire(frame, p)' PROVE From(frame, "wire", moved, p)
  <2>0. PICK d \in Clients : \E i \in DOMAIN wire'[d] :
          wire'[d][i] = frame /\ p = <<"wire", d, i>>
    BY <1>4 DEF AtWire
  <2>1. PICK i \in DOMAIN wire'[d] : wire'[d][i] = frame /\ p = <<"wire", d, i>>
    BY <2>0
  <2>2. CASE d # c
    <3>1. i \in DOMAIN wire[d] /\ wire[d][i] = frame
      BY <1>1, <1>t, <2>1, <2>2
    <3>2. moved[p] = p /\ p \in Places(frame) /\ p[1] = "wire"
      BY <1>3, <2>1, <2>2, <3>1
    <3> QED
      BY <3>2 DEF From
  <2>3. CASE d = c
    <3>1. wire'[c] = Tail(wire[c])
      BY <1>1, <1>t
    <3>2. /\ i + 1 \in DOMAIN wire[c] /\ wire[c][i + 1] = frame
          /\ i + 1 # 1 /\ (i + 1) - 1 = i
      BY <1>1, <1>t, <2>1, <2>3, <3>1, PartIndices
    <3>3. <<"wire", c, i + 1>> \in Places(frame)
      BY <1>3, <3>2
    <3>4. moved[<<"wire", c, i + 1>>] = p
      BY <2>1, <2>3, <3>2, <3>3
    <3> QED
      BY <3>3, <3>4 DEF From
  <2> QED
    BY <2>2, <2>3
<1>5. ASSUME NEW p, AtReceived(frame, p)' PROVE From(frame, "wire", moved, p)
  <2>0. PICK d \in Clients : \E i \in DOMAIN received'[d] :
          received'[d][i] = frame /\ p = <<"received", d, i>>
    BY <1>5 DEF AtReceived
  <2>1. PICK i \in DOMAIN received'[d] : received'[d][i] = frame /\ p = <<"received", d, i>>
    BY <2>0
  <2>2. ASSUME i \in DOMAIN received[d], received'[d][i] = received[d][i]
        PROVE  From(frame, "wire", moved, p)
    BY <2>1, <2>2, PlacesAre DEF AtSome, AtReceived, From
  <2>3. CASE d # c
    BY <1>1, <1>t, <2>1, <2>2, <2>3
  <2>4. CASE d = c
    <3>1. received'[d] = Append(received[c], Head(wire[c]))
      BY <1>1, <1>t, <2>4
    <3>2. \/ i \in DOMAIN received[d] /\ received'[d][i] = received[d][i]
          \/ i = Len(received[c]) + 1 /\ received'[d][i] = Head(wire[c])
      BY <1>2, <1>t, <2>1, <2>4, <3>1, PartIndices
    <3>3. CASE i = Len(received[c]) + 1 /\ received'[d][i] = Head(wire[c])
      <4>1. <<"wire", c, 1>> \in Places(frame)
        BY <1>2, <1>3, <2>1, <3>3
      <4>2. moved[<<"wire", c, 1>>] = p
        BY <2>1, <2>4, <3>3, <4>1
      <4> QED
        BY <4>1, <4>2 DEF From
    <3> QED
      BY <2>2, <3>2, <3>3
  <2> QED
    BY <2>3, <2>4
<1>6. ASSUME NEW p, \/ AtInbound(frame, p) \/ AtFrames(frame, p) \/ AtQueue(frame, p)
                    \/ AtRunning(frame, p) \/ AtCompleted(frame, p) \/ AtResults(frame, p)
                    \/ AtBuffer(frame, p)
      PROVE  From(frame, "wire", moved, p)
  BY <1>6, PlacesAre, PlaceKinds DEF AtSome, From
<1> HIDE DEF moved
<1>7. ASSUME NEW p, AtSome(frame, p)' PROVE From(frame, "wire", moved, p)
  BY <1>1, <1>4, <1>5, <1>6, <1>7, PlacesStay DEF AtSome
<1> QED
  BY <1>1, <1>7, OneComesFromOne

\* The frame a client sends was nowhere before, and is in its socket now.
LEMMA SendAddsOnePlace ==
    ASSUME LoopInv, NEW c \in Clients, ClientSends(c), NEW frame \in Frames, OnceAt(frame)
    PROVE  OnceAt(frame)'
<1>t. /\ inbound \in [Clients -> Seq(0..MaxFrames)] /\ inbound[c] \in Seq(0..MaxFrames)
      /\ sent \in [Clients -> 0..MaxFrames] /\ MaxFrames \in Nat /\ sent[c] \in Nat
  BY EventLoopAssumption DEF LoopInv, LoopTypes, ClientTypeOK
<1>f. frame[1] \in Clients /\ frame[2] \in Nat
  BY EventLoopAssumption
<1>1. /\ sent[c] < MaxFrames /\ sent' = [sent EXCEPT ![c] = sent[c] + 1]
      /\ inbound' = [inbound EXCEPT ![c] = Append(inbound[c], sent[c] + 1)]
      /\ UNCHANGED <<frames, queue, running, unnotified, completed, results, write_buffer, wire,
                     received>>
  BY DEF ClientSends, dispatcherVars, poolVars, loopVars, serverVars
<1>2. sent[c] + 1 \in 0..MaxFrames
  BY <1>1, <1>t
<1>3. sent'[frame[1]] \in Nat /\ sent[frame[1]] \in Nat /\ sent[frame[1]] <= sent'[frame[1]]
  BY <1>1, <1>t, <1>f
<1>4. ASSUME NEW p, AtInbound(frame, p)'
      PROVE  \/ AtInbound(frame, p)
             \/ /\ frame[1] = c /\ frame[2] = sent[c] + 1
                /\ p = <<"inbound", Len(inbound[c]) + 1>>
  <2>1. PICK i \in DOMAIN inbound'[frame[1]] :
          inbound'[frame[1]][i] = frame[2] /\ p = <<"inbound", i>>
    BY <1>4 DEF AtInbound
  <2>2. CASE frame[1] # c
    BY <1>1, <1>t, <1>f, <2>1, <2>2 DEF AtInbound
  <2>3. CASE frame[1] = c
    <3>1. inbound'[frame[1]] = Append(inbound[c], sent[c] + 1)
      BY <1>1, <1>t, <2>3
    <3>2. \/ i \in DOMAIN inbound[c] /\ inbound'[frame[1]][i] = inbound[c][i]
          \/ i = Len(inbound[c]) + 1 /\ inbound'[frame[1]][i] = sent[c] + 1
      BY <1>2, <1>t, <2>1, <3>1, PartIndices
    <3> QED
      BY <2>1, <2>3, <3>2 DEF AtInbound
  <2> QED
    BY <2>2, <2>3
<1>5. ASSUME NEW p, AtSome(frame, p)'
      PROVE  \/ p \in Places(frame)
             \/ /\ frame[1] = c /\ frame[2] = sent[c] + 1
                /\ p = <<"inbound", Len(inbound[c]) + 1>>
  BY <1>1, <1>4, <1>5, PlacesStay, PlacesAre DEF AtSome
<1>6. CASE frame[1] = c /\ frame[2] = sent[c] + 1
  <2>1. Places(frame) = {}
    BY <1>6, <1>t DEF OnceAt
  <2>2. \A p \in Places(frame)' : p = <<"inbound", Len(inbound[c]) + 1>>
    BY <1>5, <2>1, PlacesAreNext
  <2>3. frame[2] <= sent'[frame[1]]
    BY <1>1, <1>6, <1>t
  <2> QED
    BY <2>2, <2>3 DEF OnceAt, Single
<1>7. CASE ~(frame[1] = c /\ frame[2] = sent[c] + 1)
  <2>1. \A p \in Places(frame)' : p \in Places(frame)
    BY <1>5, <1>7, PlacesAreNext
  <2>2. Places(frame) # {} => frame[2] <= sent'[frame[1]]
    BY <1>3, <1>f DEF OnceAt
  <2> QED
    BY <2>1, <2>2 DEF OnceAt, Single
<1> QED
  BY <1>6, <1>7

\* A connection that is closed takes its responses, and the frames being submitted,
\* with it; so does the destructor.
LEMMA CloseDropsPlaces ==
    ASSUME LoopInv, NEW frame \in Frames, OnceAt(frame),
           \/ \E event \in batch : HandleError(event)
           \/ SubmitRejected \/ CloseAfterRead \/ FlushFails \/ DestroyLoop
    PROVE  OnceAt(frame)'
<1>t. write_buffer \in [Fds -> Seq(Frames)]
  BY DEF LoopInv, LoopTypes, TableTypeOK
<1>1. UNCHANGED <<sent, inbound, queue, running, unnotified, wire, received>>
  BY DEF HandleError, SubmitRejected, CloseAfterRead, FlushFails, DestroyLoop, Destroy,
         dispatcherVars, poolVars
<1>2. /\ UNCHANGED frames \/ frames' = <<>>
      /\ UNCHANGED completed \/ completed' = <<>>
      /\ UNCHANGED results \/ results' = <<>>
  BY DEF HandleError, SubmitRejected, CloseAfterRead, FlushFails, DestroyLoop, Destroy,
         HandlerCloses, HandlerReturns, dispatcherVars
<1>3. \/ \E fd : write_buffer' = [write_buffer EXCEPT ![fd] = <<>>]
      \/ write_buffer' = [fd \in Fds |-> <<>>]
  BY DEF HandleError, SubmitRejected, CloseAfterRead, FlushFails, DestroyLoop, HandlerCloses,
         CloseConnection
<1>4. \A fd \in Fds : write_buffer'[fd] = write_buffer[fd] \/ write_buffer'[fd] = <<>>
  BY <1>3, <1>t
<1>5. ASSUME NEW p, AtSome(frame, p)' PROVE p \in Places(frame)
  <2>1. AtFrames(frame, p)' => AtFrames(frame, p)
    BY <1>2 DEF AtFrames
  <2>2. AtCompleted(frame, p)' => AtCompleted(frame, p)
    BY <1>2 DEF AtCompleted
  <2>3. AtResults(frame, p)' => AtResults(frame, p)
    BY <1>2 DEF AtResults
  <2>4. AtBuffer(frame, p)' => AtBuffer(frame, p)
    BY <1>4 DEF AtBuffer
  <2> QED
    BY <1>1, <1>5, <2>1, <2>2, <2>3, <2>4, PlacesStay, PlacesAre DEF AtSome
<1> QED
  BY <1>1, <1>5, NoMoreComesFromOne

\* A task that throws is gone; a worker that has published was no place any more.
LEMMA FinishDropsPlaces ==
    ASSUME LoopInv, NEW w \in Workers, PoolStep(w), TaskThrows(w) \/ Notify(w) \/ NotifyFails(w),
           NEW frame \in Frames, OnceAt(frame)
    PROVE  OnceAt(frame)'
<1>t. running \in [Workers -> ProcessingTasks \cup {NoTask}]
  BY DEF LoopInv, DispatcherInv, DispatcherTypeOK
<1>1. UNCHANGED <<sent, inbound, frames, queue, completed, results, write_buffer, wire, received>>
  BY DEF PoolStep, TaskThrows, Notify, NotifyFails, Pool!Finish, loopVars, serverVars, clientVars
<1>2. /\ running' = [running EXCEPT ![w] = NoTask]
      /\ unnotified' = unnotified \/ unnotified' = unnotified \ {w}
  BY DEF TaskThrows, Notify, NotifyFails, Pool!Finish
<1>3. ASSUME NEW p, AtRunning(frame, p)' PROVE AtRunning(frame, p)
  BY <1>2, <1>3, <1>t DEF AtRunning
<1>4. ASSUME NEW p, AtSome(frame, p)' PROVE p \in Places(frame)
  BY <1>1, <1>3, <1>4, PlacesStay, PlacesAre DEF AtSome
<1> QED
  BY <1>1, <1>4, NoMoreComesFromOne

\* A reset loses the end of what was under way; a malformed header is no frame.
LEMMA ClientDropsPlaces ==
    ASSUME LoopInv, NEW c \in Clients, ClientResets(c) \/ ClientSendsOversized(c),
           NEW frame \in Frames, OnceAt(frame)
    PROVE  OnceAt(frame)'
<1>t. inbound \in [Clients -> Seq(0..MaxFrames)] /\ inbound[c] \in Seq(0..MaxFrames)
  BY DEF LoopInv, LoopTypes, ClientTypeOK
<1>f. frame[1] \in Clients /\ frame[2] # 0 /\ 0 \in 0..MaxFrames
  BY EventLoopAssumption
<1>1. UNCHANGED <<sent, frames, queue, running, unnotified, completed, results, write_buffer,
                  wire, received>>
  BY DEF ClientResets, ClientSendsOversized, dispatcherVars, poolVars, loopVars, serverVars
<1>2. \/ \E n \in 0..Len(inbound[c]) : inbound' = [inbound EXCEPT ![c] = SubSeq(inbound[c], 1, n)]
      \/ inbound' = [inbound EXCEPT ![c] = Append(inbound[c], 0)]
  BY DEF ClientResets, ClientSendsOversized, Oversized
<1>3. ASSUME NEW i \in DOMAIN inbound'[frame[1]], inbound'[frame[1]][i] = frame[2]
      PROVE  i \in DOMAIN inbound[frame[1]] /\ inbound[frame[1]][i] = frame[2]
  <2>1. CASE frame[1] # c
    BY <1>2, <1>3, <1>t, <1>f, <2>1
  <2>2. CASE frame[1] = c
    <3>1. \/ \E n \in 0..Len(inbound[c]) : inbound'[c] = SubSeq(inbound[c], 1, n)
          \/ inbound'[c] = Append(inbound[c], 0)
      BY <1>2, <1>t
    <3>2. CASE inbound'[c] = Append(inbound[c], 0)
      BY <1>3, <1>t, <1>f, <2>2, <3>2, PartIndices
    <3>3. ASSUME NEW n \in 0..Len(inbound[c]), inbound'[c] = SubSeq(inbound[c], 1, n)
          PROVE  i \in DOMAIN inbound[c] /\ inbound[c][i] = frame[2]
      BY <1>3, <1>t, <2>2, <3>3
    <3> QED
      BY <2>2, <3>1, <3>2, <3>3
  <2> QED
    BY <2>1, <2>2
<1>4. ASSUME NEW p, AtSome(frame, p)' PROVE p \in Places(frame)
  <2>1. AtInbound(frame, p)' => AtInbound(frame, p)
    BY <1>3 DEF AtInbound
  <2> QED
    BY <1>1, <1>4, <2>1, PlacesStay, PlacesAre DEF AtSome
<1> QED
  BY <1>1, <1>4, NoMoreComesFromOne

\* The variables that hold frames.
placeVars == <<sent, inbound, frames, queue, running, unnotified, completed, results,
               write_buffer, wire, received>>

\* The actions that move frames.
LEMMA PlaceChanges ==
    ASSUME [EventLoopNext]_vars
    PROVE  \/ UNCHANGED placeVars
           \/ \E event \in batch : HandleError(event) \/ HandleReadable(event)
           \/ TakeResults \/ ApplyStale \/ ApplyQueues \/ ApplyFails
           \/ SubmitFrame \/ SubmitRejected \/ CloseAfterRead
           \/ FlushWrites \/ UpdateFails \/ FlushFails \/ DestroyLoop
           \/ \E w \in Workers : PoolStep(w)
           \/ \E c \in Clients : \/ ClientSends(c) \/ ClientSendsOversized(c)
                                 \/ ClientResets(c) \/ ClientReads(c)
<1> USE DEF placeVars, dispatcherVars, poolVars, loopVars, serverVars, kernelVars, clientVars
<1>1. CASE Wait \/ RunFails \/ HandleListener \/ AcceptDrained \/ AcceptFails
  BY <1>1 DEF Wait, RunFails, HandleListener, AcceptDrained, AcceptFails
<1>2. CASE HandleNotification \/ StopDispatcher
  BY <1>2 DEF HandleNotification, ConsumeNotifications, StopDispatcher, StopPool, JoinPool,
              Pool!Close, Pool!Join
<1>3. CASE \E fd \in Fds : Accept(fd) \/ AcceptAddFails(fd)
  BY <1>3 DEF Accept, AcceptAddFails
<1>4. CASE \E event \in batch : HandleGone(event) \/ HandleWritable(event)
  BY <1>4 DEF HandleGone, HandleWritable
<1>5. CASE \E c \in Clients : ClientConnects(c) \/ ClientShuts(c)
  BY <1>5 DEF ClientConnects, ClientShuts
<1>6. CASE UNCHANGED vars
  BY <1>6 DEF vars
<1> QED
  BY <1>1, <1>2, <1>3, <1>4, <1>5, <1>6 DEF EventLoopNext, LoopStep, ClientStep

\* No step gives a frame a second place.
LEMMA OnceKept ==
    ASSUME LoopInv, [EventLoopNext]_vars, NEW frame \in Frames, OnceAt(frame)
    PROVE  OnceAt(frame)'
<1>1. CASE UNCHANGED placeVars
  <2>1. ASSUME NEW p, AtSome(frame, p)' PROVE p \in Places(frame)
    BY <1>1, <2>1, PlacesStay, PlacesAre DEF AtSome, placeVars
  <2> QED
    BY <1>1, <2>1, NoMoreComesFromOne DEF placeVars
<1>2. CASE \E w \in Workers : PoolStep(w)
  BY <1>2, StartMovesPlaces, PublishMovesPlaces, FinishDropsPlaces DEF PoolStep, WorkerStep
<1>3. CASE \E event \in batch : HandleError(event) \/ HandleReadable(event)
  BY <1>3, CloseDropsPlaces, ReadMovesPlaces
<1>4. CASE \E c \in Clients : \/ ClientSends(c) \/ ClientSendsOversized(c)
                              \/ ClientResets(c) \/ ClientReads(c)
  BY <1>4, SendAddsOnePlace, ClientDropsPlaces, ClientReadMovesPlaces
<1> QED
  BY <1>1, <1>2, <1>3, <1>4, PlaceChanges, TakeMovesPlaces, ApplyMovesPlaces, SubmitMovesPlaces,
     CloseDropsPlaces, FlushMovesPlaces

\* A frame has one place at most, and one that was not sent yet has none.
LEMMA OncePlaced == EventLoopSpec => [](\A frame \in Frames : OnceAt(frame))
<1> DEFINE Inv == \A frame \in Frames : OnceAt(frame)
<1>1. EventLoopInit => Inv
  <2> SUFFICES ASSUME EventLoopInit, NEW frame \in Frames, NEW p PROVE ~AtSome(frame, p)
    BY PlacesAre DEF OnceAt, Single
  <2>1. /\ inbound[frame[1]] = <<>> /\ frames = <<>> /\ queue = <<>> /\ completed = <<>>
        /\ results = <<>> /\ \A w \in Workers : running[w] = NoTask
        /\ \A fd \in Fds : write_buffer[fd] = <<>>
        /\ \A c \in Clients : wire[c] = <<>> /\ received[c] = <<>>
    BY EventLoopAssumption DEF EventLoopInit, DispatcherInit
  <2> QED
    BY <2>1 DEF AtSome, AtInbound, AtFrames, AtQueue, AtRunning, AtCompleted, AtResults,
                AtBuffer, AtWire, AtReceived
<1>2. LoopInv /\ Inv /\ [EventLoopNext]_vars => Inv'
  BY OnceKept
<1> QED
  BY <1>1, <1>2, LoopInvariant, PTL DEF EventLoopSpec

\* A frame is never processed or answered twice, whatever fails and however reads,
\* submissions, notifications and results interleave: it is read out of its socket once,
\* and each hand-over from there to the client leaves nothing of it behind.
THEOREM FramesAreHandledOnce == EventLoopSpec => []AtMostOnce
<1>1. (\A frame \in Frames : OnceAt(frame)) => AtMostOnce
  <2> SUFFICES ASSUME NEW S, Single(S) PROVE Cardinality(S) <= 1
    BY DEF AtMostOnce, OnceAt
  <2>1. CASE S = {}
    BY <2>1, FS_EmptySet
  <2>2. ASSUME NEW x, x \in S PROVE Cardinality(S) <= 1
    <3>1. S = {x}
      BY <2>2 DEF Single
    <3> QED
      BY <3>1, FS_Singleton
  <2> QED
    BY <2>1, <2>2
<1> QED
  BY <1>1, OncePlaced, PTL
-----------------------------------------------------------------------------
(* A frame is in one place of the pipeline at least, while its connection lives. *)

\* The connection the item was made for is still there, or has been closed: an item
\* never meets a later connection of its own client.
Standing(item) ==
    \/ connections[item.fd] = item.id /\ peer[item.fd] = item.frame[1]
    \/ link[item.frame[1]] = "closed"

PipelineStands == \A item \in ProcessingTasks : InPipeline(item) => Standing(item)

\* The client can still be sent a response.
Live(c) == link[c] \in {"pending", "open"} /\ ended[c] # "rst"

\* A client that has not connected has sent nothing, and results are taken only when
\* those taken before have all been applied.
Quiescent ==
    /\ \A c \in Clients : link[c] = "new" => sent[c] = 0
    /\ draining => results = <<>>

\* A closed client stays closed, and no client but a pending one is accepted.
LEMMA ClosedStays ==
    ASSUME LoopInv, ServerTables, EventLoopNext, NEW c \in Clients
    PROVE  /\ link[c] = "closed" => link'[c] = "closed"
           /\ link'[c] = "new" => link[c] = "new"
           /\ link'[c] \in {"pending", "open"} =>
                \/ link[c] \in {"pending", "open"}
                \/ link[c] = "new" /\ ClientConnects(c)
<1>t. link \in [Clients -> {"new", "pending", "open", "closed"}]
  BY DEF LoopInv, LoopTypes, ClientTypeOK
<1>c. ASSUME NEW fd, CloseConnection(fd)
      PROVE  link'[c] = link[c] \/ link'[c] = "closed"
  BY <1>c, <1>t DEF CloseConnection
<1>b. ASSUME NEW fd, Accepts(fd)
      PROVE  Head(backlog) \in Clients /\ link[Head(backlog)] = "pending"
  BY <1>b, AcceptedClient DEF Accepts, ServerTables, LoopInv
<1>1. CASE \E fd \in Fds : Accept(fd) \/ AcceptAddFails(fd)
  BY <1>1, <1>t, <1>b DEF Accept, AcceptAddFails
<1>2. CASE ApplyFails \/ \E event \in batch : HandleError(event)
  BY <1>2, <1>t, <1>c DEF ApplyFails, HandleError
<1>3. CASE SubmitRejected \/ CloseAfterRead \/ UpdateFails \/ FlushFails
  BY <1>3, <1>t, <1>c DEF SubmitRejected, CloseAfterRead, UpdateFails, FlushFails, HandlerCloses
<1>4. CASE FlushWrites \/ \E event \in batch : HandleReadable(event)
  BY <1>4, <1>t DEF FlushWrites, HandleReadable
<1>5. CASE DestroyLoop
  BY <1>5, <1>t DEF DestroyLoop
<1>6. ASSUME NEW d \in Clients, ClientConnects(d)
      PROVE  /\ link[c] = "closed" => link'[c] = "closed"
             /\ link'[c] = "new" => link[c] = "new"
             /\ link'[c] \in {"pending", "open"} =>
                  \/ link[c] \in {"pending", "open"}
                  \/ link[c] = "new" /\ ClientConnects(c)
  <2>1. CASE c = d
    BY <1>6, <1>t, <2>1 DEF ClientConnects
  <2>2. CASE c # d
    <3>1. link'[c] = link[c]
      BY <1>6, <1>t, <2>2 DEF ClientConnects
    <3> QED
      BY <3>1, <1>t
  <2> QED
    BY <2>1, <2>2
<1>7. ASSUME NEW d \in Clients, ClientStep(d), ~ClientConnects(d) PROVE UNCHANGED link
  BY <1>7
      DEF ClientStep, ClientSends, ClientSendsOversized, ClientShuts, ClientResets, ClientReads
<1>8. CASE UNCHANGED link
  BY <1>8
<1> QED
  BY <1>1, <1>2, <1>3, <1>4, <1>5, <1>6, <1>7, <1>8, ClientChanges DEF clientVars

\* Closing a connection closes its client.
LEMMA CloseEnds ==
    ASSUME LoopInv, NEW fd \in Fds, connections[fd] # 0, CloseConnection(fd)
    PROVE  peer[fd] \in Clients /\ link'[peer[fd]] = "closed"
<1>1. link \in [Clients -> {"new", "pending", "open", "closed"}]
  BY DEF LoopInv, LoopTypes, ClientTypeOK
<1>2. peer[fd] \in Clients
  BY DEF LoopInv, LoopTypes, TablesMatch, TableTypeOK
<1> QED
  BY <1>1, <1>2 DEF CloseConnection

\* The actions that close a connection, and which one.
LEMMA WhoCloses ==
    ASSUME LoopInv, EventLoopNext
    PROVE  \/ UNCHANGED <<connections, peer>>
           \/ \E fd \in Fds : Accept(fd)
           \/ \E fd \in Fds : connections[fd] # 0 /\ CloseConnection(fd)
           \/ DestroyLoop
<1>1. CASE ApplyFails
  <2>1. Head(results).fd \in Fds /\ Head(results).id # 0
    BY <1>1, HeadOfResults DEF ApplyFails, Applying, LoopInv, LoopTypes
  <2> QED
    BY <1>1, <2>1 DEF ApplyFails
<1>2. CASE SubmitRejected \/ CloseAfterRead \/ UpdateFails \/ FlushFails
  BY <1>2, HandlerHasConnection DEF SubmitRejected, CloseAfterRead, UpdateFails, FlushFails,
     Flushes, HandlerCloses, LoopInv
<1>3. CASE \E event \in batch : HandleError(event)
  BY <1>3 DEF HandleError, ClientEvent
<1>4. CASE FlushWrites \/ ApplyQueues \/ \E fd \in Fds : AcceptAddFails(fd)
  BY <1>4 DEF FlushWrites, ApplyQueues, AcceptAddFails
<1>5. CASE \E c \in Clients : ClientConnects(c)
  BY <1>5 DEF ClientConnects, serverVars
<1> QED
  BY <1>1, <1>2, <1>3, <1>4, <1>5, TableChanges DEF serverVars, kernelVars

\* What an item stands on lasts until its client is closed for good.
LEMMA StandingKept ==
    ASSUME LoopInv, ServerTables, EventLoopNext, NEW item \in ProcessingTasks, Standing(item)
    PROVE  Standing(item)'
<1>i. item.fd \in Fds /\ item.id \in 1..MaxConnectionId /\ item.frame[1] \in Clients
  BY EventLoopAssumption DEF ProcessingTasks
<1>t. connections \in [Fds -> 0..MaxConnectionId] /\ peer \in [Fds -> Clients \cup {NoClient}]
  BY DEF LoopInv, LoopTypes, TableTypeOK
<1>1. CASE link[item.frame[1]] = "closed"
  BY <1>1, <1>i, ClosedStays DEF Standing
<1>2. CASE connections[item.fd] = item.id /\ peer[item.fd] = item.frame[1]
  <2>0. connections[item.fd] # 0
    BY <1>2, <1>i
  <2>1. CASE UNCHANGED <<connections, peer>>
    BY <1>2, <2>1 DEF Standing
  <2>2. ASSUME NEW fd \in Fds, Accept(fd) PROVE Standing(item)'
    <3>1. connections[fd] = 0
      BY <2>2 DEF Accept, Accepts, FreeFds, LoopInv, LoopTypes, TablesMatch
    <3>2. fd # item.fd
      BY <2>0, <3>1
    <3> QED
      BY <1>2, <1>i, <1>t, <2>2, <3>2 DEF Accept, Standing
  <2>3. ASSUME NEW fd \in Fds, connections[fd] # 0, CloseConnection(fd) PROVE Standing(item)'
    <3>1. CASE fd = item.fd
      BY <1>2, <2>3, <3>1, CloseEnds DEF Standing
    <3>2. CASE fd # item.fd
      BY <1>2, <1>i, <1>t, <2>3, <3>2 DEF CloseConnection, Standing
    <3> QED
      BY <3>1, <3>2
  <2>4. CASE DestroyLoop
    <3>1. link[item.frame[1]] = "open"
      BY <1>2, <1>i, <2>0 DEF ServerTables, PeersOpen
    <3> QED
      BY <1>i, <2>4, <3>1 DEF DestroyLoop, Standing
  <2> QED
    BY <2>1, <2>2, <2>3, <2>4, WhoCloses
<1> QED
  BY <1>1, <1>2 DEF Standing

\* So every item of the pipeline stands, from its submission on.
LEMMA PipelineStandsKept ==
    ASSUME LoopInv, ServerTables, FramesOwned, PipelineStands, EventLoopNext
    PROVE  PipelineStands'
<1> SUFFICES ASSUME NEW item \in ProcessingTasks, InPipeline(item)' PROVE Standing(item)'
  BY DEF PipelineStands
<1>1. CASE InPipeline(item)
  BY <1>1, StandingKept DEF PipelineStands
<1>2. CASE SubmitFrame /\ item = FrameTask
  <2>1. Head(frames) \in Frames /\ InSeq(Head(frames), frames)
    BY <1>2, SeqParts, InParts DEF SubmitFrame, LoopInv, LoopTypes, LoopTypeOK
  <2>2. Head(frames)[1] = peer[ready_fd]
    BY <2>1 DEF FramesOwned
  <2>3. Standing(item)
    BY <1>2, <2>2 DEF Standing, FrameTask
  <2> QED
    BY <2>3, StandingKept
<1> QED
  BY <1>1, <1>2, PipelineSources

\* A client sends only once it has connected; a notification is handled only when no
\* result waits to be applied.
LEMMA QuiescentKept ==
    ASSUME LoopInv, ServerTables, Quiescent, EventLoopNext
    PROVE  Quiescent'
<1>t. sent \in [Clients -> 0..MaxFrames]
  BY DEF LoopInv, LoopTypes, ClientTypeOK
<1>1. ASSUME NEW c \in Clients, link'[c] = "new" PROVE sent'[c] = 0
  <2>1. link[c] = "new" /\ sent[c] = 0
    BY <1>1, ClosedStays DEF Quiescent
  <2>2. UNCHANGED sent \/ \E d \in Clients : ClientSends(d)
    <3>1. ASSUME NEW d \in Clients, ClientStep(d), ~ClientSends(d) PROVE UNCHANGED sent
      BY <3>1 DEF ClientStep, ClientConnects, ClientSendsOversized, ClientShuts, ClientResets,
         ClientReads
    <3> QED
      BY <3>1, ClientChanges DEF clientVars, Accept, AcceptAddFails, ApplyFails, HandleError,
         HandleReadable, SubmitRejected, CloseAfterRead, FlushWrites, UpdateFails, FlushFails,
         DestroyLoop
  <2>3. ASSUME NEW d \in Clients, ClientSends(d) PROVE sent'[c] = sent[c]
    <3>1. d # c
      BY <2>1, <2>3 DEF ClientSends, Writable
    <3> QED
      BY <1>t, <2>3, <3>1 DEF ClientSends
  <2> QED
    BY <2>1, <2>2, <2>3
<1>2. draining' => results' = <<>>
  <2>1. CASE UNCHANGED <<draining, results>>
    BY <2>1 DEF Quiescent
  <2>2. CASE TakeResults \/ DestroyLoop
    BY <2>2 DEF TakeResults, TakeCompleted, DestroyLoop, Destroy
  <2>3. CASE HandleNotification
    BY <2>3 DEF HandleNotification, Dispatching
  <2>4. CASE ApplyStale \/ ApplyQueues \/ ApplyFails
    BY <2>4 DEF ApplyStale, ApplyQueues, ApplyFails, Applying, dispatcherVars
  <2>5. CASE Wait \/ RunFails \/ HandleListener \/ AcceptDrained \/ AcceptFails
    BY <2>1, <2>5 DEF Wait, RunFails, HandleListener, AcceptDrained, AcceptFails, dispatcherVars
  <2>6. CASE \E fd \in Fds : Accept(fd) \/ AcceptAddFails(fd)
    BY <2>1, <2>6 DEF Accept, AcceptAddFails, loopVars, dispatcherVars
  <2>7. CASE \E event \in batch : \/ HandleGone(event) \/ HandleError(event)
                                  \/ HandleReadable(event) \/ HandleWritable(event)
    BY <2>1, <2>7 DEF HandleGone, HandleError, HandleReadable, HandleWritable, dispatcherVars
  <2>8. CASE SubmitFrame \/ StopDispatcher
    BY <2>1, <2>8 DEF SubmitFrame, TrySubmit, StopDispatcher, StopPool, JoinPool, loopVars
  <2>9. CASE SubmitRejected \/ CloseAfterRead \/ FlushWrites \/ UpdateFails \/ FlushFails
    BY <2>1, <2>9 DEF SubmitRejected, CloseAfterRead, FlushWrites, UpdateFails, FlushFails,
                      HandlerCloses, dispatcherVars
  <2>10. CASE \E w \in Workers : PoolStep(w)
    BY <2>1, <2>10 DEF PoolStep, WorkerStep, StartTask, TaskThrows, Publish, Notify, NotifyFails,
                       loopVars
  <2>11. CASE \E c \in Clients : ClientStep(c)
    BY <2>1, <2>11 DEF ClientStep, ClientConnects, ClientSends, ClientSendsOversized,
                       ClientShuts, ClientResets, ClientReads, loopVars, dispatcherVars
  <2> QED
    BY <2>2, <2>3, <2>4, <2>5, <2>6, <2>7, <2>8, <2>9, <2>10, <2>11 DEF EventLoopNext, LoopStep
<1> QED
  BY <1>1, <1>2 DEF Quiescent

\* Where the elements of a sequence are in what is made of it.
LEMMA PartPlaces ==
    ASSUME NEW S, NEW s \in Seq(S)
    PROVE  /\ \A i \in DOMAIN s : \/ i = 1 /\ s[i] = Head(s)
                                  \/ i - 1 \in DOMAIN Tail(s) /\ Tail(s)[i - 1] = s[i]
           /\ \A y \in S : /\ \A i \in DOMAIN s : /\ i \in DOMAIN Append(s, y)
                                                  /\ Append(s, y)[i] = s[i]
                           /\ Len(s) + 1 \in DOMAIN Append(s, y)
                           /\ Append(s, y)[Len(s) + 1] = y
           /\ \A t \in Seq(S) : /\ \A i \in DOMAIN s : /\ i \in DOMAIN (s \o t)
                                                       /\ (s \o t)[i] = s[i]
                                /\ \A j \in DOMAIN t : /\ Len(s) + j \in DOMAIN (s \o t)
                                                       /\ (s \o t)[Len(s) + j] = t[j]
OBVIOUS

\* The same for one element.
LEMMA AppendedPlace ==
    ASSUME NEW S, NEW s \in Seq(S), NEW y \in S, NEW i \in DOMAIN s
    PROVE  i \in DOMAIN Append(s, y) /\ Append(s, y)[i] = s[i]
OBVIOUS

\* And for one element of what is put behind it.
LEMMA ConcatenatedPlace ==
    ASSUME NEW S, NEW s \in Seq(S), NEW t \in Seq(S), NEW j \in DOMAIN t
    PROVE  Len(s) + j \in DOMAIN (s \o t) /\ (s \o t)[Len(s) + j] = t[j]
OBVIOUS

\* The frame is somewhere.
Held(frame) == \E p : AtSome(frame, p)

\* Every frame a live client has sent is somewhere.
NoneLost == \A frame \in Frames :
    Live(frame[1]) /\ frame[2] <= sent[frame[1]] => Held(frame)

\* readAvailable() passes over a malformed header only.
LEMMA ReadKeepsFrames ==
    ASSUME LoopInv, NEW event \in batch, HandleReadable(event), NEW frame \in Frames,
           NEW p, AtInbound(frame, p)
    PROVE  Held(frame)'
<1> DEFINE c == peer[event.fd]
           data == inbound[c]
<1>1. event.fd \in Fds /\ connections[event.fd] # 0
  BY DEF HandleReadable, ClientEvent
<1>2. c \in Clients
  BY <1>1 DEF LoopInv, LoopTypes, TablesMatch, TableTypeOK
<1>3. PICK n \in Decoded(data) :
        /\ frames' = [i \in 1..n |-> <<c, data[i]>>]
        /\ inbound' = [inbound EXCEPT ![c] = SubSeq(data, n + 2, Len(data))]
  BY DEF HandleReadable
<1>4. /\ inbound \in [Clients -> Seq(0..MaxFrames)] /\ data \in Seq(0..MaxFrames)
      /\ n \in 0..Len(data) /\ (n < Len(data) => data[n + 1] = 0)
  BY <1>2 DEF Decoded, Oversized, LoopInv, LoopTypes, ClientTypeOK
<1>5. frame[1] \in Clients /\ frame = <<frame[1], frame[2]>> /\ frame[2] # 0
  BY EventLoopAssumption
<1> HIDE DEF c, data
<1>6. PICK i \in DOMAIN inbound[frame[1]] : inbound[frame[1]][i] = frame[2]
  BY DEF AtInbound
<1>7. CASE frame[1] # c
  <2>1. inbound'[frame[1]] = inbound[frame[1]]
    BY <1>3, <1>4, <1>5, <1>7
  <2>2. AtInbound(frame, p)'
    BY <2>1 DEF AtInbound
  <2> QED
    BY <2>2 DEF Held, AtSome
<1>8. CASE frame[1] = c
  <2>1. i \in 1..Len(data) /\ data[i] = frame[2]
    BY <1>4, <1>6, <1>8 DEF data
  <2>2. i # n + 1
    BY <1>4, <1>5, <2>1
  <2>3. CASE i <= n
    <3>1. i \in DOMAIN frames' /\ frames'[i] = frame
      BY <1>3, <1>4, <1>5, <1>8, <2>1, <2>3
    <3>2. AtFrames(frame, <<"frames", i>>)'
      BY <3>1 DEF AtFrames
    <3> QED
      BY <3>2 DEF Held, AtSome
  <2>4. CASE i > n + 1
    <3>1. inbound'[c] = SubSeq(data, n + 2, Len(data))
      BY <1>2, <1>3, <1>4
    <3>2. i - (n + 1) \in DOMAIN inbound'[c] /\ inbound'[c][i - (n + 1)] = frame[2]
      BY <1>4, <2>1, <2>4, <3>1
    <3>3. AtInbound(frame, <<"inbound", i - (n + 1)>>)'
      BY <1>8, <3>2 DEF AtInbound
    <3> QED
      BY <3>3 DEF Held, AtSome
  <2> QED
    BY <1>4, <2>1, <2>2, <2>3, <2>4
<1> QED
  BY <1>7, <1>8

\* trySubmit() and the workers pass a frame on.
LEMMA PoolKeepsFrames ==
    ASSUME LoopInv, "throw" \notin Faults, NEW frame \in Frames, NEW p, AtSome(frame, p),
           SubmitFrame \/ \E w \in Workers : PoolStep(w)
    PROVE  Held(frame)'
<1>t. /\ frames \in Seq(Frames)
      /\ queue \in Seq(ProcessingTasks) /\ completed \in Seq(ProcessingTasks)
      /\ running \in [Workers -> ProcessingTasks \cup {NoTask}]
  BY DEF LoopInv, LoopTypes, LoopTypeOK, DispatcherInv, DispatcherTypeOK, ProcessingResults
<1>n. NoTask \notin ProcessingTasks
  BY DispatcherAssumption DEF ProcessingTasks
<1>o. UNCHANGED <<inbound, results, write_buffer, wire, received>>
  BY DEF SubmitFrame, PoolStep, loopVars, serverVars, clientVars
<1>1. CASE SubmitFrame
  <2>1. /\ frames # <<>> /\ frames' = Tail(frames)
        /\ queue' = Append(queue, FrameTask) /\ FrameTask.frame = Head(frames)
        /\ UNCHANGED <<running, unnotified, completed>>
    BY <1>1 DEF SubmitFrame, TrySubmit, Pool!Submit, FrameTask
  <2>2. FrameTask \in ProcessingTasks
    <3>1. ready_fd \in Fds /\ connections[ready_fd] \in 1..MaxConnectionId
      BY <1>1, HandlerHasConnection DEF SubmitFrame, LoopInv
    <3>2. Head(frames) \in Frames
      BY <2>1, <1>t, SeqParts
    <3> QED
      BY <3>1, <3>2 DEF FrameTask, ProcessingTasks
  <2>3. CASE AtFrames(frame, p)
    <3>1. PICK i \in DOMAIN frames : frames[i] = frame
      BY <2>3 DEF AtFrames
    <3>2. CASE i = 1 /\ frames[i] = Head(frames)
      <4>0. PICK k : k = Len(queue) + 1
        OBVIOUS
      <4>1. AtQueue(frame, <<"queue", k>>)'
        BY <1>t, <2>1, <2>2, <3>1, <3>2, <4>0, PartPlaces DEF AtQueue
      <4> QED
        BY <4>1 DEF Held, AtSome
    <3>3. CASE i - 1 \in DOMAIN Tail(frames) /\ Tail(frames)[i - 1] = frames[i]
      <4>1. AtFrames(frame, <<"frames", i - 1>>)'
        BY <2>1, <3>1, <3>3 DEF AtFrames
      <4> QED
        BY <4>1 DEF Held, AtSome
    <3> QED
      BY <1>t, <3>2, <3>3, PartPlaces
  <2>4. CASE AtQueue(frame, p)
    <3>1. AtQueue(frame, p)'
      BY <1>t, <2>1, <2>2, <2>4, PartPlaces DEF AtQueue
    <3> QED
      BY <3>1 DEF Held, AtSome
  <2> QED
    BY <1>o, <2>1, <2>3, <2>4, PlacesStay DEF Held, AtSome
<1>2. ASSUME NEW w \in Workers, PoolStep(w) PROVE Held(frame)'
  <2>0. UNCHANGED frames
    BY <1>2 DEF PoolStep, loopVars
  <2>1. CASE StartTask(w)
    <3>1. /\ running[w] = NoTask /\ queue # <<>> /\ queue' = Tail(queue)
          /\ running' = [running EXCEPT ![w] = Head(queue)]
          /\ UNCHANGED <<unnotified, completed>>
      BY <2>1 DEF StartTask, Pool!Start
    <3>2. w \notin unnotified /\ Head(queue) \in ProcessingTasks
      BY <1>t, <3>1, SeqParts DEF LoopInv, DispatcherInv, LifetimesMatch
    <3>3. CASE AtQueue(frame, p)
      <4>1. PICK i \in DOMAIN queue : queue[i].frame = frame
        BY <3>3 DEF AtQueue
      <4>2. CASE i = 1 /\ queue[i] = Head(queue)
        <5>1. running'[w] = Head(queue) /\ Head(queue) # NoTask
          BY <1>t, <1>n, <3>1, <3>2
        <5>2. AtRunning(frame, <<"running", w>>)'
          BY <3>1, <3>2, <4>1, <4>2, <5>1 DEF AtRunning
        <5> QED
          BY <5>2 DEF Held, AtSome
      <4>3. CASE i - 1 \in DOMAIN Tail(queue) /\ Tail(queue)[i - 1] = queue[i]
        <5>1. AtQueue(frame, <<"queue", i - 1>>)'
          BY <3>1, <4>1, <4>3 DEF AtQueue
        <5> QED
          BY <5>1 DEF Held, AtSome
      <4> QED
        BY <1>t, <4>2, <4>3, PartPlaces
    <3>4. CASE AtRunning(frame, p)
      <4>1. AtRunning(frame, p)'
        BY <1>t, <3>1, <3>4 DEF AtRunning
      <4> QED
        BY <4>1 DEF Held, AtSome
    <3> QED
      BY <1>o, <2>0, <3>1, <3>3, <3>4, PlacesStay DEF Held, AtSome
  <2>2. CASE Publish(w)
    <3>1. /\ running[w] # NoTask /\ completed' = Append(completed, running[w])
          /\ unnotified' = unnotified \cup {w} /\ UNCHANGED <<queue, running>>
      BY <2>2 DEF Publish, poolVars
    <3>2. running[w] \in ProcessingTasks
      BY <1>t, <3>1
    <3>3. CASE AtRunning(frame, p)
      <4>1. PICK v \in Workers \ unnotified :
              running[v] # NoTask /\ running[v].frame = frame /\ p = <<"running", v>>
        BY <3>3 DEF AtRunning
      <4>2. CASE v = w
        <5>0. PICK k : k = Len(completed) + 1
          OBVIOUS
        <5>1. AtCompleted(frame, <<"completed", k>>)'
          BY <1>t, <3>1, <3>2, <4>1, <4>2, <5>0, PartPlaces DEF AtCompleted
        <5> QED
          BY <5>1 DEF Held, AtSome
      <4>3. CASE v # w
        <5>1. AtRunning(frame, p)'
          BY <3>1, <4>1, <4>3 DEF AtRunning
        <5> QED
          BY <5>1 DEF Held, AtSome
      <4> QED
        BY <4>2, <4>3
    <3>4. CASE AtCompleted(frame, p)
      <4>1. AtCompleted(frame, p)'
        BY <1>t, <3>1, <3>2, <3>4, PartPlaces DEF AtCompleted
      <4> QED
        BY <4>1 DEF Held, AtSome
    <3> QED
      BY <1>o, <2>0, <3>1, <3>3, <3>4, PlacesStay DEF Held, AtSome
  <2>3. CASE Notify(w) \/ NotifyFails(w)
    <3>1. /\ w \in unnotified /\ unnotified' = unnotified \ {w}
          /\ running' = [running EXCEPT ![w] = NoTask] /\ UNCHANGED <<queue, completed>>
      BY <2>3 DEF Notify, NotifyFails, Pool!Finish
    <3>2. CASE AtRunning(frame, p)
      <4>1. AtRunning(frame, p)'
        BY <1>t, <3>1, <3>2 DEF AtRunning
      <4> QED
        BY <4>1 DEF Held, AtSome
    <3> QED
      BY <1>o, <2>0, <3>1, <3>2, PlacesStay DEF Held, AtSome
  <2> QED
    BY <1>2, <2>1, <2>2, <2>3 DEF PoolStep, WorkerStep, TaskThrows
<1> QED
  BY <1>1, <1>2

\* takeCompleted() and handleProcessingResults() pass a result on, and drop it only when
\* its client has been closed.
LEMMA ResultsKeepFrames ==
    ASSUME DeliveryInv, PipelineStands, Quiescent, NEW frame \in Frames,
           Live(frame[1])', NEW p, AtSome(frame, p),
           TakeResults \/ ApplyStale \/ ApplyQueues \/ ApplyFails
    PROVE  Held(frame)'
<1> USE DEF DeliveryInv
<1>t. results \in Seq(ProcessingTasks) /\ write_buffer \in [Fds -> Seq(Frames)]
  BY DEF LoopInv, LoopTypes, LoopTypeOK, TableTypeOK, ProcessingResults
<1>o. UNCHANGED <<inbound, frames, queue, running, unnotified, wire, received>>
  BY DEF TakeResults, TakeCompleted, ApplyStale, ApplyQueues, ApplyFails, dispatcherVars,
         poolVars, serverVars, clientVars
<1>1. CASE TakeResults
  <2>1. results = <<>> /\ results' = completed /\ UNCHANGED write_buffer
    BY <1>1 DEF TakeResults, TakeCompleted, Quiescent, serverVars
  <2>2. ~AtResults(frame, p)
    BY <2>1 DEF AtResults
  <2>3. CASE AtCompleted(frame, p)
    <3>1. PICK i \in DOMAIN completed : completed[i].frame = frame
      BY <2>3 DEF AtCompleted
    <3>2. AtResults(frame, <<"results", i>>)'
      BY <2>1, <3>1 DEF AtResults
    <3> QED
      BY <3>2 DEF Held, AtSome
  <2> QED
    BY <1>o, <2>1, <2>2, <2>3, PlacesStay DEF Held, AtSome
<1>2. CASE ApplyStale \/ ApplyQueues \/ ApplyFails
  <2> DEFINE result == Head(results)
             fd == result.fd
  <2>1. results # <<>> /\ results' = Tail(results) /\ UNCHANGED completed
    BY <1>2 DEF ApplyStale, ApplyQueues, ApplyFails, Applying, dispatcherVars
  <2>2. /\ result \in ProcessingTasks /\ fd \in Fds /\ result.id # 0 /\ result.frame \in Frames
    BY <2>1, HeadOfResults DEF LoopInv, LoopTypes
  <2>3. Standing(result)
    BY <1>t, <2>1, <2>2, InParts DEF PipelineStands, InPipeline
  <2>4. result.frame = frame => ApplyQueues
    <3>1. ASSUME ApplyStale, result.frame = frame PROVE FALSE
      <4>1. link[frame[1]] = "closed" /\ UNCHANGED link
        BY <2>3, <3>1 DEF ApplyStale, Standing, clientVars
      <4> QED
        BY <4>1 DEF Live
    <3>2. ASSUME ApplyFails, result.frame = frame PROVE FALSE
      <4>1. connections[fd] = result.id /\ CloseConnection(fd)
        BY <3>2 DEF ApplyFails
      <4>2. link'[peer[fd]] = "closed"
        BY <2>2, <4>1, CloseEnds
      <4>3. peer[fd] = frame[1]
        BY <1>t, <2>1, <2>2, <3>2, <4>1, InParts DEF PipelineOwned, InPipeline, Owned
      <4> QED
        BY <4>2, <4>3 DEF Live
    <3> QED
      BY <1>2, <3>1, <3>2
  <2>5. /\ ApplyQueues => write_buffer' = [write_buffer EXCEPT ![fd] =
                                             Append(write_buffer[fd], result.frame)]
        /\ ApplyStale => UNCHANGED write_buffer
        /\ ApplyFails => /\ write_buffer' = [write_buffer EXCEPT ![fd] = <<>>]
                         /\ link'[peer[fd]] = "closed"
    <3>1. ASSUME ApplyFails PROVE link'[peer[fd]] = "closed"
      BY <2>2, <3>1, CloseEnds DEF ApplyFails
    <3> QED
      BY <3>1 DEF ApplyQueues, ApplyStale, ApplyFails, CloseConnection, serverVars
  <2>6. write_buffer[fd] \in Seq(Frames)
    BY <1>t, <2>2
  <2> HIDE DEF fd
  <2>7. CASE AtResults(frame, p)
    <3>1. PICK i \in DOMAIN results : results[i].frame = frame
      BY <2>7 DEF AtResults
    <3>2. CASE i = 1 /\ results[i] = Head(results)
      <4>1. PICK g, k : g = fd /\ k = Len(write_buffer[fd]) + 1
        OBVIOUS
      <4>2. g \in Fds /\ write_buffer'[g] = Append(write_buffer[fd], frame)
        BY <1>t, <2>2, <2>4, <2>5, <3>1, <3>2, <4>1
      <4>3. k \in DOMAIN write_buffer'[g] /\ write_buffer'[g][k] = frame
        BY <2>6, <4>1, <4>2, PartPlaces
      <4>4. AtBuffer(frame, <<"write_buffer", g, k>>)'
        BY <4>2, <4>3 DEF AtBuffer
      <4> QED
        BY <4>4 DEF Held, AtSome
    <3>3. CASE i - 1 \in DOMAIN Tail(results) /\ Tail(results)[i - 1] = results[i]
      <4>1. AtResults(frame, <<"results", i - 1>>)'
        BY <2>1, <3>1, <3>3 DEF AtResults
      <4> QED
        BY <4>1 DEF Held, AtSome
    <3> QED
      BY <1>t, <3>2, <3>3, PartPlaces
  <2>8. CASE AtBuffer(frame, p)
    <3>0. PICK g \in Fds : \E i \in DOMAIN write_buffer[g] :
            write_buffer[g][i] = frame /\ p = <<"write_buffer", g, i>>
      BY <2>8 DEF AtBuffer
    <3>1. PICK i \in DOMAIN write_buffer[g] :
            write_buffer[g][i] = frame /\ p = <<"write_buffer", g, i>>
      BY <3>0
    <3>2. peer[g] = frame[1]
      BY <3>1 DEF BuffersOwned, InSeq
    <3>3. g = fd => ~ApplyFails
      BY <2>5, <3>2 DEF Live
    <3>4. i \in DOMAIN write_buffer'[g] /\ write_buffer'[g][i] = frame
      <4>1. CASE g # fd \/ ApplyStale
        BY <1>2, <1>t, <2>5, <3>1, <4>1
      <4>2. CASE g = fd /\ ApplyQueues
        <5>1. write_buffer'[g] = Append(write_buffer[fd], result.frame)
          BY <1>t, <2>2, <2>5, <4>2
        <5> QED
          BY <2>2, <2>6, <3>1, <4>2, <5>1, PartPlaces
      <4> QED
        BY <1>2, <3>3, <4>1, <4>2
    <3>5. AtBuffer(frame, p)'
      BY <3>1, <3>4 DEF AtBuffer
    <3> QED
      BY <3>5 DEF Held, AtSome
  <2> QED
    BY <1>o, <2>1, <2>7, <2>8, PlacesStay DEF Held, AtSome
<1> QED
  BY <1>1, <1>2

\* flushWrites() passes the front of a write buffer on and keeps the rest.
LEMMA FlushKeepsFrames ==
    ASSUME DeliveryInv, NEW frame \in Frames, Live(frame[1])', NEW p, AtSome(frame, p),
           FlushWrites \/ UpdateFails
    PROVE  Held(frame)'
<1> USE DEF DeliveryInv
<1> DEFINE c == peer[ready_fd]
           n == Flushable(ready_fd)
           buffer == write_buffer[ready_fd]
           front == SubSeq(buffer, 1, n)
           rest == SubSeq(buffer, n + 1, Len(buffer))
<1>t. write_buffer \in [Fds -> Seq(Frames)] /\ wire \in [Clients -> Seq(Frames)]
  BY DEF LoopInv, LoopTypes, TableTypeOK, ClientTypeOK, WireTypeOK
<1>1. /\ Flushes /\ loop = "handling" /\ frames = <<>>
      /\ UNCHANGED <<inbound, queue, running, unnotified, completed, results, received>>
  BY DEF FlushWrites, UpdateFails, Flushes, HandlerCloses, dispatcherVars, poolVars
<1>2. ready_fd \in Fds /\ connections[ready_fd] # 0 /\ c \in Clients
  BY <1>1, HandlerHasConnection DEF LoopInv
<1>3. /\ buffer \in Seq(Frames) /\ wire[c] \in Seq(Frames) /\ n \in 0..Len(buffer)
  <2>1. buffer \in Seq(Frames) /\ wire[c] \in Seq(Frames)
    BY <1>2, <1>t
  <2>2. Len(buffer) \in Nat /\ Len(wire[c]) \in Nat
    BY <2>1
  <2>3. Len(wire[c]) <= SendBuffer
    BY <1>2 DEF LoopInv, LoopTypes, ClientTypeOK, WireTypeOK
  <2> QED
    BY <2>1, <2>2, <2>3, FlushableBounds
<1>4. wire' = [wire EXCEPT ![c] = wire[c] \o front]
  BY <1>1 DEF Flushes
<1>5. /\ FlushWrites => write_buffer' = [write_buffer EXCEPT ![ready_fd] = rest]
      /\ UpdateFails => /\ write_buffer' = [write_buffer EXCEPT ![ready_fd] = <<>>]
                        /\ link'[c] = "closed"
  <2>1. UpdateFails => link'[c] = "closed"
    BY <1>2, CloseEnds DEF UpdateFails, HandlerCloses
  <2> QED
    BY <2>1 DEF FlushWrites, UpdateFails, HandlerCloses, CloseConnection
<1> HIDE DEF c, n, buffer
<1>6. /\ front \in Seq(Frames)
      /\ \A i \in DOMAIN buffer : \/ i \in DOMAIN front /\ front[i] = buffer[i]
                                  \/ i - n \in DOMAIN rest /\ rest[i - n] = buffer[i]
  BY <1>3
<1> HIDE DEF front, rest
<1>7. CASE AtWire(frame, p)
  <2>0. PICK d \in Clients : \E i \in DOMAIN wire[d] :
          wire[d][i] = frame /\ p = <<"wire", d, i>>
    BY <1>7 DEF AtWire
  <2>1. PICK i \in DOMAIN wire[d] : wire[d][i] = frame /\ p = <<"wire", d, i>>
    BY <2>0
  <2>2. i \in DOMAIN wire'[d] /\ wire'[d][i] = frame
    <3>1. CASE d # c
      BY <1>4, <1>t, <2>1, <3>1
    <3>2. CASE d = c
      <4>1. wire'[d] = wire[c] \o front
        BY <1>2, <1>4, <1>t, <3>2
      <4> QED
        BY <1>3, <1>6, <2>1, <3>2, <4>1, PartPlaces
    <3> QED
      BY <3>1, <3>2
  <2>3. AtWire(frame, p)'
    BY <2>1, <2>2 DEF AtWire
  <2> QED
    BY <2>3 DEF Held, AtSome
<1>8. CASE AtBuffer(frame, p)
  <2>0. PICK g \in Fds : \E i \in DOMAIN write_buffer[g] :
          write_buffer[g][i] = frame /\ p = <<"write_buffer", g, i>>
    BY <1>8 DEF AtBuffer
  <2>1. PICK i \in DOMAIN write_buffer[g] :
          write_buffer[g][i] = frame /\ p = <<"write_buffer", g, i>>
    BY <2>0
  <2>2. CASE g # ready_fd
    <3>1. write_buffer'[g] = write_buffer[g]
      BY <1>5, <1>t, <2>2
    <3>2. AtBuffer(frame, p)'
      BY <2>1, <3>1 DEF AtBuffer
    <3> QED
      BY <3>2 DEF Held, AtSome
  <2>3. CASE g = ready_fd
    <3>1. c = frame[1]
      BY <2>1, <2>3 DEF BuffersOwned, InSeq, c
    <3>2. FlushWrites
      BY <1>5, <3>1 DEF Live
    <3>3. i \in DOMAIN buffer /\ buffer[i] = frame
      BY <2>1, <2>3 DEF buffer
    <3>4. CASE i \in DOMAIN front /\ front[i] = buffer[i]
      <4>1. PICK d, k : d = c /\ k = Len(wire[c]) + i
        OBVIOUS
      <4>2. wire'[d] = wire[c] \o front
        BY <1>2, <1>4, <1>t, <4>1
      <4>5. /\ Len(wire[c]) + i \in DOMAIN (wire[c] \o front)
            /\ (wire[c] \o front)[Len(wire[c]) + i] = front[i]
        BY <1>3, <1>6, <3>4, ConcatenatedPlace
      <4>3. k \in DOMAIN wire'[d] /\ wire'[d][k] = frame
        BY <3>3, <3>4, <4>1, <4>2, <4>5, Zenon
      <4>4. AtWire(frame, <<"wire", d, k>>)'
        BY <1>2, <4>1, <4>3 DEF AtWire
      <4> QED
        BY <4>4 DEF Held, AtSome
    <3>5. CASE i - n \in DOMAIN rest /\ rest[i - n] = buffer[i]
      <4>1. PICK k : k = i - n
        OBVIOUS
      <4>2. write_buffer'[g] = rest
        BY <1>5, <1>t, <2>3, <3>2
      <4>3. AtBuffer(frame, <<"write_buffer", g, k>>)'
        BY <3>3, <3>5, <4>1, <4>2 DEF AtBuffer
      <4> QED
        BY <4>3 DEF Held, AtSome
    <3> QED
      BY <1>6, <3>3, <3>4, <3>5
  <2> QED
    BY <2>2, <2>3
<1>9. ~AtFrames(frame, p)
  BY <1>1 DEF AtFrames
<1> QED
  BY <1>1, <1>7, <1>8, <1>9, PlacesStay DEF Held, AtSome

\* The clients pass frames on, too, or reset the connection.
LEMMA ClientsKeepFrames ==
    ASSUME LoopInv, NEW frame \in Frames, Live(frame[1])', NEW p, AtSome(frame, p),
           NEW c \in Clients,
           ClientSends(c) \/ ClientSendsOversized(c) \/ ClientResets(c) \/ ClientReads(c)
    PROVE  Held(frame)'
<1>t. /\ inbound \in [Clients -> Seq(0..MaxFrames)] /\ inbound[c] \in Seq(0..MaxFrames)
      /\ wire \in [Clients -> Seq(Frames)] /\ wire[c] \in Seq(Frames)
      /\ received \in [Clients -> Seq(Frames)] /\ received[c] \in Seq(Frames)
      /\ ended \in [Clients -> {"no", "fin", "rst"}]
      /\ sent \in [Clients -> 0..MaxFrames] /\ MaxFrames \in Nat
  BY EventLoopAssumption DEF LoopInv, LoopTypes, ClientTypeOK, WireTypeOK
<1>f. frame[1] \in Clients
  BY EventLoopAssumption
<1>o. UNCHANGED <<frames, queue, running, unnotified, completed, results, write_buffer>>
  BY DEF ClientSends, ClientSendsOversized, ClientResets, ClientReads, dispatcherVars, poolVars,
         loopVars, serverVars
<1>1. CASE ClientSends(c) \/ ClientSendsOversized(c)
  <2>1. PICK x \in 0..MaxFrames : inbound' = [inbound EXCEPT ![c] = Append(inbound[c], x)]
    <3>1. CASE ClientSends(c)
      <4>1. sent[c] + 1 \in 0..MaxFrames
        BY <1>t, <3>1 DEF ClientSends
      <4> QED
        BY <3>1, <4>1 DEF ClientSends
    <3>2. CASE ClientSendsOversized(c)
      <4>1. 0 \in 0..MaxFrames
        BY <1>t
      <4> QED
        BY <3>2, <4>1 DEF ClientSendsOversized, Oversized
    <3> QED
      BY <1>1, <3>1, <3>2
  <2>2. \/ inbound'[frame[1]] = inbound[frame[1]]
        \/ frame[1] = c /\ inbound'[frame[1]] = Append(inbound[c], x)
    BY <1>t, <1>f, <2>1
  <2>3. \A i \in DOMAIN inbound[frame[1]] : /\ i \in DOMAIN inbound'[frame[1]]
                                            /\ inbound'[frame[1]][i] = inbound[frame[1]][i]
    <3>1. CASE frame[1] = c /\ inbound'[frame[1]] = Append(inbound[c], x)
      <4>1. \A i \in DOMAIN inbound[c] : /\ i \in DOMAIN Append(inbound[c], x)
                                         /\ Append(inbound[c], x)[i] = inbound[c][i]
        BY <1>t, AppendedPlace
      <4> QED
        BY <3>1, <4>1
    <3> QED
      BY <2>2, <3>1
  <2>4. AtInbound(frame, p) => AtInbound(frame, p)'
    BY <2>3 DEF AtInbound
  <2>5. UNCHANGED <<wire, received>>
    BY <1>1 DEF ClientSends, ClientSendsOversized
  <2> QED
    BY <1>o, <2>4, <2>5, PlacesStay DEF Held, AtSome
<1>2. CASE ClientResets(c)
  <2>1. frame[1] # c
    BY <1>2, <1>t, <1>f DEF ClientResets, Live
  <2>2. inbound'[frame[1]] = inbound[frame[1]] /\ UNCHANGED <<wire, received>>
    BY <1>2, <1>t, <1>f, <2>1 DEF ClientResets
  <2>3. AtInbound(frame, p) => AtInbound(frame, p)'
    BY <2>2 DEF AtInbound
  <2> QED
    BY <1>o, <2>2, <2>3, PlacesStay DEF Held, AtSome
<1>3. CASE ClientReads(c)
  <2>1. /\ wire[c] # <<>> /\ wire' = [wire EXCEPT ![c] = Tail(wire[c])]
        /\ received' = [received EXCEPT ![c] = Append(received[c], Head(wire[c]))]
        /\ UNCHANGED inbound
    BY <1>3 DEF ClientReads
  <2>2. Head(wire[c]) \in Frames /\ received'[c] = Append(received[c], Head(wire[c]))
    BY <1>t, <2>1, SeqParts
  <2>3. CASE AtWire(frame, p)
    <3>0. PICK d \in Clients : \E i \in DOMAIN wire[d] :
            wire[d][i] = frame /\ p = <<"wire", d, i>>
      BY <2>3 DEF AtWire
    <3>1. PICK i \in DOMAIN wire[d] : wire[d][i] = frame /\ p = <<"wire", d, i>>
      BY <3>0
    <3>2. CASE d # c
      <4>1. AtWire(frame, p)'
        BY <1>t, <2>1, <3>1, <3>2 DEF AtWire
      <4> QED
        BY <4>1 DEF Held, AtSome
    <3>3. CASE d = c /\ i = 1 /\ wire[c][i] = Head(wire[c])
      <4>1. PICK k : k = Len(received[c]) + 1
        OBVIOUS
      <4>2. k \in DOMAIN received'[c] /\ received'[c][k] = frame
        BY <1>t, <2>2, <3>1, <3>3, <4>1, PartPlaces
      <4>3. AtReceived(frame, <<"received", c, k>>)'
        BY <4>2 DEF AtReceived
      <4> QED
        BY <4>3 DEF Held, AtSome
    <3>4. CASE d = c /\ i - 1 \in DOMAIN Tail(wire[c]) /\ Tail(wire[c])[i - 1] = wire[c][i]
      <4>1. wire'[c] = Tail(wire[c])
        BY <1>t, <2>1
      <4>2. AtWire(frame, <<"wire", c, i - 1>>)'
        BY <3>1, <3>4, <4>1 DEF AtWire
      <4> QED
        BY <4>2 DEF Held, AtSome
    <3> QED
      BY <1>t, <3>1, <3>2, <3>3, <3>4, PartPlaces
  <2>4. CASE AtReceived(frame, p)
    <3>0. PICK d \in Clients : \E i \in DOMAIN received[d] :
            received[d][i] = frame /\ p = <<"received", d, i>>
      BY <2>4 DEF AtReceived
    <3>1. PICK i \in DOMAIN received[d] : received[d][i] = frame /\ p = <<"received", d, i>>
      BY <3>0
    <3>2. i \in DOMAIN received'[d] /\ received'[d][i] = frame
      <4>1. CASE d # c
        BY <1>t, <2>1, <3>1, <4>1
      <4>2. CASE d = c
        BY <1>t, <2>2, <3>1, <4>2, AppendedPlace
      <4> QED
        BY <4>1, <4>2
    <3>3. AtReceived(frame, p)'
      BY <3>1, <3>2 DEF AtReceived
    <3> QED
      BY <3>3 DEF Held, AtSome
  <2> QED
    BY <1>o, <2>1, <2>3, <2>4, PlacesStay DEF Held, AtSome
<1> QED
  BY <1>1, <1>2, <1>3

\* Closing a connection loses frames of its own client only.
LEMMA CloseKeepsFrames ==
    ASSUME DeliveryInv, ServerTables, NEW frame \in Frames, Live(frame[1])', NEW p,
           AtSome(frame, p), NEW fd \in Fds, connections[fd] # 0, CloseConnection(fd),
           UNCHANGED <<inbound, queue, running, unnotified, completed, results, wire, received>>,
           UNCHANGED frames \/ (ready_fd = fd /\ loop = "handling") \/ frames = <<>>
    PROVE  Held(frame)'
<1> USE DEF DeliveryInv
<1>t. write_buffer \in [Fds -> Seq(Frames)]
  BY DEF LoopInv, LoopTypes, TableTypeOK
<1>1. frame[1] # peer[fd]
  BY CloseEnds DEF Live
<1>2. CASE AtFrames(frame, p)
  <2>1. InSeq(frame, frames)
    BY <1>2 DEF AtFrames, InSeq
  <2>2. frame[1] = peer[ready_fd] /\ frames # <<>>
    BY <2>1, InEmpty DEF FramesOwned
  <2>3. UNCHANGED frames
    BY <1>1, <2>2
  <2> QED
    BY <1>2, <2>3, PlacesStay DEF Held, AtSome
<1>3. CASE AtBuffer(frame, p)
  <2>0. PICK g \in Fds : \E i \in DOMAIN write_buffer[g] :
          write_buffer[g][i] = frame /\ p = <<"write_buffer", g, i>>
    BY <1>3 DEF AtBuffer
  <2>1. frame[1] = peer[g]
    BY <2>0 DEF BuffersOwned, InSeq
  <2>2. write_buffer'[g] = write_buffer[g]
    BY <1>1, <1>t, <2>1 DEF CloseConnection
  <2>3. AtBuffer(frame, p)'
    BY <2>0, <2>2 DEF AtBuffer
  <2> QED
    BY <2>3 DEF Held, AtSome
<1> QED
  BY <1>2, <1>3, PlacesStay DEF Held, AtSome

\* A frame that is somewhere stays somewhere while its client lives.
LEMMA HeldKept ==
    ASSUME DeliveryInv, ServerTables, PipelineStands, Quiescent, "throw" \notin Faults,
           EventLoopNext, NEW frame \in Frames, Live(frame[1])', Held(frame)
    PROVE  Held(frame)'
<1> USE DEF DeliveryInv
<1>p. PICK p : AtSome(frame, p)
  BY DEF Held
<1>f. frame[1] \in Clients
  BY EventLoopAssumption
<1>1. CASE UNCHANGED placeVars
  BY <1>1, <1>p, PlacesStay DEF placeVars, AtSome, Held
<1>2. ASSUME NEW event \in batch, HandleReadable(event) PROVE Held(frame)'
  <2>1. /\ frames = <<>>
        /\ UNCHANGED <<queue, running, unnotified, completed, results, write_buffer, wire,
                       received>>
    BY <1>2 DEF HandleReadable, ClientEvent, Dispatching, dispatcherVars, poolVars, serverVars,
                LoopInv, LoopTypes, TablesMatch
  <2>2. ~AtFrames(frame, p)
    BY <2>1 DEF AtFrames
  <2> QED
    BY <1>2, <1>p, <2>1, <2>2, ReadKeepsFrames, PlacesStay DEF AtSome, Held
<1>3. ASSUME NEW event \in batch, HandleError(event) PROVE Held(frame)'
  BY <1>3, <1>p, CloseKeepsFrames DEF HandleError, ClientEvent, dispatcherVars, poolVars
<1>4. CASE SubmitRejected \/ CloseAfterRead \/ FlushFails
  <2>1. /\ loop = "handling" /\ CloseConnection(ready_fd)
        /\ UNCHANGED <<inbound, queue, running, unnotified, completed, results, wire, received>>
    BY <1>4
        DEF SubmitRejected, CloseAfterRead, FlushFails, HandlerCloses, dispatcherVars, poolVars
  <2>2. ready_fd \in Fds /\ connections[ready_fd] # 0
    BY <2>1, HandlerHasConnection DEF LoopInv
  <2> QED
    BY <1>p, <2>1, <2>2, CloseKeepsFrames
<1>5. CASE DestroyLoop
  BY <1>5, <1>f DEF DestroyLoop, Live
<1>6. CASE SubmitFrame \/ \E w \in Workers : PoolStep(w)
  BY <1>6, <1>p, PoolKeepsFrames
<1>7. CASE TakeResults \/ ApplyStale \/ ApplyQueues \/ ApplyFails
  BY <1>7, <1>p, ResultsKeepFrames
<1>8. CASE FlushWrites \/ UpdateFails
  BY <1>8, <1>p, FlushKeepsFrames
<1>9. CASE \E c \in Clients : \/ ClientSends(c) \/ ClientSendsOversized(c)
                              \/ ClientResets(c) \/ ClientReads(c)
  BY <1>9, <1>p, ClientsKeepFrames
<1> QED
  BY <1>1, <1>2, <1>3, <1>4, <1>5, <1>6, <1>7, <1>8, <1>9, PlaceChanges

\* Every frame a live client has sent is somewhere, the one it sends included.
LEMMA NoneLostKept ==
    ASSUME DeliveryInv, ServerTables, PipelineStands, Quiescent, NoneLost,
           "throw" \notin Faults, EventLoopNext
    PROVE  NoneLost'
<1> USE DEF DeliveryInv
<1> SUFFICES ASSUME NEW frame \in Frames, Live(frame[1])', frame[2] <= sent'[frame[1]]
             PROVE  Held(frame)'
  BY DEF NoneLost
<1> DEFINE c == frame[1]
<1>f. c \in Clients /\ frame[2] \in Nat \ {0} /\ frame = <<c, frame[2]>>
  BY EventLoopAssumption
<1>t. /\ inbound \in [Clients -> Seq(0..MaxFrames)] /\ inbound[c] \in Seq(0..MaxFrames)
      /\ sent \in [Clients -> 0..MaxFrames] /\ sent[c] \in Nat /\ MaxFrames \in Nat
      /\ ended \in [Clients -> {"no", "fin", "rst"}]
  BY <1>f, EventLoopAssumption DEF LoopInv, LoopTypes, ClientTypeOK
<1>1. CASE ClientSends(c)
  <2>1. /\ Live(c) /\ sent' = [sent EXCEPT ![c] = sent[c] + 1] /\ sent[c] < MaxFrames
        /\ inbound' = [inbound EXCEPT ![c] = Append(inbound[c], sent[c] + 1)]
    BY <1>1 DEF ClientSends, Writable, Live
  <2>2. CASE frame[2] <= sent[c]
    BY <2>1, <2>2, HeldKept DEF NoneLost
  <2>3. CASE frame[2] = sent[c] + 1
    <3>1. PICK k : k = Len(inbound[c]) + 1
      OBVIOUS
    <3>2. inbound'[c] = Append(inbound[c], frame[2]) /\ frame[2] \in 0..MaxFrames
      BY <1>t, <1>f, <2>1, <2>3
    <3>3. k \in DOMAIN inbound'[c] /\ inbound'[c][k] = frame[2]
      BY <1>t, <3>1, <3>2, PartPlaces
    <3>4. AtInbound(frame, <<"inbound", k>>)'
      BY <3>3 DEF AtInbound
    <3> QED
      BY <3>4 DEF Held, AtSome
  <2>4. sent'[c] = sent[c] + 1
    BY <1>f, <1>t, <2>1
  <2> QED
    BY <1>f, <1>t, <2>2, <2>3, <2>4
<1>2. CASE ~ClientSends(c)
  <2>1. sent'[c] = sent[c] /\ (ended'[c] # "rst" => ended[c] # "rst")
    <3>1. UNCHANGED <<sent, ended>> \/ \E d \in Clients : ClientStep(d)
      BY ClientChanges DEF clientVars, Accept, AcceptAddFails, ApplyFails, HandleError,
         HandleReadable, SubmitRejected, CloseAfterRead, FlushWrites, UpdateFails, FlushFails,
         DestroyLoop
    <3>2. ASSUME NEW d \in Clients, ClientStep(d)
          PROVE  sent'[c] = sent[c] /\ (ended'[c] # "rst" => ended[c] # "rst")
      <4>1. CASE ClientSends(d)
        <5>1. d # c
          BY <1>2, <4>1
        <5> QED
          BY <1>f, <1>t, <4>1, <5>1 DEF ClientSends
      <4>2. CASE ClientShuts(d)
        <5>1. UNCHANGED sent /\ ended' = [ended EXCEPT ![d] = "fin"] /\ ended[d] = "no"
          BY <4>2 DEF ClientShuts, Writable
        <5> QED
          BY <1>f, <1>t, <5>1
      <4>3. CASE ClientResets(d)
        BY <1>f, <1>t, <4>3 DEF ClientResets
      <4> QED
        BY <3>2, <4>1, <4>2, <4>3
            DEF ClientStep, ClientConnects, ClientSendsOversized, ClientReads
    <3> QED
      BY <3>1, <3>2
  <2>2. CASE link[c] = "new"
    BY <1>f, <2>1, <2>2 DEF Quiescent
  <2>3. CASE link[c] # "new"
    <3>1. Live(c)
      BY <1>f, <2>1, <2>3, ClosedStays DEF Live
    <3> QED
      BY <2>1, <3>1, HeldKept DEF NoneLost
  <2> QED
    BY <2>2, <2>3
<1> QED
  BY <1>1, <1>2

\* While its connection lives a frame that was sent has a place, unless a task threw.
LEMMA NoneLostHolds ==
    ASSUME "throw" \notin Faults
    PROVE  EventLoopSpec => []NoneLost
<1> DEFINE Inv == PipelineStands /\ Quiescent /\ NoneLost
<1>1. EventLoopInit => Inv
  <2> SUFFICES ASSUME EventLoopInit PROVE Inv
    OBVIOUS
  <2>1. PipelineStands
    <3>1. NoTask \notin ProcessingTasks
      BY DispatcherAssumption DEF ProcessingTasks
    <3>2. /\ queue = <<>> /\ completed = <<>> /\ results = <<>>
          /\ \A w \in Workers : running[w] = NoTask
      BY DEF EventLoopInit, DispatcherInit
    <3> QED
      BY <3>1, <3>2, InEmpty DEF PipelineStands, InPipeline
  <2>2. Quiescent /\ NoneLost
    BY EventLoopAssumption DEF EventLoopInit, DispatcherInit, Quiescent, NoneLost, Live
  <2> QED
    BY <2>1, <2>2
<1>2. DeliveryInv /\ ServerTables /\ Inv /\ [EventLoopNext]_vars => Inv'
  <2> SUFFICES ASSUME DeliveryInv, ServerTables, Inv, [EventLoopNext]_vars PROVE Inv'
    OBVIOUS
  <2>1. CASE EventLoopNext
    BY <2>1, PipelineStandsKept, QuiescentKept, NoneLostKept DEF DeliveryInv
  <2>2. CASE UNCHANGED vars
    <3>1. PipelineStands' /\ Quiescent'
      BY <2>2 DEF vars, dispatcherVars, poolVars, loopVars, serverVars, kernelVars, clientVars,
                  PipelineStands, InPipeline, Standing, Quiescent
    <3>2. UNCHANGED placeVars /\ UNCHANGED <<link, ended>>
      BY <2>2 DEF vars, dispatcherVars, poolVars, loopVars, serverVars, clientVars, placeVars
    <3>3. \A frame, p : AtSome(frame, p) => AtSome(frame, p)'
      BY <3>2, PlacesStay DEF AtSome, placeVars
    <3>4. NoneLost'
      BY <3>2, <3>3 DEF NoneLost, Live, Held, placeVars
    <3> QED
      BY <3>1, <3>4
  <2> QED
    BY <2>1, <2>2
<1> QED
  BY <1>1, <1>2, TablesHold, DeliveryInvariant, PTL DEF EventLoopSpec

\* As long as no task throws, the server answers every frame it can still answer: with the
\* queue full, results stale, events out of date or descriptors reused, a frame of a live
\* connection is never dropped on the way.
THEOREM FramesAreNotLost ==
    ASSUME "throw" \notin Faults
    PROVE  EventLoopSpec => []NeverLost
<1>1. LoopInv /\ NoneLost => NeverLost
  <2> SUFFICES ASSUME LoopInv, NoneLost, NEW c \in Clients, Live(c), NEW n \in 1..sent[c]
               PROVE  Places(<<c, n>>) # {}
    BY DEF NeverLost, Live
  <2>1. sent[c] \in 0..MaxFrames /\ MaxFrames \in Nat
    BY EventLoopAssumption DEF LoopInv, LoopTypes, ClientTypeOK
  <2>2. <<c, n>> \in Frames /\ n <= sent[c]
    BY <2>1, EventLoopAssumption
  <2>3. Held(<<c, n>>)
    BY <2>2 DEF NoneLost
  <2> QED
    BY <2>3, PlacesAre DEF Held
<1> QED
  BY <1>1, NoneLostHolds, LoopInvariant, PTL
-----------------------------------------------------------------------------
(* Only workers let the frames of a client overtake each other.            *)

\* The frame is at position i of the k-th stage, counted from the client's end as in Stages.
\* The workers have no order, so each is at position 1.
Stage(frame, k, i) ==
    \/ /\ k = 1 /\ i \in DOMAIN received[frame[1]] /\ received[frame[1]][i] = frame
    \/ /\ k = 2 /\ i \in DOMAIN wire[frame[1]] /\ wire[frame[1]][i] = frame
    \/ /\ k = 3
       /\ \E fd \in Fds : i \in DOMAIN write_buffer[fd] /\ write_buffer[fd][i] = frame
    \/ /\ k = 4 /\ i \in DOMAIN results /\ results[i].frame = frame
    \/ /\ k = 5 /\ i \in DOMAIN completed /\ completed[i].frame = frame
    \/ /\ k = 6 /\ i = 1
       /\ \E w \in Workers \ unnotified : running[w] # NoTask /\ running[w].frame = frame
    \/ /\ k = 7 /\ i \in DOMAIN queue /\ queue[i].frame = frame
    \/ /\ k = 8 /\ i \in DOMAIN frames /\ frames[i] = frame
    \/ /\ k = 9 /\ i \in DOMAIN inbound[frame[1]] /\ inbound[frame[1]][i] = frame[2]

\* The i-th position of stage k is ahead of the j-th of stage l.
Before(k, i, l, j) == k < l \/ (k = l /\ k # 6 /\ i < j)

\* A step after which f is ahead of g found f ahead already, or both with workers, or is the
\* one that sends g.  In each case g does not go back.
NoneOvertakes(c) ==
    \A f, g \in Frames : \A k, i, l, j \in Nat :
        f[1] = c /\ g[1] = c /\ Stage(f, k, i)' /\ Stage(g, l, j)' /\ Before(k, i, l, j) =>
            \/ \E k0, i0, l0, j0 \in Nat :
                 /\ Stage(f, k0, i0) /\ Stage(g, l0, j0) /\ l <= l0
                 /\ Before(k0, i0, l0, j0) \/ (k0 = 6 /\ l0 = 6)
            \/ f[2] < g[2] /\ \A l0, j0 : ~Stage(g, l0, j0)

\* The frames of c come from where the relation says, position i of stage k from i0 of k0.
Moves(c, from) ==
    \A frame \in Frames : \A k, i \in Nat :
        frame[1] = c /\ Stage(frame, k, i)' =>
            \E k0, i0 \in Nat : Stage(frame, k0, i0) /\ <<k, i, k0, i0>> \in from

\* Who is ahead by such moves was ahead, or with a worker while the other was with one.
KeepsOrder(from) ==
    \A k, i, k0, i0, l, j, l0, j0 \in Nat :
        <<k, i, k0, i0>> \in from /\ <<l, j, l0, j0>> \in from /\ Before(k, i, l, j) =>
            l <= l0 /\ (Before(k0, i0, l0, j0) \/ (k0 = 6 /\ l0 = 6))

\* Only a frame that has got to the workers is overtaken by a later one.
OvertakenLate ==
    \A f, g \in Frames : \A k, i, l, j \in Nat :
        f[1] = g[1] /\ g[2] < f[2] /\ Stage(f, k, i) /\ Stage(g, l, j) /\ Before(k, i, l, j) =>
            l <= 6

\* The stages are sequences, so positions are numbered from one.
LEMMA StageTypes ==
    ASSUME LoopInv
    PROVE  /\ results \in Seq(ProcessingTasks) /\ completed \in Seq(ProcessingTasks)
           /\ queue \in Seq(ProcessingTasks) /\ frames \in Seq(Frames)
           /\ running \in [Workers -> ProcessingTasks \cup {NoTask}]
           /\ inbound \in [Clients -> Seq(0..MaxFrames)]
           /\ write_buffer \in [Fds -> Seq(Frames)]
           /\ wire \in [Clients -> Seq(Frames)] /\ received \in [Clients -> Seq(Frames)]
           /\ \A frame \in Frames : frame[1] \in Clients
           /\ \A frame \in Frames : \A k, i : Stage(frame, k, i) => k \in 1..9 /\ i \in Nat \ {0}
<1>1. /\ results \in Seq(ProcessingTasks) /\ completed \in Seq(ProcessingTasks)
      /\ queue \in Seq(ProcessingTasks) /\ frames \in Seq(Frames)
      /\ running \in [Workers -> ProcessingTasks \cup {NoTask}]
      /\ inbound \in [Clients -> Seq(0..MaxFrames)]
  BY DEF LoopInv, LoopTypes, LoopTypeOK, ClientTypeOK, DispatcherInv, DispatcherTypeOK,
         ProcessingResults
<1>2. /\ write_buffer \in [Fds -> Seq(Frames)]
      /\ wire \in [Clients -> Seq(Frames)] /\ received \in [Clients -> Seq(Frames)]
  BY DEF LoopInv, LoopTypes, TableTypeOK, ClientTypeOK, WireTypeOK
<1>3. \A frame \in Frames : frame[1] \in Clients
  BY EventLoopAssumption
<1>4. \A S, s : s \in Seq(S) => DOMAIN s = 1..Len(s) /\ Len(s) \in Nat
  OBVIOUS
<1>5. /\ DOMAIN results \subseteq Nat \ {0} /\ DOMAIN completed \subseteq Nat \ {0}
      /\ DOMAIN queue \subseteq Nat \ {0} /\ DOMAIN frames \subseteq Nat \ {0}
  BY <1>1, <1>4
<1>6. /\ \A c \in Clients : DOMAIN inbound[c] \subseteq Nat \ {0}
      /\ \A c \in Clients : DOMAIN wire[c] \subseteq Nat \ {0}
      /\ \A c \in Clients : DOMAIN received[c] \subseteq Nat \ {0}
      /\ \A fd \in Fds : DOMAIN write_buffer[fd] \subseteq Nat \ {0}
  BY <1>1, <1>2, <1>4
<1>7. ASSUME NEW frame \in Frames, NEW k, NEW i, Stage(frame, k, i)
      PROVE  k \in 1..9 /\ i \in Nat \ {0}
  BY <1>3, <1>5, <1>6, <1>7 DEF Stage
<1> QED
  BY <1>1, <1>2, <1>3, <1>7

\* Stages of a step that leaves them unchanged, one by one.
LEMMA StagesStay ==
    ASSUME NEW frame, NEW k, NEW i, Stage(frame, k, i)'
    PROVE  /\ UNCHANGED received /\ k = 1 => Stage(frame, k, i)
           /\ UNCHANGED wire /\ k = 2 => Stage(frame, k, i)
           /\ UNCHANGED write_buffer /\ k = 3 => Stage(frame, k, i)
           /\ UNCHANGED results /\ k = 4 => Stage(frame, k, i)
           /\ UNCHANGED completed /\ k = 5 => Stage(frame, k, i)
           /\ UNCHANGED <<running, unnotified>> /\ k = 6 => Stage(frame, k, i)
           /\ UNCHANGED queue /\ k = 7 => Stage(frame, k, i)
           /\ UNCHANGED frames /\ k = 8 => Stage(frame, k, i)
           /\ UNCHANGED inbound /\ k = 9 => Stage(frame, k, i)
           /\ k \in 1..9
BY DEF Stage

\* A step that only takes frames out of the stages keeps the order of the rest.
LEMMA OrderStays ==
    ASSUME NEW c,
           \A frame \in Frames : \A k, i \in Nat :
               frame[1] = c /\ Stage(frame, k, i)' => Stage(frame, k, i)
    PROVE  NoneOvertakes(c)
<1> SUFFICES ASSUME NEW f \in Frames, NEW g \in Frames, f[1] = c, g[1] = c,
                    NEW k \in Nat, NEW l \in Nat, NEW i \in Nat, NEW j \in Nat,
                    Stage(f, k, i)', Stage(g, l, j)', Before(k, i, l, j)
             PROVE  \E k0, i0, l0, j0 \in Nat :
                      /\ Stage(f, k0, i0) /\ Stage(g, l0, j0) /\ l <= l0
                      /\ Before(k0, i0, l0, j0) \/ (k0 = 6 /\ l0 = 6)
  BY DEF NoneOvertakes
<1>1. Stage(f, k, i) /\ Stage(g, l, j) /\ l <= l
  OBVIOUS
<1> QED
  BY <1>1

\* A step that moves frames, from where the relation "from" says, keeps their order if
\* none overtakes another.
LEMMA OrderMoves ==
    ASSUME NEW c, NEW from, Moves(c, from), KeepsOrder(from)
    PROVE  NoneOvertakes(c)
<1> SUFFICES ASSUME NEW f \in Frames, NEW g \in Frames, f[1] = c, g[1] = c,
                    NEW k \in Nat, NEW l \in Nat, NEW i \in Nat, NEW j \in Nat,
                    Stage(f, k, i)', Stage(g, l, j)', Before(k, i, l, j)
             PROVE  \E k0, i0, l0, j0 \in Nat :
                      /\ Stage(f, k0, i0) /\ Stage(g, l0, j0) /\ l <= l0
                      /\ Before(k0, i0, l0, j0) \/ (k0 = 6 /\ l0 = 6)
  BY DEF NoneOvertakes
<1>1. PICK k0, i0 \in Nat : Stage(f, k0, i0) /\ <<k, i, k0, i0>> \in from
  BY DEF Moves
<1>2. PICK l0, j0 \in Nat : Stage(g, l0, j0) /\ <<l, j, l0, j0>> \in from
  BY DEF Moves
<1>3. l <= l0 /\ (Before(k0, i0, l0, j0) \/ (k0 = 6 /\ l0 = 6))
  BY <1>1, <1>2 DEF KeepsOrder
<1> QED
  BY <1>1, <1>2, <1>3

\* trySubmit() moves the first frame of the read behind the queue.
LEMMA SubmitKeepsOrder ==
    ASSUME LoopInv, SubmitFrame, NEW c
    PROVE  NoneOvertakes(c)
<1>1. /\ frames # <<>> /\ frames' = Tail(frames)
      /\ queue' = Append(queue, FrameTask) /\ FrameTask.frame = Head(frames)
      /\ UNCHANGED <<inbound, running, unnotified, completed, results, write_buffer, wire,
                     received>>
  BY DEF SubmitFrame, TrySubmit, Pool!Submit, FrameTask, serverVars, clientVars
<1>2. FrameTask \in ProcessingTasks
  <2>1. ready_fd \in Fds /\ connections[ready_fd] \in 1..MaxConnectionId
    BY HandlerHasConnection DEF SubmitFrame, LoopInv
  <2>2. Head(frames) \in Frames
    BY <1>1, StageTypes, SeqParts
  <2> QED
    BY <2>1, <2>2 DEF FrameTask, ProcessingTasks
<1> DEFINE len == Len(queue)
           from == {m \in Nat \X Nat \X Nat \X Nat :
                      \/ m[1] \notin {7, 8} /\ m[3] = m[1] /\ m[4] = m[2]
                      \/ m[1] = 7 /\ m[2] <= len /\ m[3] = 7 /\ m[4] = m[2]
                      \/ m[1] = 7 /\ m[2] = len + 1 /\ m[3] = 8 /\ m[4] = 1
                      \/ m[1] = 8 /\ m[3] = 8 /\ m[4] = m[2] + 1 /\ m[2] > 0}
<1>t. len \in Nat
  BY StageTypes
<1>3. ASSUME NEW frame \in Frames, NEW k \in Nat, NEW i \in Nat, Stage(frame, k, i)'
      PROVE  \E k0, i0 \in Nat : Stage(frame, k0, i0) /\ <<k, i, k0, i0>> \in from
  <2>1. k \in 1..9
    BY <1>3, StagesStay
  <2>2. CASE k \notin {7, 8}
    <3>1. Stage(frame, k, i)
      BY <1>1, <1>3, <2>1, <2>2, StagesStay
    <3> QED
      BY <2>2, <3>1
  <2>3. CASE k = 7
    <3>1. i \in DOMAIN queue' /\ queue'[i].frame = frame
      BY <1>3, <2>3 DEF Stage
    <3>2. CASE i \in DOMAIN queue /\ queue'[i] = queue[i]
      <4>1. Stage(frame, 7, i) /\ i <= len
        BY <3>1, <3>2, StageTypes DEF Stage
      <4> QED
        BY <2>3, <4>1
    <3>3. CASE i = len + 1 /\ queue'[i] = FrameTask
      <4>1. 1 \in DOMAIN frames /\ frames[1] = frame
        BY <1>1, <3>1, <3>3, PartIndices, StageTypes
      <4>2. Stage(frame, 8, 1)
        BY <4>1 DEF Stage
      <4> QED
        BY <2>3, <3>3, <4>2
    <3>4. \/ i \in DOMAIN queue /\ queue'[i] = queue[i]
          \/ i = len + 1 /\ queue'[i] = FrameTask
      BY <1>1, <1>2, <3>1, PartIndices, StageTypes
    <3> QED
      BY <3>2, <3>3, <3>4
  <2>4. CASE k = 8
    <3>1. i \in DOMAIN Tail(frames) /\ Tail(frames)[i] = frame
      BY <1>1, <1>3, <2>4 DEF Stage
    <3>2. i \in Nat \ {0} /\ i + 1 \in DOMAIN frames /\ frames[i + 1] = frame
      BY <1>1, <3>1, PartIndices, StageTypes
    <3>3. Stage(frame, 8, i + 1)
      BY <3>2 DEF Stage
    <3> QED
      BY <2>4, <3>2, <3>3
  <2> QED
    BY <2>2, <2>3, <2>4
<1>4. KeepsOrder(from)
  <2> HIDE DEF len
  <2> QED
    BY <1>t DEF KeepsOrder, Before
<1> HIDE DEF from
<1> QED
  BY <1>3, <1>4, OrderMoves DEF Moves

\* A worker takes the first task of the queue.
LEMMA StartKeepsOrder ==
    ASSUME LoopInv, NEW w \in Workers, PoolStep(w), StartTask(w), NEW c
    PROVE  NoneOvertakes(c)
<1>1. /\ queue # <<>> /\ queue' = Tail(queue)
      /\ running' = [running EXCEPT ![w] = Head(queue)]
      /\ UNCHANGED <<inbound, frames, unnotified, completed, results, write_buffer, wire,
                     received>>
  BY DEF PoolStep, StartTask, Pool!Start, loopVars, serverVars, clientVars
<1> DEFINE from == {m \in Nat \X Nat \X Nat \X Nat :
                      \/ m[1] # 7 /\ m[3] = m[1] /\ m[4] = m[2]
                      \/ m[1] = 6 /\ m[2] = 1 /\ m[3] = 7 /\ m[4] = 1
                      \/ m[1] = 7 /\ m[3] = 7 /\ m[4] = m[2] + 1 /\ m[2] > 0}
<1>3. ASSUME NEW frame \in Frames, NEW k \in Nat, NEW i \in Nat, Stage(frame, k, i)'
      PROVE  \E k0, i0 \in Nat : Stage(frame, k0, i0) /\ <<k, i, k0, i0>> \in from
  <2>1. k \in 1..9
    BY <1>3, StagesStay
  <2>2. CASE Stage(frame, k, i) /\ k # 7
    BY <2>2
  <2>3. CASE k = 6 /\ ~Stage(frame, k, i)
    <3>1. PICK v \in Workers \ unnotified : running'[v] # NoTask /\ running'[v].frame = frame
      BY <1>1, <1>3, <2>3 DEF Stage
    <3>2. i = 1 /\ ~(running[v] # NoTask /\ running[v].frame = frame)
      BY <1>3, <2>3 DEF Stage
    <3>3. running'[v] = Head(queue)
      BY <1>1, <3>1, <3>2, StageTypes
    <3>4. 1 \in DOMAIN queue /\ queue[1].frame = frame
      BY <1>1, <3>1, <3>3, PartIndices, StageTypes
    <3>5. Stage(frame, 7, 1)
      BY <3>4 DEF Stage
    <3> QED
      BY <2>3, <3>2, <3>5
  <2>4. CASE k = 7
    <3>1. i \in DOMAIN Tail(queue) /\ Tail(queue)[i].frame = frame
      BY <1>1, <1>3, <2>4 DEF Stage
    <3>2. i \in Nat \ {0} /\ i + 1 \in DOMAIN queue /\ queue[i + 1].frame = frame
      BY <1>1, <3>1, PartIndices, StageTypes
    <3>3. Stage(frame, 7, i + 1)
      BY <3>2 DEF Stage
    <3> QED
      BY <2>4, <3>2, <3>3
  <2>5. k \notin {6, 7} => Stage(frame, k, i)
    BY <1>1, <1>3, <2>1, StagesStay
  <2> HIDE DEF from
  <2> QED
    BY <2>2, <2>3, <2>4, <2>5
<1>4. KeepsOrder(from)
  BY DEF KeepsOrder, Before
<1> HIDE DEF from
<1> QED
  BY <1>3, <1>4, OrderMoves DEF Moves

\* publish() puts the result behind those completed before.  Here, and here only, a frame
\* passes another: one that a worker still has.
LEMMA PublishKeepsOrder ==
    ASSUME LoopInv, NEW w \in Workers, PoolStep(w), Publish(w), NEW c
    PROVE  NoneOvertakes(c)
<1>1. /\ running[w] # NoTask /\ w \notin unnotified
      /\ completed' = Append(completed, running[w]) /\ unnotified' = unnotified \cup {w}
      /\ UNCHANGED <<inbound, frames, queue, running, results, write_buffer, wire, received>>
  BY DEF PoolStep, Publish, poolVars, loopVars, serverVars, clientVars
<1> DEFINE len == Len(completed)
           from == {m \in Nat \X Nat \X Nat \X Nat :
                      \/ m[1] # 5 /\ m[3] = m[1] /\ m[4] = m[2]
                      \/ m[1] = 5 /\ m[2] <= len /\ m[3] = 5 /\ m[4] = m[2]
                      \/ m[1] = 5 /\ m[2] = len + 1 /\ m[3] = 6 /\ m[4] = 1}
<1>t. len \in Nat
  BY StageTypes
<1>3. ASSUME NEW frame \in Frames, NEW k \in Nat, NEW i \in Nat, Stage(frame, k, i)'
      PROVE  \E k0, i0 \in Nat : Stage(frame, k0, i0) /\ <<k, i, k0, i0>> \in from
  <2>1. k \in 1..9
    BY <1>3, StagesStay
  <2>2. CASE k # 5
    <3>1. Stage(frame, k, i)
      <4>1. CASE k = 6
        BY <1>1, <1>3, <4>1 DEF Stage
      <4> QED
        BY <1>1, <1>3, <2>1, <2>2, <4>1, StagesStay
    <3> QED
      BY <2>2, <3>1
  <2>4. CASE k = 5
    <3>1. i \in DOMAIN completed' /\ completed'[i].frame = frame
      BY <1>3, <2>4 DEF Stage
    <3>2. CASE i \in DOMAIN completed /\ completed'[i] = completed[i]
      <4>1. Stage(frame, 5, i) /\ i <= len
        BY <3>1, <3>2, StageTypes DEF Stage
      <4> QED
        BY <2>4, <4>1
    <3>3. CASE i = len + 1 /\ completed'[i] = running[w]
      <4>1. Stage(frame, 6, 1)
        BY <1>1, <3>1, <3>3 DEF Stage
      <4> QED
        BY <2>4, <3>3, <4>1
    <3>4. running[w] \in ProcessingTasks
      BY <1>1, StageTypes
    <3>5. \/ i \in DOMAIN completed /\ completed'[i] = completed[i]
          \/ i = len + 1 /\ completed'[i] = running[w]
      BY <1>1, <3>1, <3>4, PartIndices, StageTypes
    <3> QED
      BY <3>2, <3>3, <3>5
  <2> QED
    BY <2>2, <2>4
<1>4. KeepsOrder(from)
  <2> HIDE DEF len
  <2> QED
    BY <1>t DEF KeepsOrder, Before
<1> HIDE DEF from
<1> QED
  BY <1>3, <1>4, OrderMoves DEF Moves

\* takeCompleted() hands the results over in their order.
LEMMA TakeKeepsOrder ==
    ASSUME TakeResults, NEW c
    PROVE  NoneOvertakes(c)
<1>1. /\ results' = completed /\ completed' = <<>>
      /\ UNCHANGED <<inbound, frames, queue, running, unnotified, write_buffer, wire, received>>
  BY DEF TakeResults, TakeCompleted, poolVars, serverVars, clientVars
<1> DEFINE from == {m \in Nat \X Nat \X Nat \X Nat :
                      \/ m[1] \notin {4, 5} /\ m[3] = m[1] /\ m[4] = m[2]
                      \/ m[1] = 4 /\ m[3] = 5 /\ m[4] = m[2]}
<1>2. ASSUME NEW frame \in Frames, NEW k \in Nat, NEW i \in Nat, Stage(frame, k, i)'
      PROVE  \E k0, i0 \in Nat : Stage(frame, k0, i0) /\ <<k, i, k0, i0>> \in from
  <2>1. k \in 1..9 /\ k # 5
    BY <1>1, <1>2 DEF Stage
  <2>2. CASE k # 4
    <3>1. Stage(frame, k, i)
      BY <1>1, <1>2, <2>1, <2>2, StagesStay
    <3> QED
      BY <2>1, <2>2, <3>1
  <2>3. CASE k = 4
    <3>1. Stage(frame, 5, i)
      BY <1>1, <1>2, <2>3 DEF Stage
    <3> QED
      BY <2>3, <3>1
  <2> QED
    BY <2>2, <2>3
<1>3. KeepsOrder(from)
  BY DEF KeepsOrder, Before
<1> HIDE DEF from
<1> QED
  BY <1>2, <1>3, OrderMoves DEF Moves

\* The responses waiting for a client are in the buffer of its own connection.
LEMMA OneBuffer ==
    ASSUME ServerTables, BuffersOwned, NEW fd \in Fds, connections[fd] # 0,
           NEW frame \in Frames, frame[1] = peer[fd],
           NEW other \in Fds, InSeq(frame, write_buffer[other])
    PROVE  other = fd
<1>1. frame[1] = peer[other]
  BY DEF BuffersOwned
<1>2. write_buffer[other] # <<>>
  BY InEmpty
<1>3. connections[other] # 0
  BY <1>2 DEF ServerTables, BuffersMatch
<1> QED
  BY <1>1, <1>3 DEF ServerTables, PeersOpen

\* A result that is dropped leaves the others in their order.
LEMMA DroppedResultKeepsOrder ==
    ASSUME LoopInv, ApplyStale \/ ApplyFails, NEW c
    PROVE  NoneOvertakes(c)
<1>1. /\ results # <<>> /\ results' = Tail(results)
      /\ UNCHANGED <<inbound, frames, queue, running, unnotified, completed, wire, received>>
  BY DEF ApplyStale, ApplyFails, Applying, dispatcherVars, poolVars, clientVars
<1>2. \A fd \in Fds : write_buffer'[fd] = write_buffer[fd] \/ write_buffer'[fd] = <<>>
  BY StageTypes DEF ApplyStale, ApplyFails, CloseConnection, serverVars
<1> DEFINE from == {m \in Nat \X Nat \X Nat \X Nat :
                      \/ m[1] # 4 /\ m[3] = m[1] /\ m[4] = m[2]
                      \/ m[1] = 4 /\ m[3] = 4 /\ m[4] = m[2] + 1}
<1>3. ASSUME NEW frame \in Frames, NEW k \in Nat, NEW i \in Nat, Stage(frame, k, i)'
      PROVE  \E k0, i0 \in Nat : Stage(frame, k0, i0) /\ <<k, i, k0, i0>> \in from
  <2>1. k \in 1..9
    BY <1>3, StagesStay
  <2>2. CASE k # 4
    <3>1. Stage(frame, k, i)
      <4>1. CASE k = 3
        BY <1>2, <1>3, <4>1 DEF Stage
      <4> QED
        BY <1>1, <1>3, <2>1, <2>2, <4>1, StagesStay
    <3> QED
      BY <2>2, <3>1
  <2>3. CASE k = 4
    <3>1. i \in DOMAIN Tail(results) /\ Tail(results)[i].frame = frame
      BY <1>1, <1>3, <2>3 DEF Stage
    <3>2. i + 1 \in DOMAIN results /\ results[i + 1].frame = frame
      BY <1>1, <3>1, PartIndices, StageTypes
    <3>3. Stage(frame, 4, i + 1)
      BY <3>2 DEF Stage
    <3> QED
      BY <2>3, <3>3
  <2> QED
    BY <2>2, <2>3
<1>4. KeepsOrder(from)
  BY DEF KeepsOrder, Before
<1> HIDE DEF from
<1> QED
  BY <1>3, <1>4, OrderMoves DEF Moves

\* queueFrame() puts the first result behind the responses of its connection.
LEMMA ApplyKeepsOrder ==
    ASSUME DeliveryInv, ServerTables, ApplyQueues, NEW c
    PROVE  NoneOvertakes(c)
<1> DEFINE fd == Head(results).fd
           item == Head(results).frame
           len == Len(write_buffer[fd])
<1>l. LoopInv
  BY DEF DeliveryInv
<1>1. /\ results # <<>> /\ results' = Tail(results)
      /\ write_buffer' = [write_buffer EXCEPT ![fd] = Append(write_buffer[fd], item)]
      /\ UNCHANGED <<inbound, frames, queue, running, unnotified, completed, wire, received>>
  BY DEF ApplyQueues, Applying, dispatcherVars, poolVars, clientVars
<1>2. fd \in Fds /\ item \in Frames /\ Head(results) \in ProcessingTasks
  BY <1>1, <1>l, HeadOfResults, SeqParts, StageTypes DEF LoopInv, LoopTypes
<1>3. connections[fd] # 0 /\ item[1] = peer[fd]
  <2>1. connections[fd] = Head(results).id
    BY DEF ApplyQueues
  <2>2. InSeq(Head(results), results)
    BY <1>1, <1>l, InParts, StageTypes
  <2>3. Owned(Head(results))
    BY <1>2, <2>2 DEF DeliveryInv, PipelineOwned, InPipeline
  <2>4. Head(results).id # 0
    BY <1>2 DEF ProcessingTasks
  <2> QED
    BY <2>1, <2>3, <2>4 DEF Owned
<1>4. 1 \in DOMAIN results /\ Head(results) = results[1]
  BY <1>1, <1>l, PartIndices, StageTypes
<1>t. write_buffer[fd] \in Seq(Frames) /\ len \in Nat
  BY <1>2, <1>l, StageTypes
<1>5. /\ write_buffer'[fd] = Append(write_buffer[fd], item)
      /\ \A g \in Fds : g # fd => write_buffer'[g] = write_buffer[g]
  BY <1>1, <1>2, <1>l, StageTypes
<1>6. \A i \in DOMAIN write_buffer'[fd] :
        \/ i \in DOMAIN write_buffer[fd] /\ i <= len /\ write_buffer'[fd][i] = write_buffer[fd][i]
        \/ i = len + 1 /\ write_buffer'[fd][i] = item
  BY <1>2, <1>5, <1>t
<1>7. ASSUME NEW frame \in Frames, NEW i \in Nat, Stage(frame, 4, i)'
      PROVE  i > 0 /\ Stage(frame, 4, i + 1)
  <2>1. i \in DOMAIN Tail(results) /\ Tail(results)[i].frame = frame
    BY <1>1, <1>7 DEF Stage
  <2>2. i > 0 /\ i + 1 \in DOMAIN results /\ results[i + 1].frame = frame
    BY <1>1, <1>l, <2>1, PartIndices, StageTypes
  <2> QED
    BY <2>2 DEF Stage
<1>8. ASSUME NEW frame \in Frames, NEW k \in Nat, NEW i \in Nat, Stage(frame, k, i)',
             k \notin {3, 4}
      PROVE  Stage(frame, k, i)
  BY <1>1, <1>8, StagesStay
<1>9. ASSUME NEW frame \in Frames, NEW i \in Nat, Stage(frame, 3, i)'
      PROVE  \/ Stage(frame, 3, i) /\ (frame[1] = item[1] => i <= len)
             \/ i = len + 1 /\ Stage(frame, 4, 1) /\ frame = item
  <2>1. PICK g \in Fds : i \in DOMAIN write_buffer'[g] /\ write_buffer'[g][i] = frame
    BY <1>9 DEF Stage
  <2>2. CASE g # fd
    <3>1. i \in DOMAIN write_buffer[g] /\ write_buffer[g][i] = frame
      BY <1>5, <2>1, <2>2
    <3>2. InSeq(frame, write_buffer[g])
      BY <3>1 DEF InSeq
    <3>3. frame[1] # item[1]
      BY <1>2, <1>3, <2>2, <3>2, OneBuffer DEF DeliveryInv
    <3> QED
      BY <3>1, <3>3 DEF Stage
  <2>3. CASE g = fd
    <3>1. CASE /\ i \in DOMAIN write_buffer[fd] /\ i <= len
               /\ write_buffer'[fd][i] = write_buffer[fd][i]
      BY <1>2, <2>1, <2>3, <3>1 DEF Stage
    <3>2. CASE i = len + 1 /\ write_buffer'[fd][i] = item
      <4>1. frame = item /\ results[1].frame = frame
        BY <1>4, <2>1, <2>3, <3>2
      <4> QED
        BY <1>4, <3>2, <4>1 DEF Stage
    <3> QED
      BY <1>6, <2>1, <2>3, <3>1, <3>2
  <2> QED
    BY <2>2, <2>3
<1> HIDE DEF fd, item, len
<1> DEFINE stays == {m \in Nat \X Nat \X Nat \X Nat :
                       \/ m[1] # 4 /\ m[3] = m[1] /\ m[4] = m[2]
                       \/ m[1] = 4 /\ m[3] = 4 /\ m[4] = m[2] + 1}
           from == {m \in Nat \X Nat \X Nat \X Nat :
                      \/ m[1] \notin {3, 4} /\ m[3] = m[1] /\ m[4] = m[2]
                      \/ m[1] = 3 /\ m[2] <= len /\ m[3] = 3 /\ m[4] = m[2]
                      \/ m[1] = 3 /\ m[2] = len + 1 /\ m[3] = 4 /\ m[4] = 1
                      \/ m[1] = 4 /\ m[3] = 4 /\ m[4] = m[2] + 1 /\ m[2] > 0}
<1>10. CASE c # item[1]
  <2>1. ASSUME NEW frame \in Frames, NEW k \in Nat, NEW i \in Nat, frame[1] = c,
               Stage(frame, k, i)'
        PROVE  \E k0, i0 \in Nat : Stage(frame, k0, i0) /\ <<k, i, k0, i0>> \in stays
    <3>1. CASE k # 4
      <4>1. Stage(frame, k, i)
        BY <1>8, <1>9, <1>10, <2>1, <3>1
      <4> QED
        BY <3>1, <4>1
    <3>2. CASE k = 4
      <4>1. Stage(frame, 4, i + 1)
        BY <1>7, <2>1, <3>2
      <4> QED
        BY <3>2, <4>1
    <3> QED
      BY <3>1, <3>2
  <2>2. KeepsOrder(stays)
    BY DEF KeepsOrder, Before
  <2> HIDE DEF stays
  <2> QED
    BY <2>1, <2>2, OrderMoves DEF Moves
<1>11. CASE c = item[1]
  <2>1. ASSUME NEW frame \in Frames, NEW k \in Nat, NEW i \in Nat, frame[1] = c,
               Stage(frame, k, i)'
        PROVE  \E k0, i0 \in Nat : Stage(frame, k0, i0) /\ <<k, i, k0, i0>> \in from
    <3>1. CASE k \notin {3, 4}
      <4>1. Stage(frame, k, i)
        BY <1>8, <2>1, <3>1
      <4> QED
        BY <3>1, <4>1
    <3>2. CASE k = 4
      <4>1. i > 0 /\ Stage(frame, 4, i + 1)
        BY <1>7, <2>1, <3>2
      <4> QED
        BY <3>2, <4>1
    <3>3. CASE k = 3
      <4>1. \/ Stage(frame, 3, i) /\ i <= len
            \/ i = len + 1 /\ Stage(frame, 4, 1)
        BY <1>9, <1>11, <2>1, <3>3
      <4> QED
        BY <1>t, <3>3, <4>1
    <3> QED
      BY <3>1, <3>2, <3>3
  <2>2. KeepsOrder(from)
    <3>1. len \in Nat
      BY <1>t
    <3> QED
      BY <3>1 DEF KeepsOrder, Before
  <2> HIDE DEF from
  <2> QED
    BY <2>1, <2>2, OrderMoves DEF Moves
<1> QED
  BY <1>10, <1>11

\* readAvailable() takes a client's frames out of its socket in order, when all frames of
\* the last read have been submitted.
LEMMA ReadKeepsOrder ==
    ASSUME LoopInv, NEW event \in batch, HandleReadable(event), NEW c \in Clients
    PROVE  NoneOvertakes(c)
<1> DEFINE d == peer[event.fd]
           data == inbound[d]
<1>1. event.fd \in Fds /\ connections[event.fd] # 0
  BY DEF HandleReadable, ClientEvent
<1>2. d \in Clients
  BY <1>1 DEF LoopInv, LoopTypes, TablesMatch, TableTypeOK
<1>3. PICK n \in Decoded(data) :
        /\ frames' = [i \in 1..n |-> <<d, data[i]>>]
        /\ inbound' = [inbound EXCEPT ![d] = SubSeq(data, n + 2, Len(data))]
  BY DEF HandleReadable
<1>4. /\ inbound \in [Clients -> Seq(0..MaxFrames)] /\ data \in Seq(0..MaxFrames)
      /\ n \in 0..Len(data) /\ Len(data) \in Nat
  BY <1>2, StageTypes DEF Decoded
<1>u. UNCHANGED <<queue, running, unnotified, completed, results, write_buffer, wire, received>>
  BY DEF HandleReadable, dispatcherVars, poolVars, serverVars
<1> HIDE DEF d, data
<1>s. ASSUME NEW frame \in Frames, NEW k \in Nat, NEW i \in Nat, Stage(frame, k, i)',
             k \notin {8, 9}
      PROVE  Stage(frame, k, i)
  BY <1>u, <1>s, StagesStay
<1>5. CASE c # d
  <2>1. ASSUME NEW frame \in Frames, NEW k \in Nat, NEW i \in Nat, frame[1] = c,
               Stage(frame, k, i)'
        PROVE  Stage(frame, k, i)
    <3>1. k # 8
      BY <1>3, <1>4, <1>5, <2>1 DEF Stage
    <3>2. CASE k = 9
      <4>1. inbound'[frame[1]] = inbound[frame[1]]
        BY <1>3, <1>4, <1>5, <2>1
      <4> QED
        BY <2>1, <3>2, <4>1 DEF Stage
    <3> QED
      BY <1>s, <2>1, <3>1, <3>2
  <2> QED
    BY <2>1, OrderStays
<1>6. CASE c = d
  <2> DEFINE from == {m \in Nat \X Nat \X Nat \X Nat :
                        \/ m[1] < 8 /\ m[3] = m[1] /\ m[4] = m[2]
                        \/ m[1] = 8 /\ m[2] <= n /\ m[3] = 9 /\ m[4] = m[2]
                        \/ m[1] = 9 /\ m[3] = 9 /\ m[4] = m[2] + n + 1}
  <2>1. ASSUME NEW frame \in Frames, NEW k \in Nat, NEW i \in Nat, frame[1] = c,
               Stage(frame, k, i)'
        PROVE  \E k0, i0 \in Nat : Stage(frame, k0, i0) /\ <<k, i, k0, i0>> \in from
    <3>1. k \in 1..9
      BY <2>1, StagesStay
    <3>2. CASE k < 8
      <4>1. Stage(frame, k, i)
        BY <1>s, <2>1, <3>1, <3>2
      <4> QED
        BY <3>2, <4>1
    <3>3. CASE k = 8
      <4>1. i \in 1..n /\ <<d, data[i]>> = frame
        BY <1>3, <2>1, <3>3 DEF Stage
      <4>2. i \in DOMAIN data /\ data[i] = frame[2] /\ i <= n
        BY <1>4, <4>1
      <4>3. Stage(frame, 9, i)
        BY <1>6, <2>1, <4>2 DEF Stage, data
      <4> QED
        BY <3>3, <4>2, <4>3
    <3>4. CASE k = 9
      <4>1. inbound'[d] = SubSeq(data, n + 2, Len(data))
        BY <1>2, <1>3, <1>4
      <4>2. i \in DOMAIN inbound'[d] /\ inbound'[d][i] = frame[2]
        BY <1>6, <2>1, <3>4 DEF Stage
      <4>3. i + n + 1 \in DOMAIN data /\ data[i + n + 1] = frame[2] /\ i + n + 1 \in Nat
        BY <1>4, <4>1, <4>2
      <4>4. Stage(frame, 9, i + n + 1)
        BY <1>6, <2>1, <4>3 DEF Stage, data
      <4> QED
        BY <3>4, <4>3, <4>4
    <3> QED
      BY <3>1, <3>2, <3>3, <3>4
  <2>2. KeepsOrder(from)
    <3>1. n \in Nat
      BY <1>4
    <3> QED
      BY <3>1 DEF KeepsOrder, Before
  <2> HIDE DEF from
  <2> QED
    BY <2>1, <2>2, OrderMoves DEF Moves
<1> QED
  BY <1>5, <1>6

\* flushWrites() moves the first responses of the buffer behind those on the wire.
LEMMA FlushKeepsOrder ==
    ASSUME DeliveryInv, ServerTables, FlushWrites \/ UpdateFails, NEW c \in Clients
    PROVE  NoneOvertakes(c)
<1> DEFINE d == peer[ready_fd]
           n == Flushable(ready_fd)
           buffer == write_buffer[ready_fd]
           front == SubSeq(buffer, 1, n)
           rest == SubSeq(buffer, n + 1, Len(buffer))
           len == Len(wire[d])
<1>l. LoopInv
  BY DEF DeliveryInv
<1>1. /\ Flushes /\ loop = "handling" /\ frames = <<>> /\ frames' = <<>>
      /\ UNCHANGED <<inbound, queue, running, unnotified, completed, results, received>>
  BY DEF FlushWrites, UpdateFails, Flushes, HandlerCloses, HandlerReturns, dispatcherVars,
         poolVars
<1>2. ready_fd \in Fds /\ connections[ready_fd] # 0 /\ d \in Clients
  BY <1>1, <1>l, HandlerHasConnection DEF LoopInv
<1>t. /\ wire[d] \in Seq(Frames) /\ len \in Nat /\ buffer \in Seq(Frames) /\ Len(buffer) \in Nat
  BY <1>2, <1>l, StageTypes
<1>3. n \in 0..Len(buffer)
  <2>1. len <= SendBuffer
    BY <1>2, <1>l DEF LoopInv, LoopTypes, ClientTypeOK, WireTypeOK
  <2> QED
    BY <1>t, <2>1, FlushableBounds
<1>4. /\ wire'[d] = wire[d] \o front
      /\ \A e \in Clients : e # d => wire'[e] = wire[e]
  BY <1>1, <1>2, <1>l, StageTypes DEF Flushes
<1>5. /\ write_buffer'[ready_fd] = rest \/ write_buffer'[ready_fd] = <<>>
      /\ \A g \in Fds : g # ready_fd => write_buffer'[g] = write_buffer[g]
  BY <1>2, <1>l, StageTypes DEF FlushWrites, UpdateFails, HandlerCloses, CloseConnection
<1> HIDE DEF d, n, buffer
<1>6. /\ front \in Seq(Frames)
      /\ \A i \in DOMAIN front : i \in DOMAIN buffer /\ i \in Nat /\ front[i] = buffer[i] /\ i <= n
      /\ \A i \in DOMAIN rest : /\ i \in Nat \ {0} /\ i + n \in DOMAIN buffer
                                /\ rest[i] = buffer[i + n]
  BY <1>3, <1>t
<1> HIDE DEF front, rest
<1>n. n \in Nat
  BY <1>3, <1>t
<1>s. ASSUME NEW frame \in Frames, NEW k \in Nat, NEW i \in Nat, Stage(frame, k, i)',
             k \notin {2, 3}
      PROVE  Stage(frame, k, i)
  BY <1>1, <1>s, StagesStay
<1>b. ASSUME NEW frame \in Frames, NEW i \in Nat, Stage(frame, 3, i)'
      PROVE  \/ Stage(frame, 3, i) /\ frame[1] # d
             \/ i > 0 /\ frame[1] = d /\ Stage(frame, 3, i + n)
  <2>1. PICK g \in Fds : i \in DOMAIN write_buffer'[g] /\ write_buffer'[g][i] = frame
    BY <1>b DEF Stage
  <2>2. CASE g # ready_fd
    <3>1. i \in DOMAIN write_buffer[g] /\ write_buffer[g][i] = frame
      BY <1>5, <2>1, <2>2
    <3>2. InSeq(frame, write_buffer[g])
      BY <3>1 DEF InSeq
    <3>3. frame[1] # d
      BY <1>2, <2>2, <3>2, OneBuffer DEF DeliveryInv, d
    <3> QED
      BY <3>1, <3>3 DEF Stage
  <2>3. CASE g = ready_fd
    <3>1. i \in DOMAIN rest /\ rest[i] = frame
      BY <1>5, <2>1, <2>3
    <3>2. i > 0 /\ i + n \in DOMAIN buffer /\ buffer[i + n] = frame
      BY <1>6, <3>1
    <3>3. Stage(frame, 3, i + n)
      BY <1>2, <3>2 DEF Stage, buffer
    <3>4. InSeq(frame, buffer)
      BY <3>2 DEF InSeq
    <3>5. frame[1] = d
      BY <1>2, <3>4 DEF DeliveryInv, BuffersOwned, buffer, d
    <3> QED
      BY <3>2, <3>3, <3>5
  <2> QED
    BY <2>2, <2>3
<1>w. ASSUME NEW frame \in Frames, NEW i \in Nat, Stage(frame, 2, i)'
      PROVE  \/ Stage(frame, 2, i) /\ (frame[1] = d => i <= len)
             \/ /\ frame[1] = d
                /\ \E j \in Nat : i = len + j /\ j <= n /\ Stage(frame, 3, j)
  <2>1. i \in DOMAIN wire'[frame[1]] /\ wire'[frame[1]][i] = frame /\ frame[1] \in Clients
    BY <1>w, <1>l, StageTypes DEF Stage
  <2>2. CASE frame[1] # d
    <3>1. wire'[frame[1]] = wire[frame[1]]
      BY <1>4, <2>1, <2>2
    <3> QED
      BY <2>1, <2>2, <3>1 DEF Stage
  <2>3. CASE frame[1] = d
    <3>1. \/ i \in DOMAIN wire[d] /\ wire'[d][i] = wire[d][i]
          \/ /\ i - len \in DOMAIN front /\ wire'[d][i] = front[i - len]
             /\ len + (i - len) = i
      BY <1>4, <1>6, <1>t, <2>1, <2>3, PartIndices
    <3>2. CASE i \in DOMAIN wire[d] /\ wire'[d][i] = wire[d][i]
      <4>1. i <= len
        BY <1>t, <3>2
      <4> QED
        BY <2>1, <2>3, <3>2, <4>1 DEF Stage
    <3>3. ASSUME NEW j \in DOMAIN front, wire'[d][i] = front[j], len + j = i
          PROVE  \E x \in Nat : i = len + x /\ x <= n /\ Stage(frame, 3, x)
      <4>1. j \in Nat /\ j <= n /\ j \in DOMAIN buffer /\ buffer[j] = frame
        BY <1>6, <2>1, <2>3, <3>3
      <4>2. Stage(frame, 3, j)
        BY <1>2, <4>1 DEF Stage, buffer
      <4> QED
        BY <3>3, <4>1, <4>2
    <3> QED
      BY <2>3, <3>1, <3>2, <3>3
  <2> QED
    BY <2>2, <2>3
<1>7. len \in Nat
  BY <1>t
<1> HIDE DEF len
<1>8. CASE c # d
  <2>1. ASSUME NEW frame \in Frames, NEW k \in Nat, NEW i \in Nat, frame[1] = c,
               Stage(frame, k, i)'
        PROVE  Stage(frame, k, i)
    BY <1>8, <1>s, <1>b, <1>w, <2>1
  <2> QED
    BY <2>1, OrderStays
<1>9. CASE c = d
  <2> DEFINE from == {m \in Nat \X Nat \X Nat \X Nat :
                        \/ m[1] \notin {2, 3} /\ m[3] = m[1] /\ m[4] = m[2]
                        \/ m[1] = 2 /\ m[2] <= len /\ m[3] = 2 /\ m[4] = m[2]
                        \/ m[1] = 2 /\ m[2] = len + m[4] /\ m[4] <= n /\ m[3] = 3
                        \/ m[1] = 3 /\ m[3] = 3 /\ m[4] = m[2] + n /\ m[2] > 0}
  <2>1. ASSUME NEW frame \in Frames, NEW k \in Nat, NEW i \in Nat, frame[1] = c,
               Stage(frame, k, i)'
        PROVE  \E k0, i0 \in Nat : Stage(frame, k0, i0) /\ <<k, i, k0, i0>> \in from
    <3>1. CASE k \notin {2, 3}
      <4>1. Stage(frame, k, i)
        BY <1>s, <2>1, <3>1
      <4> QED
        BY <3>1, <4>1
    <3>2. CASE k = 2
      <4>1. CASE Stage(frame, 2, i) /\ i <= len
        BY <3>2, <4>1
      <4>2. ASSUME NEW j \in Nat, i = len + j, j <= n, Stage(frame, 3, j)
            PROVE  \E k0, i0 \in Nat : Stage(frame, k0, i0) /\ <<k, i, k0, i0>> \in from
        BY <3>2, <4>2
      <4> QED
        BY <1>9, <1>w, <2>1, <3>2, <4>1, <4>2
    <3>3. CASE k = 3
      <4>1. i > 0 /\ Stage(frame, 3, i + n) /\ i + n \in Nat
        BY <1>9, <1>b, <1>n, <2>1, <3>3
      <4> QED
        BY <3>3, <4>1
    <3> QED
      BY <3>1, <3>2, <3>3
  <2>2. KeepsOrder(from)
    BY <1>n, <1>7 DEF KeepsOrder, Before
  <2> HIDE DEF from
  <2> QED
    BY <2>1, <2>2, OrderMoves DEF Moves
<1> QED
  BY <1>8, <1>9

\* The client reads the first response of those on the wire.
LEMMA ClientReadKeepsOrder ==
    ASSUME LoopInv, NEW d \in Clients, ClientReads(d), NEW c \in Clients
    PROVE  NoneOvertakes(c)
<1> DEFINE len == Len(received[d])
<1>1. /\ wire[d] # <<>> /\ wire' = [wire EXCEPT ![d] = Tail(wire[d])]
      /\ received' = [received EXCEPT ![d] = Append(received[d], Head(wire[d]))]
      /\ UNCHANGED <<inbound, frames, queue, running, unnotified, completed, results,
                     write_buffer>>
  BY DEF ClientReads, dispatcherVars, poolVars, loopVars, serverVars
<1>t. wire[d] \in Seq(Frames) /\ received[d] \in Seq(Frames) /\ len \in Nat
  BY StageTypes
<1>2. /\ Head(wire[d]) \in Frames /\ 1 \in DOMAIN wire[d] /\ Head(wire[d]) = wire[d][1]
  BY <1>1, <1>t, PartIndices, SeqParts
<1>3. /\ received'[d] = Append(received[d], Head(wire[d])) /\ wire'[d] = Tail(wire[d])
      /\ \A e \in Clients : e # d => received'[e] = received[e] /\ wire'[e] = wire[e]
  BY <1>1, StageTypes
<1>s. ASSUME NEW frame \in Frames, NEW k \in Nat, NEW i \in Nat, Stage(frame, k, i)',
             k \notin {1, 2}
      PROVE  Stage(frame, k, i)
  BY <1>1, <1>s, StagesStay
<1>4. CASE c # d
  <2>1. ASSUME NEW frame \in Frames, NEW k \in Nat, NEW i \in Nat, frame[1] = c,
               Stage(frame, k, i)'
        PROVE  Stage(frame, k, i)
    <3>1. received'[c] = received[c] /\ wire'[c] = wire[c]
      BY <1>3, <1>4
    <3>2. CASE k \in {1, 2}
      BY <2>1, <3>1, <3>2 DEF Stage
    <3> QED
      BY <1>s, <2>1, <3>2
  <2> QED
    BY <2>1, OrderStays
<1>5. CASE c = d
  <2> DEFINE from == {m \in Nat \X Nat \X Nat \X Nat :
                        \/ m[1] \notin {1, 2} /\ m[3] = m[1] /\ m[4] = m[2]
                        \/ m[1] = 1 /\ m[2] <= len /\ m[3] = 1 /\ m[4] = m[2]
                        \/ m[1] = 1 /\ m[2] = len + 1 /\ m[3] = 2 /\ m[4] = 1
                        \/ m[1] = 2 /\ m[3] = 2 /\ m[4] = m[2] + 1 /\ m[2] > 0}
  <2>1. ASSUME NEW frame \in Frames, NEW k \in Nat, NEW i \in Nat, frame[1] = c,
               Stage(frame, k, i)'
        PROVE  \E k0, i0 \in Nat : Stage(frame, k0, i0) /\ <<k, i, k0, i0>> \in from
    <3>1. CASE k \notin {1, 2}
      <4>1. Stage(frame, k, i)
        BY <1>s, <2>1, <3>1
      <4> QED
        BY <3>1, <4>1
    <3>2. CASE k = 1
      <4>1. i \in DOMAIN received'[d] /\ received'[d][i] = frame
        BY <1>5, <2>1, <3>2 DEF Stage
      <4>2. CASE i \in DOMAIN received[d] /\ received'[d][i] = received[d][i]
        <5>1. Stage(frame, 1, i) /\ i <= len
          BY <1>5, <1>t, <2>1, <4>1, <4>2 DEF Stage
        <5> QED
          BY <3>2, <5>1
      <4>3. CASE i = len + 1 /\ received'[d][i] = Head(wire[d])
        <5>1. Stage(frame, 2, 1)
          BY <1>2, <1>5, <2>1, <4>1, <4>3 DEF Stage
        <5> QED
          BY <3>2, <4>3, <5>1
      <4>4. \/ i \in DOMAIN received[d] /\ received'[d][i] = received[d][i]
            \/ i = len + 1 /\ received'[d][i] = Head(wire[d])
        BY <1>2, <1>3, <1>t, <4>1, PartIndices
      <4> QED
        BY <4>2, <4>3, <4>4
    <3>3. CASE k = 2
      <4>0. i \in DOMAIN wire'[d] /\ wire'[d][i] = frame
        BY <1>5, <2>1, <3>3 DEF Stage
      <4>1. i \in DOMAIN Tail(wire[d]) /\ Tail(wire[d])[i] = frame
        BY <1>3, <4>0
      <4>2. i > 0 /\ i + 1 \in Nat /\ i + 1 \in DOMAIN wire[d] /\ wire[d][i + 1] = frame
        BY <1>1, <1>t, <4>1, PartIndices
      <4>3. Stage(frame, 2, i + 1)
        BY <1>5, <2>1, <4>2 DEF Stage
      <4>4. <<k, i, 2, i + 1>> \in from
        BY <3>3, <4>2
      <4> HIDE DEF from
      <4> QED
        BY <4>2, <4>3, <4>4
    <3> QED
      BY <3>1, <3>2, <3>3
  <2>2. KeepsOrder(from)
    <3>1. len \in Nat
      BY <1>t
    <3> HIDE DEF len
    <3> QED
      BY <3>1 DEF KeepsOrder, Before
  <2> HIDE DEF from
  <2> QED
    BY <2>1, <2>2, OrderMoves DEF Moves
<1> QED
  BY <1>4, <1>5

\* A client numbers its frames in the order it sends them, and each goes behind the last.
LEMMA SendKeepsOrder ==
    ASSUME LoopInv, \A frame \in Frames : OnceAt(frame), NEW d \in Clients, ClientSends(d),
           NEW c \in Clients
    PROVE  NoneOvertakes(c)
<1>1. /\ inbound' = [inbound EXCEPT ![d] = Append(inbound[d], sent[d] + 1)]
      /\ UNCHANGED <<frames, queue, running, unnotified, completed, results, write_buffer, wire,
                     received>>
  BY DEF ClientSends, dispatcherVars, poolVars, loopVars, serverVars
<1>t. /\ inbound \in [Clients -> Seq(0..MaxFrames)] /\ inbound[d] \in Seq(0..MaxFrames)
      /\ sent[d] + 1 \in 0..MaxFrames /\ sent[d] \in Nat
  BY StageTypes, EventLoopAssumption DEF ClientSends, LoopInv, LoopTypes, ClientTypeOK
<1> DEFINE len == Len(inbound[d])
           new(frame) == frame[1] = d /\ frame[2] = sent[d] + 1
<1>2. ASSUME NEW frame \in Frames, NEW k \in Nat, NEW i \in Nat, Stage(frame, k, i)'
      PROVE  /\ k <= 9 /\ (k = 9 /\ frame[1] = d => i <= len + 1)
             /\ Stage(frame, k, i) \/ (k = 9 /\ i = len + 1 /\ new(frame))
  <2>1. k \in 1..9
    BY <1>2, StagesStay
  <2>2. CASE k < 9
    BY <1>1, <1>2, <2>1, <2>2, StagesStay
  <2>3. CASE k = 9 /\ frame[1] # d
    <3>1. inbound'[frame[1]] = inbound[frame[1]]
      BY <1>1, <1>t, <2>3, EventLoopAssumption
    <3> QED
      BY <1>2, <2>3, <3>1 DEF Stage
  <2>4. CASE k = 9 /\ frame[1] = d
    <3>1. inbound'[d] = Append(inbound[d], sent[d] + 1)
      BY <1>1, <1>t
    <3>2. i \in DOMAIN Append(inbound[d], sent[d] + 1)
          /\ Append(inbound[d], sent[d] + 1)[i] = frame[2]
      BY <1>2, <2>4, <3>1 DEF Stage
    <3>3. \/ i \in DOMAIN inbound[d] /\ inbound[d][i] = frame[2] /\ i <= len + 1
          \/ i = len + 1 /\ frame[2] = sent[d] + 1
      BY <1>t, <3>2
    <3>4. len \in Nat
      BY <1>t
    <3> QED
      BY <2>4, <3>3, <3>4 DEF Stage
  <2> QED
    BY <2>1, <2>2, <2>3, <2>4
<1>3. ASSUME NEW frame \in Frames, NEW k, NEW i, Stage(frame, k, i)
      PROVE  frame[2] <= sent[frame[1]]
  <2>1. \E p : AtSome(frame, p)
    BY <1>3, StageTypes
    DEF Stage, AtSome, AtReceived, AtWire, AtBuffer, AtResults, AtCompleted, AtRunning, AtQueue,
        AtFrames, AtInbound
  <2> QED
    BY <2>1, PlacesAre DEF OnceAt
<1> SUFFICES ASSUME NEW f \in Frames, NEW g \in Frames, f[1] = c, g[1] = c,
                    NEW k \in Nat, NEW l \in Nat, NEW i \in Nat, NEW j \in Nat,
                    Stage(f, k, i)', Stage(g, l, j)', Before(k, i, l, j)
             PROVE  \/ \E k0, i0, l0, j0 \in Nat :
                         /\ Stage(f, k0, i0) /\ Stage(g, l0, j0) /\ l <= l0
                         /\ Before(k0, i0, l0, j0) \/ (k0 = 6 /\ l0 = 6)
                    \/ f[2] < g[2] /\ \A l0, j0 : ~Stage(g, l0, j0)
  BY DEF NoneOvertakes
<1>f. f[2] \in Nat /\ g[2] \in Nat
  BY EventLoopAssumption
<1>n. len \in Nat /\ sent[d] \in Nat
  BY <1>t
<1>4. CASE Stage(f, k, i) /\ Stage(g, l, j)
  <2>1. l <= l
    OBVIOUS
  <2> QED
    BY <1>4, <2>1
<1>5. ~(k = 9 /\ i = len + 1 /\ new(f))
  <2> SUFFICES ASSUME k = 9, i = len + 1, new(f) PROVE FALSE
    OBVIOUS
  <2>1. l <= 9 /\ (l = 9 => j <= len + 1)
    BY <1>2
  <2> HIDE DEF len
  <2> QED
    BY <1>n, <2>1 DEF Before
<1>6. CASE Stage(f, k, i) /\ new(g)
  <2>1. f[2] <= sent[d]
    BY <1>3, <1>6
  <2>2. \A l0, j0 : ~Stage(g, l0, j0)
    <3> SUFFICES ASSUME NEW l0, NEW j0, Stage(g, l0, j0) PROVE FALSE
      OBVIOUS
    <3>1. g[2] <= sent[d]
      BY <1>3, <1>6
    <3> QED
      BY <1>6, <1>n, <3>1
  <2>3. f[2] < g[2]
    BY <1>6, <1>f, <1>n, <2>1
  <2> QED
    BY <2>2, <2>3
<1>7. Stage(f, k, i)
  BY <1>2, <1>5
<1>8. Stage(g, l, j) \/ new(g)
  BY <1>2
<1> QED
  BY <1>4, <1>6, <1>7, <1>8

\* Connections that close, tasks that throw and a reset only take frames out.
LEMMA DropsKeepOrder ==
    ASSUME LoopInv, NEW c \in Clients,
           \/ UNCHANGED placeVars
           \/ \E event \in batch : HandleError(event)
           \/ SubmitRejected \/ CloseAfterRead \/ FlushFails \/ DestroyLoop
           \/ \E w \in Workers : PoolStep(w) /\ (TaskThrows(w) \/ Notify(w) \/ NotifyFails(w))
           \/ \E d \in Clients : ClientResets(d) \/ ClientSendsOversized(d)
    PROVE  NoneOvertakes(c)
<1>1. CASE UNCHANGED placeVars
  <2>1. ASSUME NEW frame \in Frames, NEW k \in Nat, NEW i \in Nat, Stage(frame, k, i)'
        PROVE  Stage(frame, k, i)
    BY <1>1, <2>1, StagesStay DEF placeVars
  <2> QED
    BY <2>1, OrderStays
<1>2. CASE \/ \E event \in batch : HandleError(event)
           \/ SubmitRejected \/ CloseAfterRead \/ FlushFails \/ DestroyLoop
  <2>1. /\ UNCHANGED <<inbound, queue, running, unnotified, wire, received>>
        /\ completed' = completed \/ completed' = <<>>
        /\ results' = results \/ results' = <<>>
        /\ frames' = frames \/ frames' = <<>>
    BY <1>2 DEF HandleError, SubmitRejected, CloseAfterRead, FlushFails,
                HandlerCloses, HandlerReturns, DestroyLoop, Destroy, dispatcherVars, poolVars
  <2>2. \/ \E fd : write_buffer' = [write_buffer EXCEPT ![fd] = <<>>]
        \/ write_buffer' = [fd \in Fds |-> <<>>]
    BY <1>2 DEF HandleError, SubmitRejected, CloseAfterRead, FlushFails, DestroyLoop,
                HandlerCloses, CloseConnection
  <2>3. \A fd \in Fds : write_buffer'[fd] = write_buffer[fd] \/ write_buffer'[fd] = <<>>
    BY <2>2, StageTypes
  <2>4. ASSUME NEW frame \in Frames, NEW k \in Nat, NEW i \in Nat, Stage(frame, k, i)'
        PROVE  Stage(frame, k, i)
    <3>1. CASE k = 3
      BY <2>3, <2>4, <3>1 DEF Stage
    <3>2. CASE k \in {4, 5, 8}
      BY <2>1, <2>4, <3>2 DEF Stage
    <3> QED
      BY <2>1, <2>4, <3>1, <3>2, StagesStay
  <2> QED
    BY <2>4, OrderStays
<1>3. ASSUME NEW w \in Workers, PoolStep(w), TaskThrows(w) \/ Notify(w) \/ NotifyFails(w)
      PROVE  NoneOvertakes(c)
  <2>1. UNCHANGED <<inbound, frames, queue, completed, results, write_buffer, wire, received>>
    BY <1>3 DEF PoolStep, TaskThrows, Notify, NotifyFails, Pool!Finish, loopVars, serverVars,
                clientVars
  <2>2. /\ running' = [running EXCEPT ![w] = NoTask]
        /\ unnotified' = unnotified \/ unnotified' = unnotified \ {w}
    BY <1>3 DEF TaskThrows, Notify, NotifyFails, Pool!Finish
  <2>3. ASSUME NEW frame \in Frames, NEW k \in Nat, NEW i \in Nat, Stage(frame, k, i)'
        PROVE  Stage(frame, k, i)
    <3>1. CASE k = 6
      BY <2>2, <2>3, <3>1, StageTypes DEF Stage
    <3> QED
      BY <2>1, <2>3, <3>1, StagesStay
  <2> QED
    BY <2>3, OrderStays
<1>4. ASSUME NEW d \in Clients, ClientResets(d) \/ ClientSendsOversized(d)
      PROVE  NoneOvertakes(c)
  <2>t. inbound \in [Clients -> Seq(0..MaxFrames)] /\ inbound[d] \in Seq(0..MaxFrames)
    BY StageTypes
  <2>1. UNCHANGED <<frames, queue, running, unnotified, completed, results, write_buffer, wire,
                    received>>
    BY <1>4 DEF ClientResets, ClientSendsOversized, dispatcherVars, poolVars, loopVars, serverVars
  <2>2. \/ \E n \in 0..Len(inbound[d]) :
             inbound' = [inbound EXCEPT ![d] = SubSeq(inbound[d], 1, n)]
        \/ inbound' = [inbound EXCEPT ![d] = Append(inbound[d], 0)]
    BY <1>4 DEF ClientResets, ClientSendsOversized, Oversized
  <2>3. ASSUME NEW frame \in Frames, NEW i \in DOMAIN inbound'[frame[1]],
               inbound'[frame[1]][i] = frame[2]
        PROVE  i \in DOMAIN inbound[frame[1]] /\ inbound[frame[1]][i] = frame[2]
    <3>f. frame[1] \in Clients /\ frame[2] # 0 /\ 0 \in 0..MaxFrames
      BY EventLoopAssumption
    <3>1. CASE frame[1] # d
      BY <2>2, <2>3, <2>t, <3>f, <3>1
    <3>2. CASE frame[1] = d
      <4>1. \/ \E n \in 0..Len(inbound[d]) : inbound'[d] = SubSeq(inbound[d], 1, n)
            \/ inbound'[d] = Append(inbound[d], 0)
        BY <2>2, <2>t
      <4>2. CASE inbound'[d] = Append(inbound[d], 0)
        BY <2>3, <2>t, <3>f, <3>2, <4>2, PartIndices
      <4>3. ASSUME NEW n \in 0..Len(inbound[d]), inbound'[d] = SubSeq(inbound[d], 1, n)
            PROVE  i \in DOMAIN inbound[d] /\ inbound[d][i] = frame[2]
        BY <2>3, <2>t, <3>2, <4>3
      <4> QED
        BY <3>2, <4>1, <4>2, <4>3
    <3> QED
      BY <3>1, <3>2
  <2>4. ASSUME NEW frame \in Frames, NEW k \in Nat, NEW i \in Nat, Stage(frame, k, i)'
        PROVE  Stage(frame, k, i)
    <3>1. CASE k = 9
      BY <2>3, <2>4, <3>1 DEF Stage
    <3> QED
      BY <2>1, <2>4, <3>1, StagesStay
  <2> QED
    BY <2>4, OrderStays
<1> QED
  BY <1>1, <1>2, <1>3, <1>4

\* No step lets a frame overtake another, except of two that workers have.
LEMMA NoStepOvertakes ==
    ASSUME DeliveryInv, ServerTables, \A frame \in Frames : OnceAt(frame),
           [EventLoopNext]_vars, NEW c \in Clients
    PROVE  NoneOvertakes(c)
<1>l. LoopInv
  BY DEF DeliveryInv
<1>1. ASSUME NEW w \in Workers, PoolStep(w) PROVE NoneOvertakes(c)
  BY <1>l, <1>1, StartKeepsOrder, PublishKeepsOrder, DropsKeepOrder DEF PoolStep, WorkerStep
<1>2. CASE \E event \in batch : HandleError(event) \/ HandleReadable(event)
  BY <1>l, <1>2, DropsKeepOrder, ReadKeepsOrder
<1>3. CASE \E d \in Clients : \/ ClientSends(d) \/ ClientSendsOversized(d)
                              \/ ClientResets(d) \/ ClientReads(d)
  BY <1>l, <1>3, SendKeepsOrder, DropsKeepOrder, ClientReadKeepsOrder
<1>4. CASE TakeResults \/ ApplyStale \/ ApplyQueues \/ ApplyFails \/ SubmitFrame
  BY <1>l, <1>4, TakeKeepsOrder, DroppedResultKeepsOrder, ApplyKeepsOrder, SubmitKeepsOrder
<1>5. CASE UNCHANGED placeVars \/ SubmitRejected \/ CloseAfterRead \/ FlushFails \/ DestroyLoop
  BY <1>l, <1>5, DropsKeepOrder
<1>6. CASE FlushWrites \/ UpdateFails
  BY <1>6, FlushKeepsOrder
<1> QED
  BY <1>1, <1>2, <1>3, <1>4, <1>5, <1>6, PlaceChanges

\* The stages have different names.
LEMMA StageNames ==
    /\ DOMAIN Stages = 1..9
    /\ \A k, l \in 1..9 : Stages[k] = Stages[l] => k = l
    /\ Stages[1] = "received" /\ Stages[2] = "wire" /\ Stages[3] = "write_buffer"
    /\ Stages[4] = "results" /\ Stages[5] = "completed" /\ Stages[6] = "running"
    /\ Stages[7] = "queue" /\ Stages[8] = "frames" /\ Stages[9] = "inbound"
BY DEF Stages

\* A place is a position in a stage ...
LEMMA StageOfPlace ==
    ASSUME DeliveryInv, NEW frame \in Frames, NEW p \in Places(frame)
    PROVE  \E k \in 1..9, i \in Nat :
             p[1] = Stages[k] /\ Stage(frame, k, i) /\ (k # 6 => p[Len(p)] = i)
<1>l. LoopInv /\ WiresOwned
  BY DEF DeliveryInv
<1>1. AtSome(frame, p)
  BY PlacesAre
<1>2. \E k \in 1..9 : \E i : p[1] = Stages[k] /\ Stage(frame, k, i) /\ (k # 6 => p[Len(p)] = i)
  <2>1. CASE AtInbound(frame, p)
    <3>1. PICK i \in DOMAIN inbound[frame[1]] :
            inbound[frame[1]][i] = frame[2] /\ p = <<"inbound", i>>
      BY <2>1 DEF AtInbound
    <3>2. p[1] = Stages[9] /\ Stage(frame, 9, i) /\ p[Len(p)] = i
      BY <3>1, StageNames DEF Stage
    <3> QED
      BY <3>2
  <2>2. CASE AtFrames(frame, p)
    <3>1. PICK i \in DOMAIN frames : frames[i] = frame /\ p = <<"frames", i>>
      BY <2>2 DEF AtFrames
    <3>2. p[1] = Stages[8] /\ Stage(frame, 8, i) /\ p[Len(p)] = i
      BY <3>1, StageNames DEF Stage
    <3> QED
      BY <3>2
  <2>3. CASE AtQueue(frame, p)
    <3>1. PICK i \in DOMAIN queue : queue[i].frame = frame /\ p = <<"queue", i>>
      BY <2>3 DEF AtQueue
    <3>2. p[1] = Stages[7] /\ Stage(frame, 7, i) /\ p[Len(p)] = i
      BY <3>1, StageNames DEF Stage
    <3> QED
      BY <3>2
  <2>4. CASE AtRunning(frame, p)
    <3>1. p[1] = Stages[6] /\ Stage(frame, 6, 1)
      BY <2>4, StageNames DEF AtRunning, Stage
    <3> QED
      BY <3>1
  <2>5. CASE AtCompleted(frame, p)
    <3>1. PICK i \in DOMAIN completed : completed[i].frame = frame /\ p = <<"completed", i>>
      BY <2>5 DEF AtCompleted
    <3>2. p[1] = Stages[5] /\ Stage(frame, 5, i) /\ p[Len(p)] = i
      BY <3>1, StageNames DEF Stage
    <3> QED
      BY <3>2
  <2>6. CASE AtResults(frame, p)
    <3>1. PICK i \in DOMAIN results : results[i].frame = frame /\ p = <<"results", i>>
      BY <2>6 DEF AtResults
    <3>2. p[1] = Stages[4] /\ Stage(frame, 4, i) /\ p[Len(p)] = i
      BY <3>1, StageNames DEF Stage
    <3> QED
      BY <3>2
  <2>7. CASE AtBuffer(frame, p)
    <3>0. PICK fd \in Fds : \E i \in DOMAIN write_buffer[fd] :
            write_buffer[fd][i] = frame /\ p = <<"write_buffer", fd, i>>
      BY <2>7 DEF AtBuffer
    <3>1. PICK i \in DOMAIN write_buffer[fd] :
            write_buffer[fd][i] = frame /\ p = <<"write_buffer", fd, i>>
      BY <3>0
    <3>2. p[1] = Stages[3] /\ Stage(frame, 3, i) /\ p[Len(p)] = i
      BY <3>1, StageNames DEF Stage
    <3> QED
      BY <3>2
  <2>8. CASE AtWire(frame, p)
    <3>0. PICK c \in Clients : \E i \in DOMAIN wire[c] : wire[c][i] = frame /\ p = <<"wire", c, i>>
      BY <2>8 DEF AtWire
    <3>1. PICK i \in DOMAIN wire[c] : wire[c][i] = frame /\ p = <<"wire", c, i>>
      BY <3>0
    <3>2. c = frame[1]
      BY <1>l, <3>1 DEF WiresOwned, InSeq
    <3>3. p[1] = Stages[2] /\ Stage(frame, 2, i) /\ p[Len(p)] = i
      BY <3>1, <3>2, StageNames DEF Stage
    <3> QED
      BY <3>3
  <2>9. CASE AtReceived(frame, p)
    <3>0. PICK c \in Clients : \E i \in DOMAIN received[c] :
            received[c][i] = frame /\ p = <<"received", c, i>>
      BY <2>9 DEF AtReceived
    <3>1. PICK i \in DOMAIN received[c] : received[c][i] = frame /\ p = <<"received", c, i>>
      BY <3>0
    <3>2. c = frame[1]
      BY <1>l, <3>1 DEF WiresOwned, InSeq
    <3>3. p[1] = Stages[1] /\ Stage(frame, 1, i) /\ p[Len(p)] = i
      BY <3>1, <3>2, StageNames DEF Stage
    <3> QED
      BY <3>3
  <2> QED
    BY <1>1, <2>1, <2>2, <2>3, <2>4, <2>5, <2>6, <2>7, <2>8, <2>9 DEF AtSome
<1>3. PICK k \in 1..9 : \E i : p[1] = Stages[k] /\ Stage(frame, k, i) /\ (k # 6 => p[Len(p)] = i)
  BY <1>2
<1>4. PICK i : p[1] = Stages[k] /\ Stage(frame, k, i) /\ (k # 6 => p[Len(p)] = i)
  BY <1>3
<1>5. i \in Nat
  BY <1>l, <1>4, StageTypes
<1> QED
  BY <1>4, <1>5

\* ... and a frame has one position at most, as it has one place.
LEMMA OneStage ==
    ASSUME DeliveryInv, NEW frame \in Frames, OnceAt(frame), NEW k, NEW i, NEW l, NEW j,
           Stage(frame, k, i), Stage(frame, l, j)
    PROVE  k = l /\ i = j
<1>l. LoopInv
  BY DEF DeliveryInv
<1>1. ASSUME NEW m, NEW n, Stage(frame, m, n)
      PROVE  \E p \in Places(frame) :
               p[1] = Stages[m] /\ (m = 6 => n = 1) /\ (m # 6 => p[Len(p)] = n)
  <2>1. m \in 1..9 /\ frame[1] \in Clients
    BY <1>l, <1>1, StageTypes
  <2>p. \A p : AtSome(frame, p) => p \in Places(frame)
    BY PlacesAre
  <2>2. CASE m = 1
    <3>1. AtReceived(frame, <<"received", frame[1], n>>)
      BY <1>1, <2>1, <2>2 DEF Stage, AtReceived
    <3>2. <<"received", frame[1], n>> \in Places(frame)
      BY <2>p, <3>1 DEF AtSome
    <3> QED
      BY <2>2, <3>2, StageNames
  <2>3. CASE m = 2
    <3>1. AtWire(frame, <<"wire", frame[1], n>>)
      BY <1>1, <2>1, <2>3 DEF Stage, AtWire
    <3>2. <<"wire", frame[1], n>> \in Places(frame)
      BY <2>p, <3>1 DEF AtSome
    <3> QED
      BY <2>3, <3>2, StageNames
  <2>4. CASE m = 3
    <3>1. PICK fd \in Fds : n \in DOMAIN write_buffer[fd] /\ write_buffer[fd][n] = frame
      BY <1>1, <2>4 DEF Stage
    <3>2. AtBuffer(frame, <<"write_buffer", fd, n>>)
      BY <3>1 DEF AtBuffer
    <3>3. <<"write_buffer", fd, n>> \in Places(frame)
      BY <2>p, <3>2 DEF AtSome
    <3> QED
      BY <2>4, <3>3, StageNames
  <2>5. CASE m = 4
    <3>1. AtResults(frame, <<"results", n>>)
      BY <1>1, <2>5 DEF Stage, AtResults
    <3>2. <<"results", n>> \in Places(frame)
      BY <2>p, <3>1 DEF AtSome
    <3> QED
      BY <2>5, <3>2, StageNames
  <2>6. CASE m = 5
    <3>1. AtCompleted(frame, <<"completed", n>>)
      BY <1>1, <2>6 DEF Stage, AtCompleted
    <3>2. <<"completed", n>> \in Places(frame)
      BY <2>p, <3>1 DEF AtSome
    <3> QED
      BY <2>6, <3>2, StageNames
  <2>7. CASE m = 6
    <3>1. PICK w \in Workers \ unnotified : running[w] # NoTask /\ running[w].frame = frame
      BY <1>1, <2>7 DEF Stage
    <3>2. AtRunning(frame, <<"running", w>>) /\ n = 1
      BY <1>1, <2>7, <3>1 DEF AtRunning, Stage
    <3>3. <<"running", w>> \in Places(frame)
      BY <2>p, <3>2 DEF AtSome
    <3> QED
      BY <2>7, <3>2, <3>3, StageNames
  <2>8. CASE m = 7
    <3>1. AtQueue(frame, <<"queue", n>>)
      BY <1>1, <2>8 DEF Stage, AtQueue
    <3>2. <<"queue", n>> \in Places(frame)
      BY <2>p, <3>1 DEF AtSome
    <3> QED
      BY <2>8, <3>2, StageNames
  <2>9. CASE m = 8
    <3>1. AtFrames(frame, <<"frames", n>>)
      BY <1>1, <2>9 DEF Stage, AtFrames
    <3>2. <<"frames", n>> \in Places(frame)
      BY <2>p, <3>1 DEF AtSome
    <3> QED
      BY <2>9, <3>2, StageNames
  <2>10. CASE m = 9
    <3>1. AtInbound(frame, <<"inbound", n>>)
      BY <1>1, <2>10 DEF Stage, AtInbound
    <3>2. <<"inbound", n>> \in Places(frame)
      BY <2>p, <3>1 DEF AtSome
    <3> QED
      BY <2>10, <3>2, StageNames
  <2> QED
    BY <2>1, <2>2, <2>3, <2>4, <2>5, <2>6, <2>7, <2>8, <2>9, <2>10
<1>2. PICK p \in Places(frame) : p[1] = Stages[k] /\ (k = 6 => i = 1) /\ (k # 6 => p[Len(p)] = i)
  BY <1>1
<1>3. PICK q \in Places(frame) : q[1] = Stages[l] /\ (l = 6 => j = 1) /\ (l # 6 => q[Len(q)] = j)
  BY <1>1
<1>4. p = q
  BY DEF OnceAt, Single
<1>5. k = l
  BY <1>l, <1>2, <1>3, <1>4, StageTypes, StageNames
<1> QED
  BY <1>2, <1>3, <1>4, <1>5

\* A frame that is ahead of another is at a position ahead of the other's.
LEMMA AheadIsBefore ==
    ASSUME DeliveryInv, NEW f \in Frames, NEW g \in Frames, Ahead(f, g)
    PROVE  \E k, i, l, j \in Nat : Stage(f, k, i) /\ Stage(g, l, j) /\ Before(k, i, l, j)
<1>1. PICK p \in Places(f), q \in Places(g), k \in DOMAIN Stages :
        /\ p[1] = Stages[k]
        /\ \E l \in DOMAIN Stages :
             /\ q[1] = Stages[l]
             /\ k < l \/ (k = l /\ p[1] # "running" /\ p[Len(p)] < q[Len(q)])
  BY DEF Ahead
<1>2. PICK l \in DOMAIN Stages :
        /\ q[1] = Stages[l]
        /\ k < l \/ (k = l /\ p[1] # "running" /\ p[Len(p)] < q[Len(q)])
  BY <1>1
<1>3. PICK k0 \in 1..9, i \in Nat :
        p[1] = Stages[k0] /\ Stage(f, k0, i) /\ (k0 # 6 => p[Len(p)] = i)
  BY StageOfPlace
<1>4. PICK l0 \in 1..9, j \in Nat :
        q[1] = Stages[l0] /\ Stage(g, l0, j) /\ (l0 # 6 => q[Len(q)] = j)
  BY StageOfPlace
<1>5. k \in 1..9 /\ l \in 1..9
  BY StageNames
<1>6. k0 = k /\ l0 = l
  BY <1>1, <1>2, <1>3, <1>4, <1>5, StageNames
<1>7. Before(k, i, l, j)
  <2>1. CASE k < l
    BY <2>1 DEF Before
  <2>2. CASE k = l /\ p[1] # "running" /\ p[Len(p)] < q[Len(q)]
    <3>1. k # 6
      BY <1>1, <2>2, StageNames
    <3>2. i < j
      BY <1>3, <1>4, <1>6, <2>2, <3>1
    <3> QED
      BY <2>2, <3>1, <3>2 DEF Before
  <2> QED
    BY <1>2, <2>1, <2>2
<1>8. k \in Nat /\ l \in Nat
  BY <1>5
<1> QED
  BY <1>3, <1>4, <1>6, <1>7, <1>8

\* Tables, ownership and single places together.
PlacesInv == DeliveryInv /\ ServerTables /\ \A frame \in Frames : OnceAt(frame)

\* They are invariants of the server.
LEMMA PlacesHold == EventLoopSpec => []PlacesInv
BY TablesHold, DeliveryInvariant, OncePlaced, PTL DEF PlacesInv

\* However many workers there are, they are given the frames of a client in the order it sent
\* them: a later frame gets ahead of an earlier one only when a worker has had the earlier
\* one.  Reads, the submission frame by frame, a full queue and a failing connection keep
\* the order.
THEOREM FramesStartInOrder == EventLoopSpec => []StartedInOrder
<1>1. EventLoopInit => OvertakenLate
  <2> SUFFICES ASSUME EventLoopInit PROVE OvertakenLate
    OBVIOUS
  <2>1. /\ frames = <<>> /\ queue = <<>> /\ completed = <<>> /\ results = <<>>
        /\ \A w \in Workers : running[w] = NoTask
        /\ \A fd \in Fds : write_buffer[fd] = <<>>
        /\ \A frame \in Frames : /\ inbound[frame[1]] = <<>> /\ wire[frame[1]] = <<>>
                                 /\ received[frame[1]] = <<>>
    BY EventLoopAssumption DEF EventLoopInit, DispatcherInit
  <2>2. \A frame \in Frames : \A k, i : ~Stage(frame, k, i)
    BY <2>1 DEF Stage
  <2> QED
    BY <2>2 DEF OvertakenLate
<1>2. PlacesInv /\ OvertakenLate /\ [EventLoopNext]_vars => OvertakenLate'
  <2> SUFFICES ASSUME PlacesInv, OvertakenLate, [EventLoopNext]_vars,
                      NEW f \in Frames, NEW g \in Frames, f[1] = g[1], g[2] < f[2],
                      NEW k \in Nat, NEW l \in Nat, NEW i \in Nat, NEW j \in Nat,
                      Stage(f, k, i)', Stage(g, l, j)', Before(k, i, l, j)
               PROVE  l <= 6
    BY DEF OvertakenLate, Before
  <2>0. f[1] \in Clients /\ f[2] \in Nat /\ g[2] \in Nat
    BY EventLoopAssumption
  <2>1. NoneOvertakes(f[1])
    BY <2>0, NoStepOvertakes DEF PlacesInv
  <2>2. ~(f[2] < g[2])
    BY <2>0
  <2>3. PICK k0, i0, l0, j0 \in Nat :
          /\ Stage(f, k0, i0) /\ Stage(g, l0, j0) /\ l <= l0
          /\ Before(k0, i0, l0, j0) \/ (k0 = 6 /\ l0 = 6)
    BY <2>1, <2>2 DEF NoneOvertakes
  <2>4. l0 <= 6
    BY <2>3 DEF OvertakenLate
  <2> QED
    BY <2>3, <2>4
<1>3. PlacesInv /\ OvertakenLate => StartedInOrder
  <2> SUFFICES ASSUME PlacesInv, OvertakenLate, NEW c \in Clients,
                      NEW m \in 1..MaxFrames, NEW n \in 1..MaxFrames, m < n,
                      Ahead(<<c, n>>, <<c, m>>), NEW p \in Places(<<c, m>>)
               PROVE  p[1] \notin {"queue", "frames", "inbound"}
    BY DEF StartedInOrder
  <2>1. <<c, m>> \in Frames /\ <<c, n>> \in Frames
    BY EventLoopAssumption
  <2>2. PICK k, i, l, j \in Nat :
          Stage(<<c, n>>, k, i) /\ Stage(<<c, m>>, l, j) /\ Before(k, i, l, j)
    BY <2>1, AheadIsBefore DEF PlacesInv
  <2>3. l <= 6
    BY <2>1, <2>2 DEF OvertakenLate
  <2>4. PICK l0 \in 1..9, j0 \in Nat : p[1] = Stages[l0] /\ Stage(<<c, m>>, l0, j0)
    BY <2>1, StageOfPlace DEF PlacesInv
  <2>5. l0 = l
    BY <2>1, <2>2, <2>4, OneStage DEF PlacesInv
  <2> QED
    BY <2>3, <2>4, <2>5, StageNames
<1> QED
  BY <1>1, <1>2, <1>3, PlacesHold, PTL DEF EventLoopSpec

\* And from a worker on the results keep the order in which they were published: no step makes
\* a frame that is behind another of its client the one ahead, whatever fails.  Two frames that
\* workers have in hand are the only ones of a client whose order a step may still decide.
THEOREM OrderIsDecidedByWorkers == EventLoopSpec => OvertakenByWorkersOnly
<1> DEFINE Step == \A c \in Clients : \A m, n \in 1..MaxFrames :
                     m # n /\ Ahead(<<c, m>>, <<c, n>>) => ~Ahead(<<c, n>>, <<c, m>>)'
<1>a. \A f, g \in Frames : DeliveryInv /\ Ahead(f, g) =>
        \E x, y, z, t \in Nat : Stage(f, x, y) /\ Stage(g, z, t) /\ Before(x, y, z, t)
  BY AheadIsBefore
<1>b. (\A f, g \in Frames : DeliveryInv /\ Ahead(f, g) =>
        \E x, y, z, t \in Nat : Stage(f, x, y) /\ Stage(g, z, t) /\ Before(x, y, z, t))'
  BY <1>a, PTL
<1>1. PlacesInv /\ PlacesInv' /\ [EventLoopNext]_vars => Step
  <2> SUFFICES ASSUME PlacesInv, PlacesInv', [EventLoopNext]_vars, NEW c \in Clients,
                      NEW m \in 1..MaxFrames, NEW n \in 1..MaxFrames,
                      Ahead(<<c, m>>, <<c, n>>), Ahead(<<c, n>>, <<c, m>>)'
               PROVE  FALSE
    OBVIOUS
  <2>1. <<c, m>> \in Frames /\ <<c, n>> \in Frames /\ <<c, m>>[1] = c /\ <<c, n>>[1] = c
    BY EventLoopAssumption
  <2>2. PICK k, i, l, j \in Nat :
          Stage(<<c, m>>, k, i) /\ Stage(<<c, n>>, l, j) /\ Before(k, i, l, j)
    BY <2>1, AheadIsBefore DEF PlacesInv
  <2>3. PICK k1, i1, l1, j1 \in Nat :
          Stage(<<c, n>>, k1, i1)' /\ Stage(<<c, m>>, l1, j1)' /\ Before(k1, i1, l1, j1)
    BY <1>b, <2>1 DEF PlacesInv, Before
  <2>4. NoneOvertakes(c)
    BY NoStepOvertakes DEF PlacesInv
  <2>5. PICK k0, i0, l0, j0 \in Nat :
          /\ Stage(<<c, n>>, k0, i0) /\ Stage(<<c, m>>, l0, j0)
          /\ Before(k0, i0, l0, j0) \/ (k0 = 6 /\ l0 = 6)
    BY <2>1, <2>2, <2>3, <2>4 DEF NoneOvertakes
  <2>6. k0 = l /\ i0 = j /\ l0 = k /\ j0 = i
    BY <2>1, <2>2, <2>5, OneStage DEF PlacesInv
  <2> QED
    BY <2>2, <2>5, <2>6 DEF Before
<1>2. PlacesInv /\ PlacesInv' /\ [EventLoopNext]_vars => [Step]_vars
  BY <1>1
<1> HIDE DEF Step
<1>3. EventLoopSpec => [][Step]_vars
  BY <1>2, PlacesHold, PTL DEF EventLoopSpec
<1> QED
  BY <1>3 DEF OvertakenByWorkersOnly, Step
=============================================================================
