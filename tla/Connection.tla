----------------------------- MODULE Connection -----------------------------
(***************************************************************************)
(* netpulse::server::Connection at the level of bytes, driven as EventLoop *)
(* drives it: readAvailable() when the socket is readable, flushWrites()   *)
(* after it or when the socket is writable, queueFrame() for a result.     *)
(* Every recv() and send() is a step, so the client may act between any    *)
(* two of them.  EventLoop.tla takes frames as a whole; this module shows  *)
(* that the decoder and the write buffer justify it.                       *)
(***************************************************************************)
EXTENDS FrameDecoder, FrameWriteBuffer, ByteStream

CONSTANTS
    ReadBufferSize,  \* kReadBufferSize
    Responses        \* payloads processFrame() answers with

ASSUME ConnectionAssumption ==
    /\ ReadBufferSize \in Nat \ {0}
    /\ Responses \subseteq Seq(Bytes)

VARIABLES
    call,           \* where the I/O thread is: "idle", "recv", "decode", "flush", "closed"
    read_status,    \* result.status of the last readAvailable()
    frames_read,    \* history: the frames readAvailable() has returned
    consumed,       \* history: the encodings of frames_read, one after the other
    frames_queued,  \* history: the frames queueFrame() has accepted
    accepted        \* history: the encodings of frames_queued, one after the other

callVars == <<call, read_status>>
frameVars == <<frames_read, consumed, frames_queued, accepted>>
connectionVars == <<decoderVars, writerVars, streamVars, callVars, frameVars>>

\* The members of Connection and its buffers keep their types; no offset leaves its buffer.
ConnectionTypeOK ==
    /\ StreamTypeOK
    /\ read_buffer \in Seq(Bytes) /\ read_offset \in 0..Len(read_buffer)
    /\ write_bytes \in Seq(Bytes) /\ write_offset \in 0..Len(write_bytes)
    /\ call \in {"idle", "recv", "decode", "flush", "closed"}
    /\ read_status \in {"ready", "peer_closed", "protocol_error", "io_error"}
    /\ frames_read \in Seq(Seq(Bytes)) /\ consumed \in Seq(Bytes)
    /\ frames_queued \in Seq(Seq(Bytes)) /\ accepted \in Seq(Bytes)

ConnectionInit ==
    /\ DecoderInit /\ WriterInit /\ StreamInit
    /\ call = "idle" /\ read_status = "ready"
    /\ frames_read = <<>> /\ consumed = <<>>
    /\ frames_queued = <<>> /\ accepted = <<>>

Upto(a, b) == 1..(IF a < b THEN a ELSE b)

\* The connection is destroyed: its buffers go, its socket is closed.
Destroyed ==
    /\ call' = "closed"
    /\ read_buffer' = <<>> /\ read_offset' = 0
    /\ write_bytes' = <<>> /\ write_offset' = 0
    /\ ServerClose
    /\ UNCHANGED frameVars
-----------------------------------------------------------------------------
(* readAvailable().                                                        *)

Readable == inbound # <<>> \/ client_end # "no"

ReadStarts ==
    /\ call = "idle" /\ Readable
    /\ call' = "recv" /\ read_status' = "ready"
    /\ UNCHANGED <<decoderVars, writerVars, streamVars, frameVars>>

\* recv() gives data, which goes to the decoder.  After a reset it may still give what
\* had arrived, or fail at once.
RecvData ==
    /\ call = "recv"
    /\ \E n \in Upto(Len(inbound), ReadBufferSize) :
         /\ DecoderAppend(First(n, inbound))
         /\ inbound' = AllBut(n, inbound)
    /\ call' = "decode"
    /\ UNCHANGED <<writerVars, outbound, stream, taken, client_end, server_end,
                   read_status, frameVars>>

DecodeFrame ==
    /\ call = "decode"
    /\ DecodeNext
    /\ frames_read' = Append(frames_read, DecodedPayload)
    /\ consumed' = consumed \o Encode(DecodedPayload)
    /\ UNCHANGED <<writerVars, streamVars, callVars, frames_queued, accepted>>

\* Mutant: one frame at most is taken from what a recv() brought.
DecodeOnce ==
    /\ call = "decode"
    /\ \/ DecodeStatus = "need_more_data"
       \/ BufferedBytes < Len(read_buffer)
    /\ call' = "recv"
    /\ UNCHANGED <<decoderVars, writerVars, streamVars, read_status, frameVars>>

\* The inner loop ends and the next recv() follows.
DecodeNeedsMore ==
    /\ call = "decode"
    /\ DecodeStatus = "need_more_data"
    /\ call' = "recv"
    /\ UNCHANGED <<decoderVars, writerVars, streamVars, read_status, frameVars>>

\* readAvailable() returns with an error or an end, and handleClientEvent() closes:
\* at a length above the limit, at the end of the stream, at a reset.
DecodeTooLarge ==
    /\ call = "decode"
    /\ DecodeStatus = "payload_too_large"
    /\ read_status' = "protocol_error"
    /\ Destroyed

\* Mutant of RecvEnd: the end of the stream is taken for EAGAIN.
RecvEndIgnored ==
    /\ call = "recv" /\ client_end = "fin" /\ inbound = <<>>
    /\ call' = "flush"
    /\ UNCHANGED <<decoderVars, writerVars, streamVars, read_status, frameVars>>

RecvEnd ==
    /\ call = "recv" /\ client_end = "fin" /\ inbound = <<>>
    /\ read_status' = "peer_closed"
    /\ Destroyed

RecvFails ==
    /\ call = "recv" /\ client_end = "rst"
    /\ read_status' = "io_error"
    /\ Destroyed

\* EAGAIN: the handler goes on to flushWrites().
RecvWouldBlock ==
    /\ call = "recv" /\ client_end = "no" /\ inbound = <<>>
    /\ call' = "flush"
    /\ UNCHANGED <<decoderVars, writerVars, streamVars, read_status, frameVars>>

\* EPOLLERR or EPOLLHUP: handleClientEvent() closes without reading.
ErrorEvent ==
    /\ call = "idle" /\ client_end = "rst"
    /\ UNCHANGED read_status
    /\ Destroyed
-----------------------------------------------------------------------------
(* queueFrame() and flushWrites().                                         *)

\* A result for one of the frames read.
QueueFrame(payload) ==
    /\ call = "idle"
    /\ Len(frames_queued) < Len(frames_read)
    /\ Enqueue(payload)
    /\ frames_queued' = Append(frames_queued, payload)
    /\ accepted' = accepted \o Encode(payload)
    /\ UNCHANGED <<decoderVars, streamVars, callVars, frames_read, consumed>>

\* The task queue has no room for a frame just read, the response is above the limit, or
\* epoll_ctl() fails, and the loop closes the connection; or run() returns, and all
\* connections go with the loop.
ConnectionDropped ==
    /\ call \in {"idle", "flush"}
    /\ UNCHANGED read_status
    /\ Destroyed

\* EPOLLOUT, watched while there is something to write.
FlushStarts ==
    /\ call = "idle" /\ Pending # <<>>
    /\ Len(outbound) < SocketBuffer
    /\ call' = "flush"
    /\ UNCHANGED <<decoderVars, writerVars, streamVars, read_status, frameVars>>

\* Mutant: a short send is taken for a complete one.
FlushIgnoresShortSend ==
    /\ call = "flush" /\ client_end # "rst"
    /\ \E n \in Upto(Len(Pending), SocketBuffer - Len(outbound)) :
         /\ FlushAdvances(Len(Pending))
         /\ outbound' = outbound \o First(n, Pending)
    /\ UNCHANGED <<decoderVars, inbound, stream, taken, client_end, server_end,
                   callVars, frameVars>>

FlushSends ==
    /\ call = "flush" /\ client_end # "rst"
    /\ \E n \in Upto(Len(Pending), SocketBuffer - Len(outbound)) :
         /\ FlushAdvances(n)
         /\ outbound' = outbound \o First(n, Pending)
    /\ UNCHANGED <<decoderVars, inbound, stream, taken, client_end, server_end,
                   callVars, frameVars>>

FlushWouldBlock ==
    /\ call = "flush" /\ client_end # "rst"
    /\ Pending # <<>> /\ Len(outbound) = SocketBuffer
    /\ call' = "idle"
    /\ UNCHANGED <<decoderVars, writerVars, streamVars, read_status, frameVars>>

FlushDrained ==
    /\ call = "flush" /\ Pending = <<>>
    /\ FlushClears
    /\ call' = "idle"
    /\ UNCHANGED <<decoderVars, streamVars, read_status, frameVars>>

FlushFails ==
    /\ call = "flush" /\ Pending # <<>> /\ client_end = "rst"
    /\ UNCHANGED read_status
    /\ Destroyed
-----------------------------------------------------------------------------
ServerStep ==
    \/ ReadStarts \/ RecvData \/ DecodeFrame \/ DecodeNeedsMore
    \/ DecodeTooLarge \/ RecvEnd \/ RecvFails \/ RecvWouldBlock \/ ErrorEvent
    \/ \E payload \in Responses : QueueFrame(payload)
    \/ FlushStarts \/ FlushSends \/ FlushWouldBlock \/ FlushDrained \/ FlushFails

\* A client that sends whatever bytes it likes, reads and leaves when it likes.
ClientStep ==
    /\ \/ \E byte \in Bytes : ClientSend(<<byte>>)
       \/ \E n \in 1..Len(outbound) : ClientRecv(n)
       \/ client_end = "no" /\ ClientEnd("fin")
       \/ client_end # "rst" /\ ClientEnd("rst")
    /\ UNCHANGED <<decoderVars, writerVars, callVars, frameVars>>

ConnectionNext == ServerStep \/ ConnectionDropped \/ ClientStep

ConnectionSpec == ConnectionInit /\ [][ConnectionNext]_connectionVars
-----------------------------------------------------------------------------
(* Properties.                                                             *)

\* These bytes begin with a whole frame; with a length above the limit.
HoldsFrame(bytes) ==
    \E n \in 0..MaxPayload :
        Len(bytes) >= HeaderSize + n /\ First(HeaderSize, bytes) = Header(n)

HoldsOversized(bytes) ==
    \E n \in (MaxPayload + 1)..(Weight[HeaderSize] - 1) :
        Len(bytes) >= HeaderSize /\ First(HeaderSize, bytes) = Header(n)

\* However the stream is cut into reads, and whatever compact() erases, the frames
\* read, what the decoder holds and what is in the socket are the client's stream,
\* no byte lost, repeated or moved; the frames of a closed connection are a prefix of it.
InputIntact ==
    /\ call # "closed" => consumed \o Undecoded \o inbound = stream
    /\ consumed = First(Len(consumed), stream)

\* However send() cuts it, the client receives the queued frames byte by byte: what it
\* has, what is on the way and what is pending are the encodings of the queued frames;
\* after the close, a prefix of them.
OutputIntact ==
    /\ call # "closed" => taken \o outbound \o Pending = accepted
    /\ taken \o outbound = First(Len(taken) + Len(outbound), accepted)

\* readAvailable() leaves no whole frame in the decoder: the socket would not become
\* readable for it, and the frame would wait for the client's next byte.
NoFrameLeftBehind ==
    call \in {"flush", "idle"} => ~HoldsFrame(Undecoded) /\ ~HoldsOversized(Undecoded)

\* A protocol error is reported for a length above the limit, at the first byte after
\* the frames read, and for nothing else; no frame above the limit is let through.
ErrorsAreReal ==
    /\ read_status = "protocol_error" =>
         HoldsOversized(AllBut(Len(consumed), stream))
    /\ \A i \in DOMAIN frames_read : Len(frames_read[i]) <= MaxPayload
=============================================================================
