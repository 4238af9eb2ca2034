--------------------------- MODULE BlockingFrames ---------------------------
(***************************************************************************)
(* sendFrame() and receiveFrame() of netpulse::protocol over sendAll() and *)
(* receiveExact() of netpulse::network, called by a client.  A frame call  *)
(* is two I/O calls, one for the header and one for the payload; every     *)
(* send() and recv() of their loops is a step.  EINTR retries are          *)
(* invisible, and send() never returns 0 for a nonempty span.              *)
(***************************************************************************)
EXTENDS ByteStream

VARIABLES
    nonblocking,    \* O_NONBLOCK of the client's socket
    frame_call,     \* the I/O call under way: "none", "send_header", "send_payload",
                    \* "receive_header" or "receive_payload"
    data,           \* its span: all bytes to send, or the bytes received so far
    size,           \* the size of its span
    total,          \* total_sent, total_received
    payload_span,   \* the payload of the sendFrame() under way
    io,             \* the last IoResult
    send_result,    \* of the last sendFrame()
    receive_result  \* of the last receiveFrame()

ioVars == <<frame_call, data, size, total, payload_span>>
resultVars == <<io, send_result, receive_result>>
blockingVars == <<nonblocking, ioVars, resultVars>>

EAGAIN == 11
EPIPE == 32
ECONNRESET == 104

IoResult(status, error) ==
    [status |-> status, bytes_transferred |-> total, error_number |-> error]

NoResult == [status |-> "none", payload |-> <<>>, bytes_transferred |-> 0, error_number |-> 0]

BlockingInit ==
    /\ frame_call = "none" /\ data = <<>> /\ size = 0 /\ total = 0 /\ payload_span = <<>>
    /\ io = [status |-> "completed", bytes_transferred |-> 0, error_number |-> 0]
    /\ send_result = NoResult /\ receive_result = NoResult

\* sendAll(bytes) and receiveExact() into n bytes, as calls of frame.cpp.
SendAll(step, bytes) ==
    frame_call' = step /\ data' = bytes /\ size' = Len(bytes) /\ total' = 0

ReceiveExact(step, n) ==
    frame_call' = step /\ data' = <<>> /\ size' = n /\ total' = 0

FrameCallEnds == frame_call' = "none" /\ UNCHANGED <<data, size, total>>
-----------------------------------------------------------------------------
(* sendAll() and receiveExact().                                           *)

Sending == frame_call \in {"send_header", "send_payload"}
Receiving == frame_call \in {"receive_header", "receive_payload"}

SendSome ==
    /\ Sending
    /\ \E n \in 1..(size - total) :
         /\ ClientSend(SubSeq(data, total + 1, total + n))
         /\ total' = total + n
    /\ UNCHANGED <<nonblocking, frame_call, data, size, payload_span, resultVars>>

\* Mutant: recv() is offered the whole buffer again.
ReceiveSomeOverruns ==
    /\ Receiving /\ total < size
    /\ \E n \in 1..size :
         /\ ClientRecv(n)
         /\ data' = data \o First(n, outbound)
         /\ total' = total + n
    /\ UNCHANGED <<nonblocking, frame_call, size, payload_span, resultVars>>

ReceiveSome ==
    /\ Receiving
    /\ \E n \in 1..(size - total) :
         /\ ClientRecv(n)
         /\ data' = data \o First(n, outbound)
         /\ total' = total + n
    /\ UNCHANGED <<nonblocking, frame_call, size, payload_span, resultVars>>

\* What the loops may return now.  On a blocking socket they wait instead of EAGAIN.
SendAllReturns ==
    IF total = size THEN {IoResult("completed", 0)}
    ELSE IF server_end = "rst" THEN {IoResult("error", e) : e \in {EPIPE, ECONNRESET}}
    ELSE IF nonblocking /\ server_end = "no" /\ Len(inbound) = SocketBuffer
         THEN {IoResult("would_block", EAGAIN)}
    ELSE {}

ReceiveExactReturns ==
    IF total = size THEN {IoResult("completed", 0)}
    ELSE IF server_end = "rst" THEN {IoResult("error", ECONNRESET)}
    ELSE IF outbound # <<>> THEN {}
    ELSE IF server_end = "fin" THEN {IoResult("peer_closed", 0)}
    ELSE IF nonblocking THEN {IoResult("would_block", EAGAIN)}
    ELSE {}
-----------------------------------------------------------------------------
(* sendFrame() and receiveFrame().                                         *)

FrameStatus(status) == IF status = "error" THEN "io_error" ELSE status

FrameResult(status, payload, bytes, error) ==
    [status |-> status, payload |-> payload, bytes_transferred |-> bytes,
     error_number |-> error]

SendFrame(payload) ==
    /\ frame_call = "none"
    /\ IF Len(payload) > MaxPayload
       THEN /\ send_result' = FrameResult("payload_too_large", <<>>, 0, 0)
            /\ UNCHANGED ioVars
       ELSE /\ SendAll("send_header", Header(Len(payload)))
            /\ payload_span' = payload
            /\ UNCHANGED send_result
    /\ UNCHANGED <<nonblocking, io, receive_result>>

\* header_result is io when payload_result arrives.
SendHeaderDone ==
    /\ frame_call = "send_header"
    /\ io' \in SendAllReturns
    /\ IF io'.status = "completed"
       THEN SendAll("send_payload", payload_span) /\ UNCHANGED send_result
       ELSE /\ send_result' = FrameResult(FrameStatus(io'.status), <<>>,
                                          io'.bytes_transferred, io'.error_number)
            /\ FrameCallEnds
    /\ UNCHANGED <<nonblocking, payload_span, receive_result>>

\* Mutant: only the payload's bytes are reported.
SendPayloadForgetsHeader ==
    /\ frame_call = "send_payload"
    /\ io' \in SendAllReturns
    /\ send_result' = FrameResult(FrameStatus(io'.status), <<>>,
                                  io'.bytes_transferred, io'.error_number)
    /\ FrameCallEnds
    /\ UNCHANGED <<nonblocking, payload_span, receive_result>>

SendPayloadDone ==
    /\ frame_call = "send_payload"
    /\ io' \in SendAllReturns
    /\ send_result' = FrameResult(FrameStatus(io'.status), <<>>,
                                  io.bytes_transferred + io'.bytes_transferred,
                                  io'.error_number)
    /\ FrameCallEnds
    /\ UNCHANGED <<nonblocking, payload_span, receive_result>>

ReceiveFrame ==
    /\ frame_call = "none"
    /\ ReceiveExact("receive_header", HeaderSize)
    /\ UNCHANGED <<nonblocking, payload_span, resultVars>>

ReceiveHeaderDone ==
    /\ frame_call = "receive_header"
    /\ io' \in ReceiveExactReturns
    /\ IF io'.status = "completed" /\ PayloadSize(data) <= MaxPayload
       THEN /\ ReceiveExact("receive_payload", PayloadSize(data))
            /\ UNCHANGED receive_result
       ELSE /\ receive_result' =
                 IF io'.status = "completed"
                 THEN FrameResult("payload_too_large", <<>>, HeaderSize, 0)
                 ELSE FrameResult(FrameStatus(io'.status), <<>>,
                                  io'.bytes_transferred, io'.error_number)
            /\ FrameCallEnds
    /\ UNCHANGED <<nonblocking, payload_span, send_result>>

\* The vector has its full size whatever arrived; what did not is zero.
ReceivePayloadDone ==
    /\ frame_call = "receive_payload"
    /\ io' \in ReceiveExactReturns
    /\ receive_result' =
         FrameResult(FrameStatus(io'.status),
                     [i \in 1..size |-> IF i <= total THEN data[i] ELSE 0],
                     io.bytes_transferred + io'.bytes_transferred, io'.error_number)
    /\ FrameCallEnds
    /\ UNCHANGED <<nonblocking, payload_span, send_result>>

FrameStep ==
    \/ SendSome \/ ReceiveSome
    \/ /\ SendHeaderDone \/ SendPayloadDone \/ ReceiveHeaderDone \/ ReceivePayloadDone
       /\ UNCHANGED streamVars
=============================================================================
