------------------------ MODULE DeviceExchangeProofs ------------------------
(***************************************************************************)
(* The device and the server's connection: the bytes sendFrame() and       *)
(* receiveFrame() account for, and the exchange of one request and one     *)
(* reply that the two programs implement.  What the connection does with   *)
(* its bytes is taken from ConnectionProofs.                               *)
(***************************************************************************)
EXTENDS DeviceExchange, ConnectionProofs

\* The frame the device sends.
Frame == Encode(telemetry)

\* What sendAll() has still to send and what is already in the stream are the frame.
SendInv ==
    /\ frame_call = "send_header" =>
         /\ data = Header(Len(telemetry)) /\ size = HeaderSize /\ payload_span = telemetry
         /\ Len(telemetry) <= MaxPayload /\ stream = First(total, data)
    /\ frame_call = "send_payload" =>
         /\ data = telemetry /\ size = Len(telemetry) /\ io.bytes_transferred = HeaderSize
         /\ Len(telemetry) <= MaxPayload
         /\ stream = Header(Len(telemetry)) \o First(total, data)

\* What receiveExact() has received is what the device has taken, behind the header
\* once that is complete.
ReceiveInv ==
    /\ frame_call = "receive_header" =>
         taken = data /\ total = Len(data) /\ size = HeaderSize
    /\ frame_call = "receive_payload" =>
         /\ taken = Header(size) \o data /\ total = Len(data)
         /\ size \in 0..MaxPayload /\ io.bytes_transferred = HeaderSize

\* Where main() is, and what it has done by then.
ProgramInv ==
    /\ program \in {"starting", "sending", "receiving"} => client_end = "no"
    /\ program = "starting" =>
         frame_call = "none" /\ stream = <<>> /\ send_result = NoResult
    /\ program \in {"starting", "sending"} => taken = <<>> /\ receive_result = NoResult
    /\ program = "sending" => frame_call \in {"none", "send_header", "send_payload"}
    /\ program = "receiving" =>
         /\ frame_call \in {"none", "receive_header", "receive_payload"}
         /\ stream = Frame /\ send_result.bytes_transferred = Len(stream)
         /\ frame_call # "none" => receive_result = NoResult
    /\ program = "returned" => frame_call = "none"

\* The server has read no frame or the device's, and given no reply or one.
FramesInv ==
    /\ \/ frames_read = <<>> /\ consumed = <<>>
       \/ frames_read = <<telemetry>> /\ consumed = Frame
    /\ \/ frames_queued = <<>> /\ accepted = <<>>
       \/ \E reply \in Responses : /\ Len(reply) <= MaxPayload
                                   /\ frames_queued = <<reply>> /\ accepted = Encode(reply)
    /\ Begins(stream, Frame)
    /\ stream # <<>> => Len(telemetry) <= MaxPayload

\* The members of the device and of its calls; the rest of ExchangeTypeOK is the connection's.
DeviceTypes ==
    /\ nonblocking \in BOOLEAN
    /\ frame_call \in {"none", "send_header", "send_payload", "receive_header", "receive_payload"}
    /\ data \in Seq(Bytes) /\ payload_span \in Seq(Bytes)
    /\ size \in 0..(MaxPayload + HeaderSize) /\ total \in 0..size
    /\ program \in {"starting", "sending", "receiving", "returned"}
    /\ telemetry \in Telemetry /\ exit_code \in {0, 1}

DeviceInv == DeviceTypes /\ SendInv /\ ReceiveInv /\ ProgramInv /\ BytesAccounted

ServerInv == ConnectionTypeOK /\ OutputInv /\ InputInv

ExchangeInv == ServerInv /\ DeviceInv /\ FramesInv

\* The telemetry, its header and the constants are what the sequence lemmas ask for.
LEMMA DeviceBytes ==
    ASSUME DeviceTypes
    PROVE  /\ telemetry \in Seq(Bytes) /\ Len(telemetry) \in Nat
           /\ Header(Len(telemetry)) \in Seq(Bytes) /\ Len(Header(Len(telemetry))) = HeaderSize
           /\ Frame \in Seq(Bytes) /\ Len(Frame) = HeaderSize + Len(telemetry)
           /\ HeaderSize \in Nat /\ HeaderSize > 0 /\ MaxPayload \in Nat
           /\ size \in Nat /\ total \in Nat /\ total <= size
<1>1. telemetry \in Seq(Bytes)
  BY DeviceAssumption DEF DeviceTypes
<1>2. Len(telemetry) \in Nat
  BY <1>1
<1>3. HeaderSize \in Nat /\ HeaderSize > 0 /\ MaxPayload \in Nat
  BY CodecAssumption
<1>4. Header(Len(telemetry)) \in [1..HeaderSize -> Bytes]
  BY <1>2, HeaderType
<1>5. Header(Len(telemetry)) \in Seq(Bytes) /\ Len(Header(Len(telemetry))) = HeaderSize
  BY <1>3, <1>4
<1>6. size \in Nat /\ total \in Nat /\ total <= size
  BY <1>3 DEF DeviceTypes
<1> QED BY <1>1, <1>2, <1>3, <1>5, <1>6, EncodeType DEF Frame

\* A frame that begins another is that frame: the header says where it ends.
LEMMA FrameBeginsFrame ==
    ASSUME NEW a \in Seq(Bytes), NEW b \in Seq(Bytes), Len(a) <= MaxPayload, Len(b) <= MaxPayload,
           NEW rest \in Seq(Bytes), Encode(b) = Encode(a) \o rest
    PROVE  a = b
<1>1. /\ Len(a) \in Nat /\ Len(b) \in Nat /\ HeaderSize \in Nat /\ MaxPayload \in Nat
      /\ Len(a) \in 0..(Weight[HeaderSize] - 1) /\ Len(b) \in 0..(Weight[HeaderSize] - 1)
  BY CodecAssumption, WeightDef
<1>2. /\ Header(Len(a)) \in Seq(Bytes) /\ Len(Header(Len(a))) = HeaderSize
      /\ Header(Len(b)) \in Seq(Bytes) /\ Len(Header(Len(b))) = HeaderSize
  <2>1. Header(Len(a)) \in [1..HeaderSize -> Bytes] /\ Header(Len(b)) \in [1..HeaderSize -> Bytes]
    BY <1>1, HeaderType
  <2> QED BY <1>1, <2>1
<1>3. a \o rest \in Seq(Bytes)
  BY ConcatBytes
<1>4. Encode(a) \o rest = Header(Len(a)) \o (a \o rest)
  <2>1. Header(Len(a)) \in Seq(Bytes) /\ a \in Seq(Bytes) /\ rest \in Seq(Bytes)
    BY <1>2
  <2>2. (Header(Len(a)) \o a) \o rest = Header(Len(a)) \o (a \o rest)
    BY <2>1, Associative, Zenon
  <2> QED BY <2>2 DEF Encode
<1>5. Header(Len(b)) \o b = Header(Len(a)) \o (a \o rest)
  BY <1>4 DEF Encode
<1>6. Header(Len(a)) = Header(Len(b)) /\ b = a \o rest
  <2>1. /\ First(HeaderSize, Header(Len(b)) \o b) = Header(Len(b))
        /\ AllBut(HeaderSize, Header(Len(b)) \o b) = b
    BY <1>2, CutAtEnd
  <2>2. /\ First(HeaderSize, Header(Len(a)) \o (a \o rest)) = Header(Len(a))
        /\ AllBut(HeaderSize, Header(Len(a)) \o (a \o rest)) = a \o rest
    <3>1. Header(Len(a)) \in Seq(Bytes) /\ a \o rest \in Seq(Bytes)
      BY <1>2, <1>3
    <3>2. /\ First(Len(Header(Len(a))), Header(Len(a)) \o (a \o rest)) = Header(Len(a))
          /\ AllBut(Len(Header(Len(a))), Header(Len(a)) \o (a \o rest)) = a \o rest
      BY <3>1, CutAtEnd, Zenon
    <3> QED BY <1>2, <3>2
  <2> QED BY <1>5, <2>1, <2>2
<1>7. Len(a) = Len(b)
  <2>1. PayloadSize(Header(Len(a))) = Len(a) /\ PayloadSize(Header(Len(b))) = Len(b)
    BY <1>1, HeaderGivesSize
  <2> QED BY <1>6, <2>1
<1>8. Len(rest) = 0
  <2>1. Len(a \o rest) = Len(a) + Len(rest) /\ Len(rest) \in Nat
    BY ConcatBytes
  <2> QED BY <1>1, <1>6, <1>7, <2>1
<1> QED BY <1>6, <1>8, Empty

\* A cut stream begins the stream, and what begins a beginning begins the whole.
LEMMA BeginsCut ==
    ASSUME NEW s \in Seq(Bytes), NEW n \in Int, n <= Len(s)
    PROVE  Begins(First(n, s), s)
<1>1. CASE n \in Nat
  BY <1>1, Cut DEF Begins
<1>2. CASE n < 0
  <2>1. First(n, s) = <<>>
    BY <1>2, FirstType, SubSeqProperties, Empty DEF First
  <2> QED BY <2>1, Empty DEF Begins
<1> QED BY <1>1, <1>2

\* A beginning of a beginning is a beginning.
LEMMA BeginsTransitive ==
    ASSUME NEW a \in Seq(Bytes), NEW b \in Seq(Bytes), NEW c \in Seq(Bytes),
           Begins(a, b), Begins(b, c)
    PROVE  Begins(a, c)
<1>1. PICK rest \in Seq(Bytes) : b = a \o rest
  BY DEF Begins
<1> QED BY <1>1, BeginsOfConcat

-----------------------------------------------------------------------------
(* The connection takes the steps of Connection.tla.                       *)

\* The server does not touch what the client sends, takes and ends.
LEMMA ServerLeaves ==
    ASSUME ServerStep \/ ConnectionDropped
    PROVE  UNCHANGED <<stream, taken, client_end>>
BY DEF ServerStep, ConnectionDropped, ReadStarts, RecvData, DecodeFrame, DecodeNeedsMore,
       DecodeTooLarge, RecvEnd, RecvFails, RecvWouldBlock, ErrorEvent, QueueFrame, FlushStarts,
       FlushSends, FlushWouldBlock, FlushDrained, FlushFails, Destroyed, ServerClose, streamVars

\* What one send() of sendAll() passes on.
LEMMA SentBytes ==
    ASSUME DeviceTypes, SendInv, Sending, NEW n \in 1..(size - total)
    PROVE  /\ SubSeq(data, total + 1, total + n) = First(n, AllBut(total, data))
           /\ First(n, AllBut(total, data)) \in Seq(Bytes)
           /\ First(total + n, data) = First(total, data) \o First(n, AllBut(total, data))
           /\ First(total, data) \in Seq(Bytes) /\ Len(First(total, data)) = total
           /\ n \in Nat /\ total + n <= size /\ size = Len(data)
<1>1. size = Len(data) /\ data \in Seq(Bytes)
  BY DeviceBytes DEF SendInv, Sending, DeviceTypes
<1>2. n \in Nat /\ total \in Nat /\ size \in Nat /\ total + n <= size /\ total <= size
  BY DeviceBytes
<1>3. /\ SubSeq(data, total + 1, total + n) = First(n, AllBut(total, data))
      /\ First(total + n, data) = First(total, data) \o First(n, AllBut(total, data))
  BY <1>1, <1>2, Slice, CutTwice
<1>4. /\ First(total, data) \in Seq(Bytes) /\ Len(First(total, data)) = total
      /\ AllBut(total, data) \in Seq(Bytes) /\ Len(AllBut(total, data)) = size - total
  BY <1>1, <1>2, Cut
<1>5. First(n, AllBut(total, data)) \in Seq(Bytes)
  BY <1>2, <1>4, Cut
<1> QED BY <1>1, <1>2, <1>3, <1>4, <1>5

\* Every step of the two programs is one the connection's proofs are about.
LEMMA ExchangeIsStep ==
    ASSUME DeviceTypes, SendInv, [ExchangeNext]_exchangeVars
    PROVE  [ConnectionStep]_connectionVars
<1> USE DEF serverVars, connectionVars
<1>1. CASE ExchangeServerStep \/ ConnectionDropped
  BY <1>1 DEF ExchangeServerStep, ConnectionStep
<1>2. ASSUME NEW how \in {"fin", "rst"}, ClientEnd(how), UNCHANGED serverVars
      PROVE  ConnectionStep
  BY <1>2 DEF ConnectionStep, ClientCalls
<1>3. CASE ConnectFails \/ ConnectAndSend \/ AwaitResponse
  BY <1>3 DEF ConnectFails, ConnectAndSend, AwaitResponse
<1>4. CASE SendFailed \/ ResponseDone
  <2>1. UNCHANGED serverVars /\ ClientEnd(IF outbound # <<>> THEN "rst" ELSE "fin")
    BY <1>4 DEF SendFailed, ResponseDone, Returns
  <2> QED BY <1>2, <2>1
<1>5. CASE LateReset
  BY <1>2, <1>5 DEF LateReset
<1>6. CASE FrameStep /\ UNCHANGED serverVars
  <2>1. CASE SendSome
    <3>1. PICK n \in 1..(size - total) : ClientSend(SubSeq(data, total + 1, total + n))
      BY <2>1 DEF SendSome
    <3>2. SubSeq(data, total + 1, total + n) \in Seq(Bytes)
      BY <2>1, SentBytes DEF SendSome
    <3> QED BY <1>6, <3>1, <3>2 DEF ConnectionStep, ClientCalls
  <2>2. CASE ReceiveSome
    <3>1. PICK n \in 1..(size - total) : ClientRecv(n)
      BY <2>2 DEF ReceiveSome
    <3> QED BY <1>6, <3>1 DEF ConnectionStep, ClientCalls, ClientRecv
  <2>3. CASE UNCHANGED streamVars
    BY <1>6, <2>3
  <2> QED BY <1>6, <2>1, <2>2, <2>3 DEF FrameStep
<1>7. CASE UNCHANGED exchangeVars
  BY <1>7 DEF exchangeVars
<1> QED BY <1>1, <1>3, <1>4, <1>5, <1>6, <1>7 DEF ExchangeNext, DeviceStep

\* So the connection keeps its invariants.
LEMMA ServerInvStep ==
    ASSUME ServerInv, DeviceInv, [ExchangeNext]_exchangeVars
    PROVE  ServerInv'
BY ExchangeIsStep, StepTypes, OutputStep, InputStep DEF ServerInv, DeviceInv

-----------------------------------------------------------------------------
(* The device.                                                             *)

\* The loops of io.cpp report what they have moved, and complete when that is all.
LEMMA LoopReturns ==
    ASSUME io' \in SendAllReturns \/ io' \in ReceiveExactReturns
    PROVE  /\ io'.bytes_transferred = total
           /\ FrameStatus(io'.status) = "completed" <=> io'.status = "completed"
           /\ io'.status = "completed" <=> total = size
BY DEF SendAllReturns, ReceiveExactReturns, IoResult, FrameStatus

\* A step that leaves the device's calls alone, as every step of the server does.
LEMMA DeviceIdle ==
    ASSUME DeviceInv, UNCHANGED <<stream, taken, client_end, blockingVars, deviceVars>>
    PROVE  DeviceInv'
BY DEF DeviceInv, DeviceTypes, SendInv, ReceiveInv, ProgramInv, BytesAccounted, Frame,
       blockingVars, ioVars, resultVars, deviceVars

\* All of a sequence is the sequence.
LEMMA CutWhole ==
    ASSUME NEW s \in Seq(Bytes), NEW n \in Nat, n <= Len(s)
    PROVE  /\ First(n, s) \in Seq(Bytes) /\ Len(First(n, s)) = n
           /\ n = Len(s) => First(n, s) = s
<1>1. First(n, s) \in Seq(Bytes) /\ Len(First(n, s)) = n /\ \A i \in 1..n : First(n, s)[i] = s[i]
  BY Cut
<1> QED BY <1>1

\* The payload receiveFrame() completes with is what it has received behind the header.
LEMMA ReceivedWhole ==
    ASSUME DeviceTypes, ReceiveInv, ReceivePayloadDone, receive_result'.status = "completed"
    PROVE  /\ receive_result'.payload = data /\ taken = Encode(data)
           /\ data \in Seq(Bytes) /\ Len(data) <= MaxPayload
<1>1. /\ frame_call = "receive_payload" /\ io' \in ReceiveExactReturns
      /\ taken = Header(size) \o data /\ total = Len(data) /\ size \in 0..MaxPayload
      /\ data \in Seq(Bytes)
  BY DEF ReceivePayloadDone, ReceiveInv, DeviceTypes
<1>2. total = size
  BY <1>1, LoopReturns DEF ReceivePayloadDone, FrameResult
<1>3. receive_result'.payload = [i \in 1..size |-> IF i <= total THEN data[i] ELSE 0]
  BY DEF ReceivePayloadDone, FrameResult
<1>4. receive_result'.payload = data
  <2>1. size = Len(data) /\ size \in Nat
    BY <1>1, <1>2
  <2>2. \A i \in 1..size : i <= total
    BY <1>2, <2>1
  <2>3. [i \in 1..size |-> IF i <= total THEN data[i] ELSE 0] = [i \in 1..size |-> data[i]]
    BY <2>2
  <2>4. data = [i \in 1..Len(data) |-> data[i]]
    BY <1>1
  <2> QED BY <1>3, <2>1, <2>3, <2>4
<1> QED BY <1>1, <1>2, <1>4 DEF Encode

\* main() begins and ends calls.
LEMMA MainStep ==
    ASSUME DeviceInv,
           ConnectFails \/ ConnectAndSend \/ SendFailed \/ AwaitResponse \/ ResponseDone \/ LateReset
    PROVE  DeviceInv'
<1> USE DEF DeviceInv
<1>0. /\ telemetry \in Seq(Bytes) /\ Len(telemetry) \in Nat
      /\ Header(Len(telemetry)) \in Seq(Bytes) /\ Len(Header(Len(telemetry))) = HeaderSize
      /\ HeaderSize \in Nat /\ HeaderSize > 0 /\ MaxPayload \in Nat
      /\ <<>> \in Seq(Bytes) /\ Len(<<>>) = 0
  BY DeviceBytes, Empty
<1>1. CASE ConnectFails
  BY <1>1 DEF ConnectFails, serverVars, streamVars, blockingVars, ioVars, resultVars, DeviceTypes,
         SendInv, ReceiveInv, ProgramInv, BytesAccounted, Frame
<1>2. CASE ConnectAndSend
  <2>0. /\ program = "starting" /\ program' = "sending" /\ SendFrame(telemetry)
        /\ UNCHANGED <<streamVars, telemetry, exit_code>>
        /\ frame_call = "none" /\ stream = <<>> /\ taken = <<>> /\ client_end = "no"
        /\ send_result = NoResult /\ receive_result = NoResult
    BY <1>2 DEF ConnectAndSend, ProgramInv
  <2>1. CASE Len(telemetry) > MaxPayload
    BY <1>0, <2>0, <2>1 DEF SendFrame, FrameResult, streamVars, ioVars, DeviceTypes, NoResult,
       SendInv, ReceiveInv, ProgramInv, BytesAccounted, Frame
  <2>2. CASE Len(telemetry) <= MaxPayload
    <3>1. /\ frame_call' = "send_header" /\ data' = Header(Len(telemetry)) /\ size' = HeaderSize
          /\ total' = 0 /\ payload_span' = telemetry
          /\ UNCHANGED <<nonblocking, io, send_result, receive_result, stream, taken, client_end>>
      BY <1>0, <2>0, <2>2 DEF SendFrame, SendAll, streamVars
    <3>2. First(0, Header(Len(telemetry))) = <<>>
      BY <1>0, Cut, Empty
    <3> QED BY <1>0, <2>0, <2>2, <3>1, <3>2 DEF DeviceTypes, SendInv, ReceiveInv, ProgramInv,
               BytesAccounted, Frame
  <2> QED BY <1>0, <2>1, <2>2
<1>3. CASE SendFailed \/ ResponseDone
  <2>1. /\ program' = "returned" /\ client_end' # "no" /\ exit_code' \in {0, 1}
        /\ frame_call = "none" /\ UNCHANGED <<blockingVars, telemetry>>
    BY <1>3 DEF SendFailed, ResponseDone, Returns, ClientEnd
  <2> QED BY <2>1 DEF blockingVars, ioVars, resultVars, DeviceTypes, SendInv, ReceiveInv,
             ProgramInv, BytesAccounted
<1>4. CASE LateReset
  <2>1. /\ program = "returned" /\ client_end' # "no" /\ UNCHANGED <<blockingVars, deviceVars>>
        /\ frame_call = "none"
    BY <1>4 DEF LateReset, ClientEnd, ProgramInv
  <2> QED BY <2>1 DEF blockingVars, ioVars, resultVars, deviceVars, DeviceTypes, SendInv,
             ReceiveInv, ProgramInv, BytesAccounted
<1>5. CASE AwaitResponse
  <2>1. /\ program = "sending" /\ program' = "receiving" /\ frame_call = "none"
        /\ send_result.status = "completed"
        /\ frame_call' = "receive_header" /\ data' = <<>> /\ size' = HeaderSize /\ total' = 0
        /\ UNCHANGED <<streamVars, telemetry, exit_code, nonblocking, payload_span, resultVars>>
    BY <1>5 DEF AwaitResponse, ReceiveFrame, ReceiveExact
  <2>2. client_end = "no" /\ taken = <<>> /\ receive_result = NoResult
    BY <2>1 DEF ProgramInv
  <2>3. stream = Frame /\ send_result.bytes_transferred = Len(stream)
    BY <2>1, <2>2 DEF BytesAccounted, Frame
  <2> QED BY <1>0, <2>1, <2>2, <2>3 DEF streamVars, resultVars, DeviceTypes, SendInv, ReceiveInv,
             ProgramInv, BytesAccounted, Frame
<1> QED BY <1>1, <1>2, <1>3, <1>4, <1>5

\* One send() or recv() of a loop.
LEMMA TransferStep ==
    ASSUME ConnectionTypeOK, DeviceInv, SendSome \/ ReceiveSome, UNCHANGED deviceVars
    PROVE  DeviceInv'
<1> USE DEF DeviceInv
<1>0. /\ HeaderSize \in Nat /\ HeaderSize > 0 /\ MaxPayload \in Nat
      /\ size \in Nat /\ total \in Nat /\ total <= size /\ data \in Seq(Bytes)
      /\ Header(Len(telemetry)) \in Seq(Bytes)
      /\ taken \in Seq(Bytes) /\ stream \in Seq(Bytes) /\ outbound \in Seq(Bytes)
  BY DeviceBytes DEF DeviceTypes, ConnectionTypeOK, StreamTypeOK
<1>1. CASE SendSome
  <2>1. PICK n \in 1..(size - total) : /\ ClientSend(SubSeq(data, total + 1, total + n))
                                       /\ total' = total + n
    BY <1>1 DEF SendSome
  <2>2. /\ Sending /\ UNCHANGED <<nonblocking, frame_call, data, size, payload_span, resultVars>>
    BY <1>1 DEF SendSome
  <2> DEFINE bytes == First(n, AllBut(total, data))
  <2>3. /\ bytes \in Seq(Bytes) /\ First(total, data) \in Seq(Bytes)
        /\ First(total + n, data) = First(total, data) \o bytes
        /\ SubSeq(data, total + 1, total + n) = bytes
        /\ total' \in 0..size
    <3>1. DeviceTypes /\ SendInv /\ Sending /\ n \in 1..(size - total)
      BY <2>1, <2>2
    <3>2. total' = total + n /\ total + n \in 0..size
      BY <1>0, <2>1
    <3> QED BY <3>1, <3>2, SentBytes
  <2>4. stream' = stream \o bytes /\ UNCHANGED <<taken, client_end>>
    BY <2>1, <2>3 DEF ClientSend
  <2>5. frame_call = "send_header" => stream' = First(total', data)
    BY <2>1, <2>3, <2>4 DEF SendInv
  <2>6. frame_call = "send_payload" => stream' = Header(Len(telemetry)) \o First(total', data)
    <3> SUFFICES ASSUME frame_call = "send_payload"
                 PROVE  stream' = Header(Len(telemetry)) \o First(total', data)
      OBVIOUS
    <3> DEFINE head == Header(Len(telemetry))
               sent == First(total, data)
    <3>1. stream' = (head \o sent) \o bytes
      BY <2>4 DEF SendInv
    <3>2. head \in Seq(Bytes) /\ sent \in Seq(Bytes) /\ bytes \in Seq(Bytes)
      BY <1>0, <2>3
    <3>3. First(total', data) = sent \o bytes
      BY <2>1, <2>3
    <3> HIDE DEF head, sent, bytes
    <3>4. (head \o sent) \o bytes = head \o (sent \o bytes)
      BY <3>2, Associative, Zenon
    <3> QED BY <3>1, <3>3, <3>4 DEF head
  <2> HIDE DEF bytes
  <2>7. frame_call \in {"send_header", "send_payload"} /\ program = "sending"
    BY <2>2 DEF Sending, ProgramInv, DeviceTypes
  <2>8. DeviceTypes'
    BY <2>2, <2>3 DEF DeviceTypes, deviceVars
  <2>9. SendInv' /\ ReceiveInv'
    BY <2>2, <2>5, <2>6, <2>7 DEF SendInv, ReceiveInv, deviceVars, resultVars
  <2> QED BY <2>2, <2>4, <2>7, <2>8, <2>9 DEF ProgramInv, BytesAccounted, deviceVars, resultVars
<1>2. CASE ReceiveSome
  <2>1. PICK n \in 1..(size - total) : /\ ClientRecv(n)
                                       /\ data' = data \o First(n, outbound)
                                       /\ total' = total + n
    BY <1>2 DEF ReceiveSome
  <2>2. /\ Receiving /\ UNCHANGED <<nonblocking, frame_call, size, payload_span, resultVars>>
    BY <1>2 DEF ReceiveSome
  <2> DEFINE bytes == First(n, outbound)
  <2>3. n \in Nat /\ n <= Len(outbound) /\ total' \in 0..size
    BY <1>0, <2>1 DEF ClientRecv
  <2>4. bytes \in Seq(Bytes) /\ Len(bytes) = n
    BY <1>0, <2>3, Cut
  <2>5. taken' = taken \o bytes /\ data' = data \o bytes /\ UNCHANGED <<stream, client_end>>
    BY <2>1 DEF ClientRecv
  <2> HIDE DEF bytes
  <2>6. data' \in Seq(Bytes) /\ Len(data') = Len(data) + n
    BY <1>0, <2>4, <2>5, ConcatBytes
  <2>7. frame_call \in {"receive_header", "receive_payload"} /\ program = "receiving"
    BY <2>2 DEF Receiving, ProgramInv, DeviceTypes
  <2>8. frame_call = "receive_payload" => taken' = Header(size) \o data'
    <3> SUFFICES ASSUME frame_call = "receive_payload" PROVE taken' = Header(size) \o data'
      OBVIOUS
    <3> DEFINE head == Header(size)
    <3>1. taken' = (head \o data) \o bytes
      BY <2>5 DEF ReceiveInv
    <3>2. head \in Seq(Bytes)
      <4>1. head \in [1..HeaderSize -> Bytes]
        BY <1>0, HeaderType
      <4> QED BY <1>0, <4>1
    <3>3. head \in Seq(Bytes) /\ data \in Seq(Bytes) /\ bytes \in Seq(Bytes)
      BY <1>0, <2>4, <3>2
    <3> HIDE DEF head
    <3>4. (head \o data) \o bytes = head \o (data \o bytes)
      BY <3>3, Associative, Zenon
    <3> QED BY <2>5, <3>1, <3>4 DEF head
  <2>9. DeviceTypes'
    BY <2>2, <2>3, <2>6 DEF DeviceTypes, deviceVars
  <2>10. SendInv' /\ ReceiveInv'
    BY <2>1, <2>2, <2>5, <2>6, <2>7, <2>8 DEF SendInv, ReceiveInv, deviceVars, resultVars
  <2> QED BY <2>2, <2>5, <2>7, <2>9, <2>10
      DEF ProgramInv, BytesAccounted, Frame, deviceVars, resultVars
<1> QED BY <1>1, <1>2

\* An I/O call returns to its frame call, which goes on or returns to main().
LEMMA ReturnStep ==
    ASSUME ConnectionTypeOK, DeviceInv, UNCHANGED <<streamVars, deviceVars>>,
           SendHeaderDone \/ SendPayloadDone \/ ReceiveHeaderDone \/ ReceivePayloadDone
    PROVE  DeviceInv'
<1> USE DEF DeviceInv
<1>0. /\ telemetry \in Seq(Bytes) /\ Len(telemetry) \in Nat
      /\ Header(Len(telemetry)) \in Seq(Bytes) /\ Len(Header(Len(telemetry))) = HeaderSize
      /\ HeaderSize \in Nat /\ HeaderSize > 0 /\ MaxPayload \in Nat
      /\ size \in Nat /\ total \in Nat /\ total <= size /\ data \in Seq(Bytes) /\ Len(data) \in Nat
      /\ taken \in Seq(Bytes) /\ stream \in Seq(Bytes)
      /\ <<>> \in Seq(Bytes) /\ Len(<<>>) = 0
  BY DeviceBytes, Empty DEF DeviceTypes, ConnectionTypeOK, StreamTypeOK
<1>1. UNCHANGED <<stream, taken, client_end, program, telemetry, exit_code>>
  BY DEF streamVars, deviceVars
<1>2. CASE SendHeaderDone
  <2>1. /\ frame_call = "send_header" /\ io' \in SendAllReturns /\ program = "sending"
        /\ UNCHANGED <<nonblocking, payload_span, receive_result>>
        /\ data = Header(Len(telemetry)) /\ size = HeaderSize /\ payload_span = telemetry
        /\ Len(telemetry) <= MaxPayload /\ stream = First(total, data)
    BY <1>2 DEF SendHeaderDone, ProgramInv, SendInv, DeviceTypes
  <2>2. Len(stream) = total /\ (total = size => stream = data)
    BY <1>0, <2>1, CutWhole
  <2>3. CASE io'.status = "completed"
    <3>1. /\ frame_call' = "send_payload" /\ data' = telemetry /\ size' = Len(telemetry)
          /\ total' = 0 /\ UNCHANGED send_result /\ io'.bytes_transferred = HeaderSize
          /\ stream = Header(Len(telemetry))
      BY <1>2, <2>1, <2>2, <2>3, LoopReturns DEF SendHeaderDone, SendAll
    <3>2. First(0, telemetry) = <<>>
      BY <1>0, Cut, Empty
    <3>3. stream' = Header(Len(telemetry)) \o First(0, telemetry)
      BY <1>0, <1>1, <3>1, <3>2, Empty
    <3> QED BY <1>0, <1>1, <2>1, <3>1, <3>3
        DEF DeviceTypes, SendInv, ReceiveInv, ProgramInv, BytesAccounted
  <2>4. CASE io'.status # "completed"
    <3>1. /\ frame_call' = "none" /\ UNCHANGED <<data, size, total>>
          /\ send_result'.status # "completed" /\ send_result'.bytes_transferred = Len(stream)
      BY <1>2, <2>1, <2>2, <2>4, LoopReturns DEF SendHeaderDone, FrameCallEnds, FrameResult
    <3> QED BY <1>0, <1>1, <2>1, <3>1 DEF DeviceTypes, SendInv, ReceiveInv, ProgramInv,
               BytesAccounted, NoResult
  <2> QED BY <2>3, <2>4
<1>3. CASE SendPayloadDone
  <2>1. /\ frame_call = "send_payload" /\ io' \in SendAllReturns /\ program = "sending"
        /\ UNCHANGED <<nonblocking, payload_span, receive_result, data, size, total>>
        /\ frame_call' = "none"
        /\ data = telemetry /\ size = Len(telemetry) /\ io.bytes_transferred = HeaderSize
        /\ stream = Header(Len(telemetry)) \o First(total, data)
    BY <1>3 DEF SendPayloadDone, FrameCallEnds, ProgramInv, SendInv, DeviceTypes
  <2>2. /\ First(total, data) \in Seq(Bytes) /\ Len(First(total, data)) = total
        /\ total = size => First(total, data) = data
    BY <1>0, <2>1, CutWhole
  <2>3. Len(stream) = HeaderSize + total
    <3>1. Header(Len(telemetry)) \in Seq(Bytes) /\ First(total, data) \in Seq(Bytes)
      BY <1>0, <2>2
    <3>2. Len(Header(Len(telemetry)) \o First(total, data))
            = Len(Header(Len(telemetry))) + Len(First(total, data))
      BY <3>1, ConcatBytes
    <3> QED BY <1>0, <2>1, <2>2, <3>2
  <2>4. /\ send_result'.bytes_transferred = HeaderSize + total
        /\ send_result'.status = "completed" => total = size
    BY <1>3, <2>1, LoopReturns DEF SendPayloadDone, FrameResult
  <2>5. send_result'.status = "completed" => stream = Encode(telemetry)
    BY <2>1, <2>2, <2>4 DEF Encode
  <2>6. taken = <<>> /\ receive_result = NoResult /\ client_end = "no"
    BY <2>1 DEF ProgramInv
  <2>7. DeviceTypes' /\ SendInv' /\ ReceiveInv' /\ ProgramInv'
    BY <1>1, <2>1, <2>6 DEF DeviceTypes, SendInv, ReceiveInv, ProgramInv
  <2>8. BytesAccounted'
    BY <1>0, <1>1, <2>1, <2>3, <2>4, <2>5, <2>6 DEF BytesAccounted, NoResult
  <2> QED BY <2>7, <2>8
<1>4. CASE ReceiveHeaderDone
  <2>1. /\ frame_call = "receive_header" /\ io' \in ReceiveExactReturns /\ program = "receiving"
        /\ UNCHANGED <<nonblocking, payload_span, send_result>>
        /\ taken = data /\ total = Len(data) /\ size = HeaderSize
        /\ stream = Encode(telemetry) /\ send_result.bytes_transferred = Len(stream)
        /\ receive_result = NoResult
    BY <1>4 DEF ReceiveHeaderDone, ProgramInv, ReceiveInv, DeviceTypes, Frame
  <2>2. CASE io'.status = "completed" /\ PayloadSize(data) <= MaxPayload
    <3>1. total = size /\ Len(data) = HeaderSize /\ io'.bytes_transferred = HeaderSize
      BY <2>1, <2>2, LoopReturns
    <3>2. data \in [1..HeaderSize -> Bytes]
      BY <1>0, <3>1
    <3>3. PayloadSize(data) \in Nat /\ Header(PayloadSize(data)) = data
      BY <3>2, SizeGivesHeader
    <3>4. /\ frame_call' = "receive_payload" /\ data' = <<>> /\ size' = PayloadSize(data)
          /\ total' = 0 /\ UNCHANGED receive_result
      BY <1>4, <2>2 DEF ReceiveHeaderDone, ReceiveExact
    <3>5. taken = Header(size') \o data'
      BY <1>0, <2>1, <3>3, <3>4, Empty
    <3> QED BY <1>0, <1>1, <2>1, <2>2, <3>1, <3>3, <3>4, <3>5
        DEF DeviceTypes, SendInv, ReceiveInv,
               ProgramInv, BytesAccounted, Frame
  <2>3. CASE ~(io'.status = "completed" /\ PayloadSize(data) <= MaxPayload)
    <3>1. /\ frame_call' = "none" /\ UNCHANGED <<data, size, total>>
          /\ receive_result'.status # "completed"
          /\ receive_result'.bytes_transferred = Len(taken)
      BY <1>4, <2>1, <2>3, LoopReturns DEF ReceiveHeaderDone, FrameCallEnds, FrameResult
    <3> QED BY <1>0, <1>1, <2>1, <3>1 DEF DeviceTypes, SendInv, ReceiveInv, ProgramInv,
               BytesAccounted, Frame
  <2> QED BY <2>2, <2>3
<1>5. CASE ReceivePayloadDone
  <2>1. /\ frame_call = "receive_payload" /\ io' \in ReceiveExactReturns /\ program = "receiving"
        /\ UNCHANGED <<nonblocking, payload_span, send_result, data, size, total>>
        /\ frame_call' = "none"
        /\ taken = Header(size) \o data /\ total = Len(data) /\ io.bytes_transferred = HeaderSize
        /\ stream = Encode(telemetry) /\ send_result.bytes_transferred = Len(stream)
    BY <1>5 DEF ReceivePayloadDone, FrameCallEnds, ProgramInv, ReceiveInv, DeviceTypes, Frame
  <2>2. Header(size) \in Seq(Bytes) /\ Len(Header(size)) = HeaderSize
    <3>1. Header(size) \in [1..HeaderSize -> Bytes]
      BY <1>0, HeaderType
    <3> QED BY <1>0, <3>1
  <2>3. receive_result'.bytes_transferred = Len(taken)
    <3>1. Len(taken) = HeaderSize + total
      BY <1>0, <2>1, <2>2, ConcatBytes
    <3> QED BY <1>5, <2>1, <3>1, LoopReturns DEF ReceivePayloadDone, FrameResult
  <2>4. receive_result'.status = "completed" => taken = Encode(receive_result'.payload)
    BY <1>5, ReceivedWhole
  <2> QED BY <1>0, <1>1, <2>1, <2>3, <2>4 DEF DeviceTypes, SendInv, ReceiveInv, ProgramInv,
             BytesAccounted, Frame
<1> QED BY <1>2, <1>3, <1>4, <1>5

\* The device keeps its invariant at every step of the two programs.
LEMMA DeviceInvStep ==
    ASSUME ServerInv, DeviceInv, [ExchangeNext]_exchangeVars
    PROVE  DeviceInv'
<1>1. CASE ExchangeServerStep \/ (ConnectionDropped /\ UNCHANGED <<blockingVars, deviceVars>>)
  <2>1. UNCHANGED <<stream, taken, client_end>>
    BY <1>1, ServerLeaves DEF ExchangeServerStep
  <2> QED BY <1>1, <2>1, DeviceIdle DEF ExchangeServerStep
<1>2. CASE UNCHANGED exchangeVars
  BY <1>2, DeviceIdle DEF exchangeVars, connectionVars, streamVars
<1>3. CASE FrameStep /\ UNCHANGED <<serverVars, deviceVars>>
  BY <1>3, TransferStep, ReturnStep DEF FrameStep, ServerInv
<1> QED BY <1>1, <1>2, <1>3, MainStep DEF ExchangeNext, DeviceStep
-----------------------------------------------------------------------------
(* The frames of the server.                                               *)

\* No step but a send() and the end of the client changes the stream, and it goes on
\* beginning the frame.
LEMMA StreamStep ==
    ASSUME ExchangeInv, DeviceInv', [ExchangeNext]_exchangeVars
    PROVE  /\ Begins(stream', Frame) /\ telemetry' = telemetry
           /\ stream' # <<>> => Len(telemetry) <= MaxPayload
<1>0. /\ telemetry \in Seq(Bytes) /\ Len(telemetry) \in Nat
      /\ Header(Len(telemetry)) \in Seq(Bytes) /\ Len(Header(Len(telemetry))) = HeaderSize
      /\ Frame \in Seq(Bytes) /\ Frame = Header(Len(telemetry)) \o telemetry
      /\ stream \in Seq(Bytes) /\ inbound \in Seq(Bytes)
      /\ Len(stream) \in Nat /\ Len(inbound) \in Nat
      /\ Begins(stream, Frame)
      /\ stream # <<>> => Len(telemetry) <= MaxPayload
  BY DeviceBytes, InputTypes DEF ExchangeInv, DeviceInv, ServerInv, FramesInv, Frame, Encode
<1>1. CASE UNCHANGED <<stream, telemetry>>
  BY <1>0, <1>1
<1>2. ASSUME NEW how, ClientEnd(how), UNCHANGED telemetry
      PROVE  /\ Begins(stream', Frame) /\ telemetry' = telemetry
             /\ stream' # <<>> => Len(telemetry) <= MaxPayload
  <2>1. PICK n \in 0..Len(inbound) : stream' = First(Len(stream) - Len(inbound) + n, stream)
    <3>1. {Len(inbound)} \subseteq 0..Len(inbound)
      BY <1>0
    <3> QED BY <1>2, <3>1 DEF ClientEnd
  <2>2. Len(stream) - Len(inbound) + n \in Int /\ Len(stream) - Len(inbound) + n <= Len(stream)
    BY <1>0, <2>1
  <2>3. Begins(stream', stream) /\ stream' \in Seq(Bytes)
    BY <1>0, <2>1, <2>2, BeginsCut, FirstType
  <2>4. Begins(stream', Frame)
    BY <1>0, <2>3, BeginsTransitive
  <2>5. stream = <<>> => stream' = <<>>
    <3>1. stream = <<>> => Len(stream') <= 0
      BY <1>0, <2>3, BeginsFirst, Empty
    <3> QED BY <2>3, <3>1, Empty
  <2> QED BY <1>0, <1>2, <2>4, <2>5
<1>3. CASE SendSome /\ UNCHANGED deviceVars
  <2>1. /\ SendInv' /\ DeviceTypes' /\ telemetry' = telemetry
        /\ frame_call' \in {"send_header", "send_payload"}
        /\ Frame' = Frame
    BY <1>3 DEF SendSome, Sending, deviceVars, DeviceInv, Frame
  <2>2. /\ Len(telemetry) <= MaxPayload /\ data' \in Seq(Bytes)
        /\ total' \in Nat /\ total' <= Len(data')
    <3>1. total' \in Nat /\ total' <= size'
      BY <2>1, CodecAssumption DEF DeviceTypes
    <3>2. size' = Len(data')
      BY <1>0, <2>1 DEF SendInv
    <3> QED BY <2>1, <3>1, <3>2 DEF SendInv, DeviceTypes
  <2>3. /\ First(total', data') \in Seq(Bytes) /\ Begins(First(total', data'), data')
    BY <2>2, Cut, BeginsCut
  <2>4. CASE frame_call' = "send_header"
    <3>1. stream' = First(total', data') /\ data' = Header(Len(telemetry))
      BY <2>1, <2>4 DEF SendInv
    <3>2. Begins(Header(Len(telemetry)), Frame)
      BY <1>0 DEF Begins
    <3> QED BY <1>0, <2>1, <2>2, <2>3, <3>1, <3>2, BeginsTransitive
  <2>5. CASE frame_call' = "send_payload"
    <3> DEFINE head == Header(Len(telemetry))
               sent == First(total', telemetry)
    <3>1. stream' = head \o sent /\ data' = telemetry
      BY <2>1, <2>5 DEF SendInv
    <3>2. PICK rest \in Seq(Bytes) : telemetry = sent \o rest
      BY <2>3, <3>1 DEF Begins
    <3>3. head \in Seq(Bytes) /\ sent \in Seq(Bytes) /\ rest \in Seq(Bytes)
      BY <1>0, <2>3, <3>1
    <3>4. Frame = head \o (sent \o rest)
      BY <1>0, <3>2
    <3> HIDE DEF head, sent
    <3>5. (head \o sent) \o rest = head \o (sent \o rest)
      BY <3>3, Associative, Zenon
    <3> QED BY <2>1, <2>2, <3>1, <3>3, <3>4, <3>5 DEF Begins
  <2> QED BY <2>1, <2>4, <2>5
<1>4. CASE SendFailed \/ ResponseDone \/ LateReset
  BY <1>2, <1>4 DEF SendFailed, ResponseDone, Returns, LateReset, deviceVars
<1>5. CASE ConnectFails \/ ConnectAndSend \/ AwaitResponse
  BY <1>1, <1>5 DEF ConnectFails, ConnectAndSend, AwaitResponse, streamVars
<1>6. CASE FrameStep /\ ~SendSome /\ UNCHANGED deviceVars
  BY <1>1, <1>6 DEF FrameStep, ReceiveSome, ClientRecv, streamVars, deviceVars
<1>7. CASE ExchangeServerStep \/ (ConnectionDropped /\ UNCHANGED <<blockingVars, deviceVars>>)
  BY <1>1, <1>7, ServerLeaves DEF ExchangeServerStep, deviceVars
<1>8. CASE UNCHANGED exchangeVars
  BY <1>1, <1>8 DEF exchangeVars, connectionVars, streamVars, deviceVars
<1> QED BY <1>3, <1>4, <1>5, <1>6, <1>7, <1>8 DEF ExchangeNext, DeviceStep

\* The steps of the server that read no frame and queue none.
LEMMA FramesKept ==
    ASSUME ServerStep \/ ConnectionDropped, ~DecodeFrame, ~\E payload \in Responses : QueueFrame(payload)
    PROVE  UNCHANGED frameVars
BY DEF ServerStep, ConnectionDropped, ReadStarts, RecvData, DecodeNeedsMore,
       DecodeTooLarge, RecvEnd, RecvFails, RecvWouldBlock, ErrorEvent, FlushStarts,
       FlushSends, FlushWouldBlock, FlushDrained, FlushFails, Destroyed

\* The frame the decoder gives is the device's, and it gives it once.
LEMMA DecodesRequest ==
    ASSUME ExchangeInv, ServerInv', DecodeFrame, stream' = stream
    PROVE  /\ frames_read = <<>> /\ consumed = <<>>
           /\ frames_read' = <<telemetry>> /\ consumed' = Frame
<1>0. /\ telemetry \in Seq(Bytes) /\ Frame \in Seq(Bytes) /\ HeaderSize \in Nat /\ HeaderSize > 0
      /\ Begins(stream, Frame) /\ stream \in Seq(Bytes) /\ consumed \in Seq(Bytes)
      /\ DecoderTypes
  BY DeviceBytes, InputTypes, TypesByPart DEF ExchangeInv, DeviceInv, ServerInv, FramesInv
<1> DEFINE payload == DecodedPayload
<1>1. /\ payload \in Seq(Bytes) /\ Len(payload) <= MaxPayload
      /\ Encode(payload) \in Seq(Bytes) /\ Len(Encode(payload)) = HeaderSize + Len(payload)
      /\ Len(payload) \in Nat
  <2>1. /\ payload \in Seq(Bytes) /\ Len(payload) = NextSize /\ NextSize \in 0..MaxPayload
    BY <1>0, FrameTaken DEF DecodeFrame, DecodeNext
  <2> QED BY <2>1, EncodeType, CodecAssumption
<1>2. consumed' = consumed \o Encode(payload) /\ frames_read' = Append(frames_read, payload)
  BY DEF DecodeFrame
<1> HIDE DEF payload
<1>3. /\ consumed' \in Seq(Bytes) /\ Len(consumed) \in Nat
      /\ Len(consumed') = Len(consumed) + (HeaderSize + Len(payload))
  <2>1. consumed \in Seq(Bytes) /\ Encode(payload) \in Seq(Bytes)
    BY <1>0, <1>1
  <2>2. /\ consumed \o Encode(payload) \in Seq(Bytes) /\ Len(consumed) \in Nat
        /\ Len(consumed \o Encode(payload)) = Len(consumed) + Len(Encode(payload))
    BY <2>1, ConcatBytes
  <2> QED BY <1>1, <1>2, <2>2
<1>4. Begins(consumed', Frame)
  <2>1. Begins(consumed', stream)
    BY DEF ServerInv, InputInv, Begins
  <2> QED BY <1>0, <1>3, <2>1, BeginsTransitive
<1>5. Len(consumed') <= Len(Frame)
  BY <1>0, <1>3, <1>4, BeginsFirst
<1>6. consumed # Frame
  BY <1>0, <1>1, <1>3, <1>5
<1>7. frames_read = <<>> /\ consumed = <<>>
  BY <1>6 DEF ExchangeInv, FramesInv
<1>8. consumed' = Encode(payload)
  BY <1>1, <1>2, <1>7, Empty
<1>9. PICK rest \in Seq(Bytes) : Encode(telemetry) = Encode(payload) \o rest
  BY <1>4, <1>8 DEF Begins, Frame
<1>10. Len(telemetry) <= MaxPayload
  <2>1. stream # <<>>
    <3>1. Begins(consumed', stream)
      BY DEF ServerInv, InputInv, Begins
    <3>2. Len(consumed') <= Len(stream)
      BY <1>0, <1>3, <3>1, BeginsFirst
    <3> QED BY <1>0, <1>1, <1>3, <3>2, Empty
  <2> QED BY <2>1 DEF ExchangeInv, FramesInv
<1>11. payload = telemetry
  BY <1>0, <1>1, <1>9, <1>10, FrameBeginsFrame
<1> QED BY <1>2, <1>7, <1>8, <1>11 DEF Frame

\* The server queues one reply, to the frame it has read.
LEMMA QueuesReply ==
    ASSUME ExchangeInv, NEW payload \in Responses, QueueFrame(payload)
    PROVE  /\ frames_read # <<>> /\ frames_queued = <<>>
           /\ frames_queued' = <<payload>> /\ accepted' = Encode(payload)
           /\ Len(payload) <= MaxPayload
<1>1. payload \in Seq(Bytes)
  BY ConnectionAssumption
<1>2. Len(frames_queued) < Len(frames_read) /\ Len(payload) <= MaxPayload
  <2>1. Len(payload) \in Nat /\ MaxPayload \in Nat
    BY <1>1, CodecAssumption
  <2> QED BY <2>1 DEF QueueFrame, Enqueue, QueueStatus
<1>3. frames_read # <<>> /\ frames_queued = <<>> /\ accepted = <<>>
  BY <1>2 DEF ExchangeInv, FramesInv
<1>4. Encode(payload) \in Seq(Bytes)
  BY <1>1, EncodeType
<1>5. frames_queued' = Append(frames_queued, payload) /\ accepted' = accepted \o Encode(payload)
  BY DEF QueueFrame
<1> QED BY <1>2, <1>3, <1>4, <1>5, Empty

\* Every step keeps the invariant.
LEMMA ExchangeInvStep ==
    ASSUME ExchangeInv, [ExchangeNext]_exchangeVars
    PROVE  ExchangeInv'
<1>1. ServerInv' /\ DeviceInv'
  BY ServerInvStep, DeviceInvStep DEF ExchangeInv
<1>2. /\ Begins(stream', Frame) /\ telemetry' = telemetry /\ Frame' = Frame
      /\ stream' # <<>> => Len(telemetry) <= MaxPayload
  BY <1>1, StreamStep DEF Frame
<1>3. FramesInv'
  <2>1. CASE UNCHANGED frameVars
    BY <1>2, <2>1 DEF FramesInv, ExchangeInv, frameVars, Begins
  <2>2. CASE DecodeFrame
    <3>1. stream' = stream /\ UNCHANGED <<frames_queued, accepted>>
      BY <2>2 DEF DecodeFrame, streamVars
    <3>2. frames_read' = <<telemetry>> /\ consumed' = Frame
      BY <1>1, <2>2, <3>1, DecodesRequest
    <3> QED BY <1>2, <3>1, <3>2 DEF FramesInv, ExchangeInv, Begins
  <2>3. CASE \E payload \in Responses : QueueFrame(payload)
    <3>1. PICK payload \in Responses : QueueFrame(payload)
      BY <2>3
    <3>2. UNCHANGED <<frames_read, consumed>>
      BY <3>1 DEF QueueFrame
    <3>3. /\ frames_queued' = <<payload>> /\ accepted' = Encode(payload)
          /\ Len(payload) <= MaxPayload
      BY <3>1, QueuesReply
    <3> QED BY <1>2, <3>2, <3>3 DEF FramesInv, ExchangeInv, Begins
  <2>4. CASE ~(ServerStep \/ ConnectionDropped)
    <3>1. UNCHANGED frameVars
      BY <2>4 DEF ExchangeNext, ExchangeServerStep, DeviceStep, LateReset, ConnectFails,
         ConnectAndSend, SendFailed, AwaitResponse, ResponseDone, Returns, serverVars,
         exchangeVars, connectionVars
    <3> QED BY <2>1, <3>1
  <2> QED BY <2>1, <2>2, <2>3, <2>4, FramesKept
<1> QED BY <1>1, <1>3 DEF ExchangeInv

\* The two programs start in it.
LEMMA ExchangeStart == ExchangeInit => ExchangeInv
<1> SUFFICES ASSUME ExchangeInit PROVE ExchangeInv
  OBVIOUS
<1>1. ConnectionTypeOK
  BY TypesStart DEF ExchangeInit
<1>2. OutputInv
  BY OutputStart DEF ExchangeInit
<1>3. InputInv
  BY InputStart DEF ExchangeInit
<1>4. DeviceTypes
  BY Empty, DeviceAssumption, CodecAssumption DEF ExchangeInit, BlockingInit, DeviceTypes
<1>5. SendInv /\ ReceiveInv /\ ProgramInv /\ BytesAccounted
  BY Empty DEF ExchangeInit, BlockingInit, ConnectionInit, StreamInit, SendInv, ReceiveInv,
     ProgramInv, BytesAccounted, NoResult
<1>6. FramesInv
  <2>1. Frame \in Seq(Bytes)
    BY <1>4, DeviceBytes
  <2>2. Begins(<<>>, Frame)
    BY <2>1, Empty DEF Begins
  <2> QED BY <2>2 DEF ExchangeInit, ConnectionInit, StreamInit, FramesInv
<1> QED BY <1>1, <1>2, <1>3, <1>4, <1>5, <1>6 DEF ExchangeInv, ServerInv, DeviceInv

\* The invariant of the exchange holds throughout.
LEMMA ExchangeHolds == ExchangeSpec => []ExchangeInv
BY ExchangeStart, ExchangeInvStep, PTL DEF ExchangeSpec
-----------------------------------------------------------------------------
(* Theorems.                                                               *)

\* The buffers of both programs keep their types and their bounds; in particular no loop
\* of io.cpp moves more bytes than its span holds.
THEOREM ExchangeTyped == ExchangeSpec => []ExchangeTypeOK
<1>1. ExchangeInv => ExchangeTypeOK
  BY DEF ExchangeInv, ServerInv, DeviceInv, DeviceTypes, ExchangeTypeOK
<1> QED BY <1>1, ExchangeHolds, PTL

\* Whatever cut a frame call short, it reports the bytes that went over the wire, header
\* included, and completed means the whole frame and no byte more.
THEOREM BytesAreAccounted == ExchangeSpec => []BytesAccounted
<1>1. ExchangeInv => BytesAccounted
  BY DEF ExchangeInv, DeviceInv
<1> QED BY <1>1, ExchangeHolds, PTL

-----------------------------------------------------------------------------
(* The exchange implements RequestReply.                                   *)

\* The payload the device receives is the reply the server has queued.
LEMMA ReceivesReply ==
    ASSUME ExchangeInv, ReceivePayloadDone, receive_result'.status = "completed"
    PROVE  frames_queued = <<receive_result'.payload>>
<1>1. /\ receive_result'.payload = data /\ taken = Encode(data)
      /\ data \in Seq(Bytes) /\ Len(data) <= MaxPayload
  BY ReceivedWhole DEF ExchangeInv, DeviceInv
<1>2. /\ taken \in Seq(Bytes) /\ outbound \in Seq(Bytes) /\ accepted \in Seq(Bytes)
      /\ Begins(Sent, accepted) /\ Sent = taken \o outbound
  BY SentType DEF ExchangeInv, ServerInv, OutputInv, Sent
<1>3. Begins(taken, accepted)
  BY <1>2, BeginsOfConcat
<1>4. accepted # <<>>
  <2>1. Len(taken) <= Len(accepted)
    BY <1>2, <1>3, BeginsFirst
  <2>2. Len(taken) = HeaderSize + Len(data) /\ Len(data) \in Nat
    BY <1>1, EncodeType
  <2> QED BY <2>1, <2>2, Empty, CodecAssumption
<1>5. PICK reply \in Responses : /\ Len(reply) <= MaxPayload
                                 /\ frames_queued = <<reply>> /\ accepted = Encode(reply)
  BY <1>4 DEF ExchangeInv, FramesInv
<1>6. PICK rest \in Seq(Bytes) : Encode(reply) = Encode(data) \o rest
  BY <1>1, <1>3, <1>5 DEF Begins
<1>7. reply \in Seq(Bytes)
  BY ConnectionAssumption
<1>8. data = reply
  BY <1>1, <1>5, <1>6, <1>7, FrameBeginsFrame
<1> QED BY <1>1, <1>5, <1>8

\* The variables of RequestReply that the mapping computes.
Answer == IF receive_result.status = "completed" THEN <<receive_result.payload>> ELSE <<>>
Outcome ==
    IF program # "returned" THEN "running" ELSE IF exit_code = 0 THEN "answered" ELSE "failed"

\* Whatever the server does, it handles the request, replies to it, or nothing is seen of it.
LEMMA ServerRefines ==
    ASSUME ExchangeInv, ServerInv', ServerStep \/ ConnectionDropped,
           UNCHANGED <<blockingVars, deviceVars>>
    PROVE  [Abstract!Next]_(Abstract!vars)
<1>1. UNCHANGED <<telemetry, Answer, Outcome>> /\ stream' = stream
  BY ServerLeaves DEF blockingVars, resultVars, deviceVars, Answer, Outcome
<1>2. CASE DecodeFrame
  <2>1. frames_read = <<>> /\ frames_read' = <<telemetry>>
    BY <1>1, <1>2, DecodesRequest
  <2>2. UNCHANGED frames_queued
    BY <1>2 DEF DecodeFrame
  <2> QED BY <1>1, <2>1, <2>2 DEF Abstract!Next, Abstract!Handle, Answer, Outcome
<1>3. ASSUME NEW payload \in Responses, QueueFrame(payload) PROVE Abstract!Next
  <2>1. frames_read # <<>> /\ frames_queued = <<>> /\ frames_queued' = <<payload>>
    BY <1>3, QueuesReply
  <2>2. UNCHANGED frames_read
    BY <1>3 DEF QueueFrame
  <2> QED BY <1>1, <2>1, <2>2 DEF Abstract!Next, Abstract!Reply, Answer, Outcome
<1>4. CASE UNCHANGED frameVars
  BY <1>1, <1>4 DEF Abstract!vars, frameVars, Answer, Outcome
<1> QED BY <1>2, <1>3, <1>4, FramesKept

\* The device receives the reply, ends, or nothing is seen of its step.
LEMMA DeviceRefines ==
    ASSUME ExchangeInv, DeviceStep \/ LateReset
    PROVE  [Abstract!Next]_(Abstract!vars)
<1>1. UNCHANGED <<telemetry, frames_read, frames_queued>>
  BY DEF DeviceStep, LateReset, ConnectFails, ConnectAndSend, SendFailed, AwaitResponse,
     ResponseDone, Returns, serverVars, frameVars, deviceVars
<1>2. CASE UNCHANGED <<Answer, Outcome>>
  BY <1>1, <1>2 DEF Abstract!vars, Answer, Outcome
<1>3. CASE ConnectFails \/ SendFailed
  <2>1. /\ program # "returned" /\ program' = "returned" /\ exit_code' = 1
        /\ UNCHANGED receive_result
    BY <1>3 DEF ConnectFails, SendFailed, Returns, blockingVars, resultVars
  <2>2. Answer = <<>> /\ Answer' = Answer /\ Outcome = "running" /\ Outcome' = "failed"
    <3>1. receive_result = NoResult
      BY <1>3 DEF ConnectFails, SendFailed, ExchangeInv, DeviceInv, ProgramInv
    <3> QED BY <2>1, <3>1 DEF Answer, Outcome, NoResult
  <2> QED BY <1>1, <2>2 DEF Abstract!Next, Abstract!End, Answer, Outcome
<1>4. CASE ResponseDone
  <2>1. /\ program # "returned" /\ program' = "returned" /\ UNCHANGED receive_result
        /\ exit_code' = IF receive_result.status = "completed" THEN 0 ELSE 1
    BY <1>4 DEF ResponseDone, Returns, blockingVars, resultVars
  <2>2. /\ Answer' = Answer /\ Outcome = "running"
        /\ Outcome' = IF Answer # <<>> THEN "answered" ELSE "failed"
    BY <2>1 DEF Answer, Outcome
  <2> QED BY <1>1, <2>2 DEF Abstract!Next, Abstract!End, Answer, Outcome
<1>5. CASE FrameStep /\ UNCHANGED deviceVars
  <2>1. CASE UNCHANGED receive_result
    BY <1>2, <1>5, <2>1 DEF deviceVars, Answer, Outcome
  <2>2. CASE ReceiveHeaderDone /\ ~UNCHANGED receive_result
    <3>1. receive_result = NoResult /\ receive_result'.status # "completed"
      <4>1. frame_call = "receive_header" /\ program = "receiving"
        BY <2>2 DEF ReceiveHeaderDone, ExchangeInv, DeviceInv, ProgramInv, DeviceTypes
      <4>2. receive_result = NoResult
        BY <4>1 DEF ExchangeInv, DeviceInv, ProgramInv
      <4> QED BY <2>2, <4>2, LoopReturns DEF ReceiveHeaderDone, FrameResult
    <3> QED BY <1>2, <1>5, <3>1 DEF deviceVars, Answer, Outcome, NoResult
  <2>3. CASE ReceivePayloadDone
    <3>1. receive_result = NoResult /\ program = "receiving"
      <4>1. frame_call = "receive_payload" /\ program = "receiving"
        BY <2>3 DEF ReceivePayloadDone, ExchangeInv, DeviceInv, ProgramInv, DeviceTypes
      <4> QED BY <4>1 DEF ExchangeInv, DeviceInv, ProgramInv
    <3>2. Answer = <<>> /\ Outcome = "running" /\ Outcome' = Outcome
      BY <1>5, <3>1 DEF deviceVars, Answer, Outcome, NoResult
    <3>3. CASE receive_result'.status # "completed"
      BY <1>2, <3>2, <3>3 DEF Answer
    <3>4. CASE receive_result'.status = "completed"
      <4>1. frames_queued # <<>> /\ Answer' = frames_queued
        BY <2>3, <3>4, ReceivesReply DEF Answer
      <4> QED BY <1>1, <3>2, <4>1 DEF Abstract!Next, Abstract!Receive, Answer, Outcome
    <3> QED BY <3>3, <3>4
  <2> QED BY <1>5, <2>1, <2>2, <2>3
      DEF FrameStep, SendSome, ReceiveSome, SendHeaderDone, SendPayloadDone, resultVars
<1>6. CASE ConnectAndSend \/ AwaitResponse \/ LateReset
  <2>1. UNCHANGED <<receive_result, exit_code>> /\ (program = "returned" <=> program' = "returned")
    BY <1>6 DEF ConnectAndSend, AwaitResponse, LateReset, SendFrame, ReceiveFrame, blockingVars,
       resultVars, deviceVars
  <2> QED BY <1>2, <2>1 DEF Answer, Outcome
<1> QED BY <1>3, <1>4, <1>5, <1>6 DEF DeviceStep

\* Bytes, framings and programs together do nothing that an exchange of one whole request
\* and one whole reply would not: the server handles the request at most once and as the
\* device gave it, and the device exits with 0 only with the server's reply to it.
THEOREM ExchangeRefinesRequestReply == ExchangeSpec => Abstract!Safety
<1>1. ExchangeInit => Abstract!Init
  BY DEF ExchangeInit, ConnectionInit, BlockingInit, NoResult, Abstract!Init
<1>2. ExchangeInv /\ ExchangeInv' /\ [ExchangeNext]_exchangeVars => [Abstract!Next]_(Abstract!vars)
  <2> SUFFICES ASSUME ExchangeInv, ExchangeInv', [ExchangeNext]_exchangeVars
               PROVE  [Abstract!Next]_(Abstract!vars)
    OBVIOUS
  <2>1. CASE ExchangeServerStep \/ (ConnectionDropped /\ UNCHANGED <<blockingVars, deviceVars>>)
    BY <2>1, ServerRefines DEF ExchangeServerStep, ExchangeInv
  <2>2. CASE DeviceStep \/ LateReset
    BY <2>2, DeviceRefines
  <2>3. CASE UNCHANGED exchangeVars
    BY <2>3 DEF exchangeVars, connectionVars, frameVars, blockingVars, resultVars, deviceVars,
       Abstract!vars
  <2> QED BY <2>1, <2>2, <2>3 DEF ExchangeNext
<1> QED BY <1>1, <1>2, ExchangeHolds, PTL DEF ExchangeSpec, Abstract!Safety
=============================================================================
