--------------------------- MODULE DeviceExchange ---------------------------
(***************************************************************************)
(* tools/device_simulator against a connection of the server: the program  *)
(* connects, sends one frame, receives one, and exits.  Its socket is      *)
(* blocking; with a nonblocking one the same program meets the would_block *)
(* results of its frame calls, too.                                        *)
(***************************************************************************)
EXTENDS Connection, BlockingFrames

CONSTANTS
    Telemetry,  \* payloads the device may send
    Modes       \* values of O_NONBLOCK to look at

ASSUME DeviceAssumption == Telemetry \subseteq Seq(Bytes) /\ Modes \subseteq BOOLEAN

VARIABLES
    program,    \* main(): "starting", "sending", "receiving" or "returned"
    telemetry,  \* what it sends
    exit_code   \* what it has returned, 0 or 1

deviceVars == <<program, telemetry, exit_code>>
exchangeVars == <<connectionVars, blockingVars, deviceVars>>
serverVars == <<decoderVars, writerVars, callVars, frameVars>>

\* The same for both programs; no loop of io.cpp moves more than its span holds.
ExchangeTypeOK ==
    /\ ConnectionTypeOK
    /\ nonblocking \in BOOLEAN
    /\ frame_call \in {"none", "send_header", "send_payload", "receive_header", "receive_payload"}
    /\ data \in Seq(Bytes) /\ payload_span \in Seq(Bytes)
    /\ size \in 0..(MaxPayload + HeaderSize) /\ total \in 0..size
    /\ program \in {"starting", "sending", "receiving", "returned"}
    /\ telemetry \in Telemetry /\ exit_code \in {0, 1}

ExchangeInit ==
    /\ ConnectionInit /\ BlockingInit
    /\ nonblocking \in Modes /\ telemetry \in Telemetry
    /\ program = "starting" /\ exit_code = 0
-----------------------------------------------------------------------------
(* main().                                                                 *)

\* socket(), inet_pton() or connect() fails.
ConnectFails ==
    /\ program = "starting"
    /\ program' = "returned" /\ exit_code' = 1
    /\ UNCHANGED <<serverVars, streamVars, blockingVars, telemetry>>

ConnectAndSend ==
    /\ program = "starting"
    /\ SendFrame(telemetry)
    /\ program' = "sending"
    /\ UNCHANGED <<serverVars, streamVars, telemetry, exit_code>>

\* main() returns, and the destructor of Socket closes: a reset if the server has sent
\* what was not received.
Returns(code) ==
    /\ program' = "returned" /\ exit_code' = code
    /\ ClientEnd(IF outbound # <<>> THEN "rst" ELSE "fin")
    /\ UNCHANGED <<serverVars, blockingVars, telemetry>>

SendFailed ==
    /\ program = "sending" /\ frame_call = "none"
    /\ send_result.status # "completed"
    /\ Returns(1)

AwaitResponse ==
    /\ program = "sending" /\ frame_call = "none"
    /\ send_result.status = "completed"
    /\ ReceiveFrame
    /\ program' = "receiving"
    /\ UNCHANGED <<serverVars, streamVars, telemetry, exit_code>>

\* Mutant: the result of receiveFrame() is not looked at.
ResponseUnchecked ==
    /\ program = "receiving" /\ frame_call = "none"
    /\ Returns(0)

ResponseDone ==
    /\ program = "receiving" /\ frame_call = "none"
    /\ Returns(IF receive_result.status = "completed" THEN 0 ELSE 1)

\* What the server sends to the closed socket is answered with a reset.
LateReset ==
    /\ program = "returned" /\ client_end = "fin" /\ outbound # <<>>
    /\ ClientEnd("rst")
    /\ UNCHANGED <<serverVars, blockingVars, deviceVars>>

DeviceStep ==
    \/ ConnectFails \/ ConnectAndSend \/ SendFailed \/ AwaitResponse \/ ResponseDone
    \/ FrameStep /\ UNCHANGED <<serverVars, deviceVars>>
-----------------------------------------------------------------------------
ExchangeServerStep == ServerStep /\ UNCHANGED <<blockingVars, deviceVars>>

ExchangeNext ==
    \/ DeviceStep \/ LateReset
    \/ ExchangeServerStep
    \/ ConnectionDropped /\ UNCHANGED <<blockingVars, deviceVars>>

\* Both programs keep running; the server answers what it has read or closes.
ExchangeSpec ==
    /\ ExchangeInit /\ [][ExchangeNext]_exchangeVars
    /\ WF_exchangeVars(DeviceStep) /\ WF_exchangeVars(ExchangeServerStep)
-----------------------------------------------------------------------------
(* Properties.                                                             *)

\* Whatever cut the calls short, sendFrame() and receiveFrame() report the bytes that
\* went over the wire, header included, and completed means the whole frame, no byte more.
BytesAccounted ==
    client_end = "no" /\ frame_call = "none" =>
      /\ send_result.bytes_transferred = Len(stream)
      /\ send_result.status = "completed" => stream = Encode(telemetry)
      /\ receive_result.bytes_transferred = Len(taken)
      /\ receive_result.status = "completed" => taken = Encode(receive_result.payload)

Abstract == INSTANCE RequestReply WITH
    Requests <- Telemetry,
    Replies <- Responses,
    request <- telemetry,
    handled <- frames_read,
    replied <- frames_queued,
    answer <- IF receive_result.status = "completed" THEN <<receive_result.payload>> ELSE <<>>,
    outcome <- IF program # "returned" THEN "running" ELSE IF exit_code = 0 THEN "answered" ELSE "failed"

\* The byte streams, the two framings and the program together are the exchange of one
\* whole request and one whole reply, and the program always ends.
ImplementsRequestReply == Abstract!Spec

\* The server releases the connection of a device that is gone, however it went.
DeviceReleased == client_end # "no" ~> call = "closed"

\* io.hpp: error_number has a meaning for the status "error" and is 0 otherwise.
ErrorNumberOnlyOnError == io.status # "error" => io.error_number = 0
=============================================================================
