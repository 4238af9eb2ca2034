-------------------------- MODULE FrameWriteBuffer --------------------------
(***************************************************************************)
(* netpulse::protocol::FrameWriteBuffer: the encoded frames a connection   *)
(* has still to send.  Bytes in front of write_offset_ have been sent.     *)
(***************************************************************************)
EXTENDS FrameCodec

VARIABLES
    write_bytes,  \* buffer_
    write_offset  \* write_offset_

writerVars == <<write_bytes, write_offset>>

WriterInit == write_bytes = <<>> /\ write_offset = 0

\* The pendingBytes() bytes; empty() and wantsWrite() ask whether there are any.
Pending == SubSeq(write_bytes, write_offset + 1, Len(write_bytes))

\* The FrameQueueStatus of enqueue(payload).
QueueStatus(payload) ==
    IF Len(payload) > MaxPayload THEN "payload_too_large" ELSE "queued"

\* Mutant: compact() forgets the offset and keeps the bytes.
EnqueueKeepsSent(payload) ==
    /\ QueueStatus(payload) = "queued"
    /\ write_bytes' = write_bytes \o Encode(payload)
    /\ write_offset' = 0

\* compact(): the bytes sent are erased, and write_offset_ is 0 again.
Compacted == Pending

\* A successful enqueue(): compact(), then the frame is appended.
Enqueue(payload) ==
    /\ QueueStatus(payload) = "queued"
    /\ write_bytes' = Compacted \o Encode(payload)
    /\ write_offset' = 0

\* One send() of the loop in flush() took n bytes.
FlushAdvances(n) ==
    /\ write_offset' = write_offset + n
    /\ UNCHANGED write_bytes

\* The end of flush(): clear().
FlushClears ==
    /\ write_bytes' = <<>>
    /\ write_offset' = 0
=============================================================================
