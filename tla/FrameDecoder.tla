---------------------------- MODULE FrameDecoder ----------------------------
(***************************************************************************)
(* netpulse::protocol::FrameDecoder: bytes come in as the network splits   *)
(* them and whole frames go out.  Decoded bytes stay in front of           *)
(* read_offset_ until compact() drops them.                                *)
(***************************************************************************)
EXTENDS FrameCodec

CONSTANT CompactionThreshold    \* kCompactionThreshold

ASSUME DecoderAssumption == CompactionThreshold \in Nat

VARIABLES
    read_buffer,  \* buffer_
    read_offset   \* read_offset_

decoderVars == <<read_buffer, read_offset>>

DecoderInit == read_buffer = <<>> /\ read_offset = 0

BufferedBytes == Len(read_buffer) - read_offset

\* The bytes not decoded yet.
Undecoded == SubSeq(read_buffer, read_offset + 1, Len(read_buffer))

\* append()
DecoderAppend(data) ==
    /\ read_buffer' = read_buffer \o data
    /\ UNCHANGED read_offset

\* The length in the header at read_offset_.
NextSize == PayloadSize(SubSeq(Undecoded, 1, HeaderSize))

\* Mutants: the last byte of a frame is waited for in vain; the limit is off by one.
DecodeStatusWaits ==
    IF BufferedBytes < HeaderSize THEN "need_more_data"
    ELSE IF NextSize > MaxPayload THEN "payload_too_large"
    ELSE IF BufferedBytes <= HeaderSize + NextSize THEN "need_more_data"
    ELSE "frame_ready"

DecodeStatusLimit ==
    IF BufferedBytes < HeaderSize THEN "need_more_data"
    ELSE IF NextSize >= MaxPayload THEN "payload_too_large"
    ELSE IF BufferedBytes < HeaderSize + NextSize THEN "need_more_data"
    ELSE "frame_ready"

\* The status of decodeNext(); only "frame_ready" changes the decoder.
DecodeStatus ==
    IF BufferedBytes < HeaderSize THEN "need_more_data"
    ELSE IF NextSize > MaxPayload THEN "payload_too_large"
    ELSE IF BufferedBytes < HeaderSize + NextSize THEN "need_more_data"
    ELSE "frame_ready"

DecodedPayload == SubSeq(Undecoded, HeaderSize + 1, HeaderSize + NextSize)

\* Mutant: erased bytes are still counted.
CompactKeepsOffset(offset) ==
    LET size == Len(read_buffer)
        erase == offset = size \/ (offset >= CompactionThreshold /\ offset >= size \div 2)
    IN /\ read_buffer' = IF erase THEN SubSeq(read_buffer, offset + 1, size) ELSE read_buffer
       /\ read_offset' = IF offset = size THEN 0 ELSE offset

\* compact() with read_offset_ = offset: the decoded bytes are erased when nothing
\* else is left, or when there are many of them and they are half of the buffer.
Compact(offset) ==
    LET size == Len(read_buffer)
        erase == offset = size \/ (offset >= CompactionThreshold /\ offset >= size \div 2)
    IN /\ read_buffer' = IF erase THEN SubSeq(read_buffer, offset + 1, size) ELSE read_buffer
       /\ read_offset' = IF erase THEN 0 ELSE offset

\* decodeNext() when it gives DecodedPayload.
DecodeNext ==
    /\ DecodeStatus = "frame_ready"
    /\ Compact(read_offset + HeaderSize + NextSize)
=============================================================================
