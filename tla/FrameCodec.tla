----------------------------- MODULE FrameCodec -----------------------------
(***************************************************************************)
(* The wire format of netpulse::protocol: a payload behind its length, an  *)
(* unsigned number of HeaderSize bytes in network byte order.  Two bytes   *)
(* with two values each stand for the four with 256: what matters is that  *)
(* the length may be zero, at the limit, above it, and split by a read.    *)
(***************************************************************************)
EXTENDS Naturals, Sequences

CONSTANTS
    Radix,       \* values of a byte, 256 in the code
    HeaderSize,  \* kFrameHeaderSize, 4 in the code
    MaxPayload   \* max_payload_size, 2^20 in the code

Bytes == 0..(Radix - 1)

\* What a byte counts for with n bytes behind it, and how many lengths n bytes have.
Weight[n \in 0..HeaderSize] == IF n = 0 THEN 1 ELSE Weight[n - 1] * Radix

ASSUME CodecAssumption ==
    /\ Radix \in Nat \ {0, 1} /\ HeaderSize \in Nat \ {0} /\ MaxPayload \in Nat
    /\ MaxPayload < Weight[HeaderSize]

\* htonl() of a length, most significant byte first.
Header(size) == [i \in 1..HeaderSize |-> (size \div Weight[HeaderSize - i]) % Radix]

\* ntohl() of a header.
PayloadSize(header) ==
    LET value[i \in 0..HeaderSize] ==
          IF i = 0 THEN 0 ELSE value[i - 1] * Radix + header[i]
    IN value[HeaderSize]

\* A frame as it goes over the wire.
Encode(payload) == Header(Len(payload)) \o payload
=============================================================================
