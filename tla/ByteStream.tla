----------------------------- MODULE ByteStream -----------------------------
(***************************************************************************)
(* A TCP connection between a client and the server as the two programs    *)
(* see it: a byte stream in each direction, cut anywhere by send() and     *)
(* recv(), and an end on either side.  External: it is modelled from how   *)
(* the code uses it.                                                       *)
(***************************************************************************)
EXTENDS FrameCodec

CONSTANT SocketBuffer    \* bytes a direction holds before send() would block

ASSUME StreamAssumption == SocketBuffer \in Nat \ {0}

VARIABLES
    inbound,     \* bytes for the server, not received yet
    outbound,    \* bytes for the client, not received yet
    stream,      \* history: the bytes the client has sent and no reset has lost
    taken,       \* history: all bytes the client has received
    client_end,  \* how the client ended its stream: "no", "fin" or "rst"
    server_end   \* how the server ended its own

streamVars == <<inbound, outbound, stream, taken, client_end, server_end>>

StreamTypeOK ==
    /\ inbound \in Seq(Bytes) /\ outbound \in Seq(Bytes)
    /\ Len(inbound) <= SocketBuffer /\ Len(outbound) <= SocketBuffer
    /\ stream \in Seq(Bytes) /\ taken \in Seq(Bytes)
    /\ client_end \in {"no", "fin", "rst"} /\ server_end \in {"no", "fin", "rst"}

StreamInit ==
    /\ inbound = <<>> /\ outbound = <<>>
    /\ stream = <<>> /\ taken = <<>>
    /\ client_end = "no" /\ server_end = "no"

First(n, bytes) == SubSeq(bytes, 1, n)
AllBut(n, bytes) == SubSeq(bytes, n + 1, Len(bytes))

\* The client's send() takes these bytes.  They reach the server if its socket is
\* still open; if not, they may be answered with a reset.
ClientSend(bytes) ==
    /\ client_end = "no" /\ server_end # "rst"
    /\ stream' = stream \o bytes
    /\ \/ /\ server_end = "no"
          /\ Len(inbound) + Len(bytes) <= SocketBuffer
          /\ inbound' = inbound \o bytes
          /\ UNCHANGED server_end
       \/ /\ server_end = "fin"
          /\ server_end' \in {"fin", "rst"}
          /\ UNCHANGED inbound
    /\ UNCHANGED <<outbound, taken, client_end>>

\* The client's recv() gets n bytes.
ClientRecv(n) ==
    /\ n \in 1..Len(outbound)
    /\ taken' = taken \o First(n, outbound)
    /\ outbound' = AllBut(n, outbound)
    /\ UNCHANGED <<inbound, stream, client_end, server_end>>

\* The client ends its stream; a reset may overtake the bytes it has sent.
ClientEnd(how) ==
    /\ client_end' = how
    /\ \E n \in IF how = "rst" THEN 0..Len(inbound) ELSE {Len(inbound)} :
         /\ inbound' = First(n, inbound)
         /\ stream' = First(Len(stream) - Len(inbound) + n, stream)
    /\ UNCHANGED <<outbound, taken, server_end>>

\* The server's close().  With bytes it has not received this is a reset, which may
\* overtake the bytes it has sent.
ServerClose ==
    /\ server_end' = IF inbound # <<>> THEN "rst" ELSE "fin"
    /\ \E n \in IF inbound # <<>> THEN 0..Len(outbound) ELSE {Len(outbound)} :
         outbound' = First(n, outbound)
    /\ inbound' = <<>>
    /\ UNCHANGED <<stream, taken, client_end>>
=============================================================================
