-------------------------- MODULE ConnectionProofs --------------------------
(***************************************************************************)
(* Connection.tla for every size of a byte, a header, a buffer and a       *)
(* socket, every client and every way the network cuts the streams.        *)
(***************************************************************************)
EXTENDS Connection, FrameCodecProofs

(* Cutting a byte stream.                                                  *)

\* A concatenation of byte streams, index by index.
LEMMA ConcatBytes ==
    ASSUME NEW s \in Seq(Bytes), NEW t \in Seq(Bytes)
    PROVE  /\ s \o t \in Seq(Bytes) /\ Len(s \o t) = Len(s) + Len(t)
           /\ Len(s) \in Nat /\ Len(t) \in Nat
           /\ \A i \in 1..(Len(s) + Len(t)) :
                (s \o t)[i] = IF i <= Len(s) THEN s[i] ELSE t[i - Len(s)]
BY ConcatProperties, LenProperties

\* A stream is what a read takes of it and what it leaves.
LEMMA Cut ==
    ASSUME NEW s \in Seq(Bytes), NEW n \in Nat, n <= Len(s)
    PROVE  /\ First(n, s) \in Seq(Bytes) /\ Len(First(n, s)) = n
           /\ \A i \in 1..n : First(n, s)[i] = s[i]
           /\ AllBut(n, s) \in Seq(Bytes) /\ Len(AllBut(n, s)) = Len(s) - n
           /\ \A i \in 1..(Len(s) - n) : AllBut(n, s)[i] = s[n + i]
           /\ First(n, s) \o AllBut(n, s) = s
<1>1. Len(s) \in Nat /\ \A i \in 1..Len(s) : s[i] \in Bytes
  BY LenProperties
<1>2. /\ First(n, s) \in Seq(Bytes) /\ Len(First(n, s)) = n
      /\ \A i \in 1..n : First(n, s)[i] = s[i]
  <2>1. \A i \in 1..n : s[i] \in Bytes
    BY <1>1
  <2>2. n \in Int /\ 1 \in Int
    OBVIOUS
  <2>3. /\ SubSeq(s, 1, n) \in Seq(Bytes)
        /\ Len(SubSeq(s, 1, n)) = IF 1 <= n THEN n - 1 + 1 ELSE 0
        /\ \A i \in 1..(n - 1 + 1) : SubSeq(s, 1, n)[i] = s[1 + i - 1]
    BY <2>1, <2>2, SubSeqProperties
  <2> QED BY <2>3 DEF First
<1>3. /\ AllBut(n, s) \in Seq(Bytes) /\ Len(AllBut(n, s)) = Len(s) - n
      /\ \A i \in 1..(Len(s) - n) : AllBut(n, s)[i] = s[n + i]
  <2>1. \A i \in (n + 1)..Len(s) : s[i] \in Bytes
    BY <1>1
  <2>2. n + 1 \in Int /\ Len(s) \in Int
    BY <1>1
  <2>3. /\ SubSeq(s, n + 1, Len(s)) \in Seq(Bytes)
        /\ Len(SubSeq(s, n + 1, Len(s))) = IF n + 1 <= Len(s) THEN Len(s) - (n + 1) + 1 ELSE 0
        /\ \A i \in 1..(Len(s) - (n + 1) + 1) : SubSeq(s, n + 1, Len(s))[i] = s[(n + 1) + i - 1]
    BY <2>1, <2>2, SubSeqProperties
  <2> QED BY <2>3, <1>1 DEF AllBut
<1>4. First(n, s) \o AllBut(n, s) = s
  <2> DEFINE a == First(n, s)
             b == AllBut(n, s)
  <2> HIDE DEF a, b
  <2>1. /\ a \in Seq(Bytes) /\ Len(a) = n /\ \A i \in 1..n : a[i] = s[i]
        /\ b \in Seq(Bytes) /\ Len(b) = Len(s) - n /\ \A i \in 1..(Len(s) - n) : b[i] = s[n + i]
    BY <1>2, <1>3 DEF a, b
  <2>2. /\ a \o b \in Seq(Bytes) /\ Len(a \o b) = Len(s)
        /\ \A i \in 1..Len(s) : (a \o b)[i] = IF i <= n THEN a[i] ELSE b[i - n]
    BY <2>1, <1>1, ConcatBytes
  <2>3. ASSUME NEW i \in 1..Len(s) PROVE (a \o b)[i] = s[i]
    <3>1. CASE i <= n
      BY <3>1, <2>1, <2>2
    <3>2. CASE i > n
      <4>1. i - n \in 1..(Len(s) - n) /\ n + (i - n) = i
        BY <3>2, <1>1
      <4>2. (a \o b)[i] = b[i - n] /\ b[i - n] = s[n + (i - n)]
        BY <4>1, <3>2, <2>1, <2>2
      <4> QED BY <4>1, <4>2
    <3>3. i <= n \/ i > n
      BY <1>1
    <3> QED BY <3>1, <3>2, <3>3
  <2>4. a \o b = s
    BY <2>2, <2>3, SeqEqual
  <2> QED BY <2>4 DEF a, b
<1> QED BY <1>2, <1>3, <1>4

\* Of two streams one after the other, a read takes and leaves the first, when it is as
\* long as the first.
LEMMA CutAtEnd ==
    ASSUME NEW s \in Seq(Bytes), NEW t \in Seq(Bytes)
    PROVE  /\ First(Len(s), s \o t) = s /\ AllBut(Len(s), s \o t) = t
           /\ Len(s) <= Len(s \o t)
<1>1. /\ s \o t \in Seq(Bytes) /\ Len(s \o t) = Len(s) + Len(t)
      /\ Len(s) \in Nat /\ Len(t) \in Nat
      /\ \A i \in 1..(Len(s) + Len(t)) :
           (s \o t)[i] = IF i <= Len(s) THEN s[i] ELSE t[i - Len(s)]
  BY ConcatBytes
<1> DEFINE a == First(Len(s), s \o t)
           b == AllBut(Len(s), s \o t)
<1>2. /\ a \in Seq(Bytes) /\ Len(a) = Len(s) /\ \A i \in 1..Len(s) : a[i] = (s \o t)[i]
      /\ b \in Seq(Bytes) /\ Len(b) = Len(t) /\ \A i \in 1..Len(t) : b[i] = (s \o t)[Len(s) + i]
  <2>1. Len(s) <= Len(s \o t) /\ Len(s \o t) - Len(s) = Len(t)
    BY <1>1
  <2> DEFINE u == s \o t
  <2> HIDE DEF u
  <2>2. /\ First(Len(s), u) \in Seq(Bytes) /\ Len(First(Len(s), u)) = Len(s)
        /\ \A i \in 1..Len(s) : First(Len(s), u)[i] = u[i]
        /\ AllBut(Len(s), u) \in Seq(Bytes) /\ Len(AllBut(Len(s), u)) = Len(u) - Len(s)
        /\ \A i \in 1..(Len(u) - Len(s)) : AllBut(Len(s), u)[i] = u[Len(s) + i]
    BY <1>1, <2>1, Cut DEF u
  <2> QED BY <2>1, <2>2 DEF u
<1> HIDE DEF a, b
<1>3. \A i \in 1..Len(s) : a[i] = s[i]
  BY <1>1, <1>2
<1>4. \A i \in 1..Len(t) : b[i] = t[i]
  BY <1>1, <1>2
<1>5. a = s /\ b = t
  BY <1>2, <1>3, <1>4, SeqEqual
<1> QED BY <1>1, <1>5 DEF a, b

\* Concatenation of byte streams is associative.
LEMMA Associative ==
    ASSUME NEW s \in Seq(Bytes), NEW t \in Seq(Bytes), NEW u \in Seq(Bytes)
    PROVE  (s \o t) \o u = s \o (t \o u)
BY ConcatAssociative

\* The empty stream is neutral, and the only one of length zero.
LEMMA Empty ==
    /\ <<>> \in Seq(Bytes) /\ Len(<<>>) = 0
    /\ \A s \in Seq(Bytes) : s \o <<>> = s /\ <<>> \o s = s
    /\ \A s \in Seq(Bytes) : Len(s) \in Nat
    /\ \A s \in Seq(Bytes) : Len(s) = 0 => s = <<>>
<1>1. <<>> \in Seq(Bytes) /\ Len(<<>>) = 0
  BY EmptySeq
<1>2. \A s \in Seq(Bytes) : s \o <<>> = s /\ <<>> \o s = s
  BY ConcatEmptySeq
<1>3. \A s \in Seq(Bytes) : Len(s) \in Nat
  BY LenProperties
<1>4. \A s \in Seq(Bytes) : Len(s) = 0 => s = <<>>
  BY EmptySeq
<1> QED BY <1>1, <1>2, <1>3, <1>4

\* Shorter reads of the same stream.
LEMMA CutTwice ==
    ASSUME NEW s \in Seq(Bytes), NEW m \in Nat, NEW n \in Nat, m + n <= Len(s)
    PROVE  /\ First(m, First(m + n, s)) = First(m, s)
           /\ First(m + n, s) = First(m, s) \o First(n, AllBut(m, s))
           /\ AllBut(m + n, s) = AllBut(n, AllBut(m, s))
<1> DEFINE a == First(m, s)
           r == AllBut(m, s)
           b == First(n, r)
           c == AllBut(n, r)
<1>0. Len(s) \in Nat /\ m <= Len(s) /\ n <= Len(s) - m
  BY Empty
<1>1. a \in Seq(Bytes) /\ Len(a) = m /\ r \in Seq(Bytes) /\ Len(r) = Len(s) - m /\ a \o r = s
  BY <1>0, Cut
<1> HIDE DEF a, r
<1>2. b \in Seq(Bytes) /\ Len(b) = n /\ c \in Seq(Bytes) /\ b \o c = r
  BY <1>0, <1>1, Cut
<1> HIDE DEF b, c
<1>3. s = (a \o b) \o c
  <2>1. a \in Seq(Bytes) /\ b \in Seq(Bytes) /\ c \in Seq(Bytes)
    BY <1>1, <1>2
  <2>2. (a \o b) \o c = a \o (b \o c)
    BY <2>1, Associative, Zenon
  <2> QED BY <1>1, <1>2, <2>2, Zenon
<1>4. a \o b \in Seq(Bytes) /\ Len(a \o b) = m + n
  BY <1>1, <1>2, ConcatBytes
<1>5. First(m + n, s) = a \o b /\ AllBut(m + n, s) = c
  <2> DEFINE d == a \o b
  <2> HIDE DEF d
  <2>1. First(Len(d), d \o c) = d /\ AllBut(Len(d), d \o c) = c
    BY <1>2, <1>4, CutAtEnd DEF d
  <2> QED BY <1>3, <1>4, <2>1 DEF d
<1>6. First(m, a \o b) = a
  BY <1>1, <1>2, CutAtEnd
<1> QED BY <1>5, <1>6 DEF a, r, b, c

\* What is appended to a stream comes behind what a read leaves of it.
LEMMA CutOfConcat ==
    ASSUME NEW s \in Seq(Bytes), NEW t \in Seq(Bytes), NEW n \in Nat, n <= Len(s)
    PROVE  /\ AllBut(n, s \o t) = AllBut(n, s) \o t
           /\ First(n, s \o t) = First(n, s)
<1> DEFINE a == First(n, s)
           b == AllBut(n, s)
<1>1. a \in Seq(Bytes) /\ Len(a) = n /\ b \in Seq(Bytes) /\ a \o b = s
  BY Cut
<1> HIDE DEF a, b
<1>2. a \in Seq(Bytes) /\ b \in Seq(Bytes) /\ t \in Seq(Bytes)
  BY <1>1
<1>3. (a \o b) \o t = a \o (b \o t)
  BY <1>2, Associative
<1>4. b \o t \in Seq(Bytes)
  BY <1>2, ConcatBytes
<1>5. First(Len(a), a \o (b \o t)) = a /\ AllBut(Len(a), a \o (b \o t)) = b \o t
  <2> DEFINE c == b \o t
  <2> HIDE DEF c
  <2> QED BY <1>2, <1>4, CutAtEnd DEF c
<1> QED BY <1>1, <1>3, <1>5, Zenon DEF a, b

\* Any beginning of a stream.
LEMMA FirstType ==
    ASSUME NEW s \in Seq(Bytes), NEW n \in Int, n <= Len(s)
    PROVE  First(n, s) \in Seq(Bytes)
<1>1. Len(s) \in Nat /\ \A i \in 1..Len(s) : s[i] \in Bytes
  BY LenProperties
<1>2. \A i \in 1..n : s[i] \in Bytes
  BY <1>1
<1> QED BY <1>2, SubSeqProperties DEF First

\* The bytes m + 1 to m + n of a stream.
LEMMA Slice ==
    ASSUME NEW s \in Seq(Bytes), NEW m \in Nat, NEW n \in Nat, m + n <= Len(s)
    PROVE  SubSeq(s, m + 1, m + n) = First(n, AllBut(m, s))
<1> DEFINE a == SubSeq(s, m + 1, m + n)
           r == AllBut(m, s)
           b == First(n, r)
<1>1. Len(s) \in Nat /\ \A i \in 1..Len(s) : s[i] \in Bytes
  BY LenProperties
<1>2. a \in Seq(Bytes) /\ Len(a) = n /\ \A i \in 1..n : a[i] = s[m + i]
  <2>1. \A i \in (m + 1)..(m + n) : s[i] \in Bytes
    BY <1>1
  <2>2. m + 1 \in Int /\ m + n \in Int
    OBVIOUS
  <2>3. /\ a \in Seq(Bytes)
        /\ Len(a) = IF m + 1 <= m + n THEN m + n - (m + 1) + 1 ELSE 0
        /\ \A i \in 1..(m + n - (m + 1) + 1) : a[i] = s[(m + 1) + i - 1]
    BY <2>1, <2>2, SubSeqProperties
  <2> HIDE DEF a
  <2> QED BY <2>3
<1>3. r \in Seq(Bytes) /\ Len(r) = Len(s) - m /\ \A i \in 1..(Len(s) - m) : r[i] = s[m + i]
  <2>1. m <= Len(s)
    BY <1>1
  <2> QED BY <2>1, Cut
<1> HIDE DEF a, r
<1>4. b \in Seq(Bytes) /\ Len(b) = n /\ \A i \in 1..n : b[i] = r[i]
  <2>1. r \in Seq(Bytes) /\ n <= Len(r)
    BY <1>1, <1>3
  <2> QED BY <2>1, Cut
<1> HIDE DEF b
<1>5. \A i \in 1..n : a[i] = b[i]
  BY <1>1, <1>2, <1>3, <1>4
<1>6. a = b
  BY <1>2, <1>4, <1>5, SeqEqual
<1> QED BY <1>6 DEF a, b, r
-----------------------------------------------------------------------------
(* FrameDecoder.                                                           *)

DecoderTypes == read_buffer \in Seq(Bytes) /\ read_offset \in 0..Len(read_buffer)

\* What the decoder has still to decode is read_buffer_ without its first read_offset_ bytes.
LEMMA UndecodedType ==
    ASSUME DecoderTypes
    PROVE  /\ Undecoded = AllBut(read_offset, read_buffer)
           /\ Undecoded \in Seq(Bytes) /\ Len(Undecoded) = BufferedBytes
           /\ BufferedBytes \in Nat /\ Len(read_buffer) \in Nat /\ read_offset \in Nat
<1>1. Undecoded = AllBut(read_offset, read_buffer)
  BY DEF Undecoded, AllBut
<1>2. Len(read_buffer) \in Nat /\ read_offset \in Nat /\ read_offset <= Len(read_buffer)
  BY Empty DEF DecoderTypes
<1>3. /\ AllBut(read_offset, read_buffer) \in Seq(Bytes)
      /\ Len(AllBut(read_offset, read_buffer)) = Len(read_buffer) - read_offset
  BY <1>2, Cut DEF DecoderTypes
<1> QED BY <1>1, <1>2, <1>3 DEF BufferedBytes

\* The header of what is buffered is read as it stands there.
LEMMA HeaderRead ==
    ASSUME DecoderTypes, BufferedBytes >= HeaderSize
    PROVE  /\ NextSize \in 0..(Weight[HeaderSize] - 1)
           /\ Header(NextSize) = First(HeaderSize, Undecoded)
<1> DEFINE h == First(HeaderSize, Undecoded)
<1>1. h \in Seq(Bytes) /\ Len(h) = HeaderSize
  BY UndecodedType, Cut, CodecConstants
<1>2. NextSize = PayloadSize(h)
  BY DEF NextSize, First
<1> HIDE DEF h
<1>3. h \in [1..HeaderSize -> Bytes]
  BY <1>1, LenProperties
<1> QED BY <1>2, <1>3, SizeGivesHeader DEF h

\* decodeNext() hands out the payload of the frame that comes first, and what it takes
\* from the buffer is the encoding of it.
LEMMA FrameTaken ==
    ASSUME DecoderTypes, DecodeStatus = "frame_ready"
    PROVE  LET size == HeaderSize + NextSize
           IN  /\ NextSize \in 0..MaxPayload /\ size \in Nat /\ size <= Len(Undecoded)
               /\ DecodedPayload \in Seq(Bytes) /\ Len(DecodedPayload) = NextSize
               /\ First(size, Undecoded) = Encode(DecodedPayload)
<1>1. /\ BufferedBytes >= HeaderSize
      /\ ~(NextSize > MaxPayload) /\ BufferedBytes >= HeaderSize + NextSize
  <2>0. BufferedBytes \in Nat /\ HeaderSize \in Nat
    BY UndecodedType, CodecConstants
  <2>1. BufferedBytes >= HeaderSize
    BY <2>0 DEF DecodeStatus
  <2>2. NextSize \in Nat
    BY <2>1, HeaderRead, WeightDef, CodecConstants
  <2> QED BY <2>0, <2>1, <2>2 DEF DecodeStatus
<1>2. /\ NextSize \in Nat /\ NextSize \in 0..MaxPayload
      /\ Header(NextSize) = First(HeaderSize, Undecoded)
  BY <1>1, HeaderRead, WeightDef, CodecConstants
<1>3. Undecoded \in Seq(Bytes) /\ Len(Undecoded) = BufferedBytes /\ HeaderSize \in Nat
  BY UndecodedType, CodecConstants
<1>4. HeaderSize + NextSize \in Nat /\ HeaderSize + NextSize <= Len(Undecoded)
  BY <1>1, <1>2, <1>3
<1> DEFINE rest == AllBut(HeaderSize, Undecoded)
<1>5. rest \in Seq(Bytes) /\ NextSize <= Len(rest)
  <2>1. HeaderSize <= Len(Undecoded) /\ Len(Undecoded) \in Nat
    BY <1>2, <1>3, <1>4, Empty
  <2>2. rest \in Seq(Bytes) /\ Len(rest) = Len(Undecoded) - HeaderSize
    BY <1>3, <2>1, Cut
  <2> QED BY <1>2, <1>3, <1>4, <2>1, <2>2
<1>6. DecodedPayload = First(NextSize, rest)
  BY <1>2, <1>3, <1>4, Slice DEF DecodedPayload
<1>7. First(HeaderSize + NextSize, Undecoded) = First(HeaderSize, Undecoded) \o First(NextSize, rest)
  BY <1>2, <1>3, <1>4, CutTwice
<1>8. DecodedPayload \in Seq(Bytes) /\ Len(DecodedPayload) = NextSize
  <2> HIDE DEF rest
  <2> QED BY <1>2, <1>5, <1>6, Cut
<1>9. First(HeaderSize + NextSize, Undecoded) = Encode(DecodedPayload)
  BY <1>2, <1>6, <1>7, <1>8, Zenon DEF Encode
<1> QED BY <1>2, <1>4, <1>8, <1>9

\* decodeNext() leaves the bytes behind that frame, whether compact() erases or not.
LEMMA FrameRemoved ==
    ASSUME DecoderTypes, DecodeNext
    PROVE  DecoderTypes' /\ Undecoded' = AllBut(HeaderSize + NextSize, Undecoded)
<1> DEFINE size == HeaderSize + NextSize
           offset == read_offset + size
           U == Undecoded
<1>1. size \in Nat /\ size <= Len(U) /\ DecodeStatus = "frame_ready"
  BY FrameTaken DEF DecodeNext
<1>2. /\ U = AllBut(read_offset, read_buffer) /\ Len(U) = Len(read_buffer) - read_offset
      /\ Len(read_buffer) \in Nat /\ read_offset \in Nat
      /\ read_buffer \in Seq(Bytes) /\ read_offset <= Len(read_buffer)
  BY UndecodedType DEF BufferedBytes, DecoderTypes
<1>3. offset = read_offset + size /\ offset \in Nat /\ offset <= Len(read_buffer)
  <2> HIDE DEF size, U
  <2> QED BY <1>1, <1>2
<1>4. AllBut(offset, read_buffer) = AllBut(size, U)
  <2> HIDE DEF size, U
  <2> QED BY <1>1, <1>2, <1>3, CutTwice
<1>5. \/ read_buffer' = SubSeq(read_buffer, offset + 1, Len(read_buffer)) /\ read_offset' = 0
      \/ read_buffer' = read_buffer /\ read_offset' = offset
  <2>1. Compact(offset)
    <3>1. offset = read_offset + HeaderSize + NextSize
      BY <1>2, HeaderRead, CodecConstants, FrameTaken DEF DecodeNext
    <3> QED BY <3>1 DEF DecodeNext
  <2> HIDE DEF offset
  <2> QED BY <2>1 DEF Compact
<1> HIDE DEF offset, size
<1>6. CASE read_buffer' = SubSeq(read_buffer, offset + 1, Len(read_buffer)) /\ read_offset' = 0
  <2>1. read_buffer' = AllBut(offset, read_buffer)
    BY <1>6 DEF AllBut
  <2>2. read_buffer' \in Seq(Bytes)
    BY <1>2, <1>3, <2>1, Cut
  <2>3. Undecoded' = read_buffer'
    <3>1. Undecoded' = SubSeq(read_buffer', 1, Len(read_buffer'))
      BY <1>6 DEF Undecoded
    <3> QED BY <2>2, <3>1, SubSeqFull
  <2>4. DecoderTypes'
    BY <1>6, <2>2, LenProperties DEF DecoderTypes
  <2> QED BY <1>4, <2>1, <2>3, <2>4 DEF size
<1>7. CASE read_buffer' = read_buffer /\ read_offset' = offset
  <2>1. Undecoded' = AllBut(offset, read_buffer)
    BY <1>7 DEF Undecoded, AllBut
  <2>2. DecoderTypes'
    BY <1>2, <1>3, <1>7 DEF DecoderTypes
  <2> QED BY <1>4, <2>1, <2>2 DEF size
<1> QED BY <1>5, <1>6, <1>7

\* append() puts the bytes behind what is buffered.
LEMMA BytesAppended ==
    ASSUME DecoderTypes, NEW bytes \in Seq(Bytes), DecoderAppend(bytes)
    PROVE  DecoderTypes' /\ Undecoded' = Undecoded \o bytes
<1>1. /\ read_buffer \in Seq(Bytes) /\ read_offset \in Nat /\ read_offset <= Len(read_buffer)
      /\ Len(read_buffer) \in Nat /\ Undecoded = AllBut(read_offset, read_buffer)
  BY UndecodedType DEF DecoderTypes
<1>2. read_buffer' = read_buffer \o bytes /\ read_offset' = read_offset
  BY DEF DecoderAppend
<1>3. DecoderTypes'
  BY <1>1, <1>2, ConcatBytes DEF DecoderTypes
<1>4. Undecoded' = AllBut(read_offset, read_buffer \o bytes)
  BY <1>2 DEF Undecoded, AllBut
<1> QED BY <1>1, <1>3, <1>4, CutOfConcat
-----------------------------------------------------------------------------
(* FrameWriteBuffer.                                                       *)

WriterTypes == write_bytes \in Seq(Bytes) /\ write_offset \in 0..Len(write_bytes)

\* What the write buffer has still to send is buffer_ without its first write_offset_ bytes.
LEMMA PendingType ==
    ASSUME WriterTypes
    PROVE  /\ Pending = AllBut(write_offset, write_bytes)
           /\ Pending \in Seq(Bytes) /\ Len(Pending) = Len(write_bytes) - write_offset
           /\ Len(write_bytes) \in Nat /\ write_offset \in Nat /\ Len(Pending) \in Nat
           /\ write_bytes \in Seq(Bytes) /\ write_offset <= Len(write_bytes)
<1>1. Pending = AllBut(write_offset, write_bytes)
  BY DEF Pending, AllBut
<1>2. /\ Len(write_bytes) \in Nat /\ write_offset \in Nat /\ write_offset <= Len(write_bytes)
      /\ write_bytes \in Seq(Bytes)
  BY Empty DEF WriterTypes
<1>3. /\ AllBut(write_offset, write_bytes) \in Seq(Bytes)
      /\ Len(AllBut(write_offset, write_bytes)) = Len(write_bytes) - write_offset
  BY <1>2, Cut
<1> QED BY <1>1, <1>2, <1>3

\* A frame on the wire is as long as its header and its payload.
LEMMA EncodeType ==
    ASSUME NEW payload \in Seq(Bytes)
    PROVE  Encode(payload) \in Seq(Bytes) /\ Len(Encode(payload)) = HeaderSize + Len(payload)
<1>1. Len(payload) \in Nat /\ HeaderSize \in Nat
  BY Empty, CodecConstants
<1>2. Header(Len(payload)) \in [1..HeaderSize -> Bytes]
  BY <1>1, HeaderType
<1>3. Header(Len(payload)) \in Seq(Bytes) /\ Len(Header(Len(payload))) = HeaderSize
  BY <1>1, <1>2
<1> QED BY <1>1, <1>3, ConcatBytes DEF Encode

\* enqueue() puts the encoding behind what is pending, whatever compact() erases.
LEMMA FrameEnqueued ==
    ASSUME WriterTypes, NEW payload \in Seq(Bytes), Enqueue(payload)
    PROVE  WriterTypes' /\ Pending' = Pending \o Encode(payload)
<1> DEFINE b == Pending \o Encode(payload)
<1>1. b \in Seq(Bytes) /\ Len(b) \in Nat
  BY PendingType, EncodeType, ConcatBytes, Empty
<1>2. write_bytes' = b /\ write_offset' = 0
  BY DEF Enqueue, Compacted
<1> HIDE DEF b
<1>3. WriterTypes'
  BY <1>1, <1>2 DEF WriterTypes
<1>4. Pending' = SubSeq(b, 1, Len(b))
  BY <1>2 DEF Pending
<1>5. Pending' = b
  BY <1>1, <1>4, SubSeqFull
<1> QED BY <1>3, <1>5 DEF b

\* A send() takes its bytes from the front of what is pending.
LEMMA BytesSent ==
    ASSUME WriterTypes, NEW n \in Nat, n <= Len(Pending), FlushAdvances(n)
    PROVE  WriterTypes' /\ Pending' = AllBut(n, Pending)
<1>1. /\ Pending = AllBut(write_offset, write_bytes)
      /\ Len(Pending) = Len(write_bytes) - write_offset
      /\ Len(write_bytes) \in Nat /\ write_offset \in Nat /\ write_bytes \in Seq(Bytes)
  BY PendingType
<1>2. write_bytes' = write_bytes /\ write_offset' = write_offset + n
  BY DEF FlushAdvances
<1>3. write_offset + n <= Len(write_bytes) /\ write_offset + n \in Nat
  BY <1>1
<1>4. WriterTypes'
  BY <1>1, <1>2, <1>3 DEF WriterTypes
<1>5. Pending' = AllBut(write_offset + n, write_bytes)
  BY <1>2 DEF Pending, AllBut
<1> QED BY <1>1, <1>3, <1>4, <1>5, CutTwice

\* clear() leaves nothing.
LEMMA BufferCleared ==
    ASSUME write_bytes' = <<>>, write_offset' = 0
    PROVE  WriterTypes' /\ Pending' = <<>>
<1>1. Pending' = SubSeq(<<>>, 1, 0)
  BY Empty DEF Pending
<1>2. SubSeq(<<>>, 1, 0) = <<>>
  BY SubSeqEmpty
<1> QED BY <1>1, <1>2, Empty DEF WriterTypes
-----------------------------------------------------------------------------
(* Types.                                                                  *)

CallTypes ==
    /\ call \in {"idle", "recv", "decode", "flush", "closed"}
    /\ read_status \in {"ready", "peer_closed", "protocol_error", "io_error"}

FrameTypes ==
    /\ frames_read \in Seq(Seq(Bytes)) /\ consumed \in Seq(Bytes)
    /\ frames_queued \in Seq(Seq(Bytes)) /\ accepted \in Seq(Bytes)

\* The type invariant by the objects whose members it is about.
LEMMA TypesByPart ==
    ConnectionTypeOK <=> StreamTypeOK /\ DecoderTypes /\ WriterTypes /\ CallTypes /\ FrameTypes
BY DEF ConnectionTypeOK, DecoderTypes, WriterTypes, CallTypes, FrameTypes

\* A system call that transfers something transfers no more than either bound.
LEMMA UptoType ==
    ASSUME NEW a \in Nat, NEW b \in Int, NEW n \in Upto(a, b)
    PROVE  n \in Nat /\ n > 0 /\ n <= a /\ n <= b
BY DEF Upto

\* A connection that is closed leaves its histories and a beginning of what is on the way.
LEMMA ClosedTypes ==
    ASSUME StreamTypeOK, FrameTypes, Destroyed
    PROVE  /\ StreamTypeOK' /\ DecoderTypes' /\ WriterTypes' /\ FrameTypes'
           /\ call' = "closed" /\ inbound' = <<>> /\ server_end' # "no"
           /\ \E n \in Nat : n <= Len(outbound) /\ outbound' = First(n, outbound)
           /\ UNCHANGED <<stream, taken, client_end, frameVars>>
<1>1. PICK n \in Nat : n <= Len(outbound) /\ outbound' = First(n, outbound)
  <2>1. Len(outbound) \in Nat
    BY Empty DEF StreamTypeOK
  <2> QED BY <2>1 DEF Destroyed, ServerClose
<1>2. outbound' \in Seq(Bytes) /\ Len(outbound') = n
  BY <1>1, Cut DEF StreamTypeOK
<1>3. Len(outbound') <= SocketBuffer
  BY <1>1, <1>2, Empty, StreamAssumption DEF StreamTypeOK
<1>4. /\ inbound' = <<>> /\ server_end' \in {"fin", "rst"}
      /\ UNCHANGED <<stream, taken, client_end, frameVars>>
  BY DEF Destroyed, ServerClose
<1>5. StreamTypeOK'
  BY <1>2, <1>3, <1>4, Empty, StreamAssumption DEF StreamTypeOK
<1>6. DecoderTypes' /\ WriterTypes' /\ call' = "closed"
  BY Empty DEF Destroyed, DecoderTypes, WriterTypes
<1>7. FrameTypes'
  BY <1>4 DEF FrameTypes, frameVars
<1> QED BY <1>1, <1>4, <1>5, <1>6, <1>7

\* A client whose calls may pass any number of bytes, and a step of the two.
ClientCalls ==
    /\ \/ \E bytes \in Seq(Bytes) : ClientSend(bytes)
       \/ \E n \in 1..Len(outbound) : ClientRecv(n)
       \/ \E how \in {"fin", "rst"} : ClientEnd(how)
    /\ UNCHANGED <<decoderVars, writerVars, callVars, frameVars>>

ConnectionStep == ServerStep \/ ConnectionDropped \/ ClientCalls

\* Connection.tla sends byte by byte, which is the finest way to cut the stream.
LEMMA NextIsStep == [ConnectionNext]_connectionVars => [ConnectionStep]_connectionVars
<1>1. \A byte \in Bytes : <<byte>> \in Seq(Bytes)
  OBVIOUS
<1>2. ClientStep => ClientCalls
  BY <1>1 DEF ClientStep, ClientCalls
<1> QED BY <1>2 DEF ConnectionNext, ConnectionStep

\* The client's calls keep the types of the streams, and no more than its socket's
\* worth of bytes is on the way.
LEMMA ClientTypes ==
    ASSUME StreamTypeOK, ClientCalls
    PROVE  StreamTypeOK'
<1> USE StreamAssumption
<1>0. /\ Len(inbound) \in Nat /\ Len(outbound) \in Nat /\ Len(stream) \in Nat
      /\ inbound \in Seq(Bytes) /\ outbound \in Seq(Bytes)
      /\ stream \in Seq(Bytes) /\ taken \in Seq(Bytes)
  BY Empty DEF StreamTypeOK
<1>1. ASSUME NEW b \in Seq(Bytes), ClientSend(b) PROVE StreamTypeOK'
  <2>1. stream \o b \in Seq(Bytes)
        /\ inbound \o b \in Seq(Bytes) /\ Len(inbound \o b) = Len(inbound) + Len(b)
    BY <1>0, ConcatBytes
  <2> QED BY <1>1, <2>1 DEF ClientSend, StreamTypeOK
<1>2. ASSUME NEW n \in 1..Len(outbound), ClientRecv(n) PROVE StreamTypeOK'
  <2>1. n \in Nat /\ n <= Len(outbound)
    BY <1>0
  <2>2. /\ First(n, outbound) \in Seq(Bytes) /\ AllBut(n, outbound) \in Seq(Bytes)
        /\ Len(AllBut(n, outbound)) = Len(outbound) - n
    BY <1>0, <2>1, Cut
  <2>3. taken \o First(n, outbound) \in Seq(Bytes)
    BY <1>0, <2>2, ConcatBytes
  <2>4. Len(outbound') <= SocketBuffer
    BY <1>0, <1>2, <2>1, <2>2 DEF ClientRecv, StreamTypeOK
  <2> QED BY <1>2, <2>2, <2>3, <2>4 DEF ClientRecv, StreamTypeOK
<1>3. ASSUME NEW how \in {"fin", "rst"}, ClientEnd(how) PROVE StreamTypeOK'
  <2>1. PICK n \in 0..Len(inbound) :
               /\ inbound' = First(n, inbound)
               /\ stream' = First(Len(stream) - Len(inbound) + n, stream)
    BY <1>0, <1>3 DEF ClientEnd
  <2>2. inbound' \in Seq(Bytes) /\ Len(inbound') = n
    BY <1>0, <2>1, Cut
  <2>3. stream' \in Seq(Bytes)
    <3>1. Len(stream) - Len(inbound) + n \in Int /\ Len(stream) - Len(inbound) + n <= Len(stream)
      BY <1>0
    <3> QED BY <1>0, <2>1, <3>1, FirstType
  <2>4. Len(inbound') <= SocketBuffer
    BY <1>0, <2>1, <2>2 DEF StreamTypeOK
  <2> QED BY <1>3, <2>2, <2>3, <2>4 DEF ClientEnd, StreamTypeOK
<1> QED BY <1>1, <1>2, <1>3 DEF ClientCalls

\* No step of the server, the client or the network leaves the types.
LEMMA StepTypes ==
    ASSUME ConnectionTypeOK, [ConnectionStep]_connectionVars
    PROVE  ConnectionTypeOK'
<1>0. StreamTypeOK /\ DecoderTypes /\ WriterTypes /\ CallTypes /\ FrameTypes
  BY TypesByPart
<1> SUFFICES /\ StreamTypeOK' /\ DecoderTypes' /\ WriterTypes' /\ CallTypes' /\ FrameTypes'
  BY DEF ConnectionTypeOK, DecoderTypes, WriterTypes, CallTypes, FrameTypes
<1>1. CASE \/ ReadStarts \/ DecodeNeedsMore \/ RecvWouldBlock
           \/ FlushStarts \/ FlushWouldBlock \/ UNCHANGED connectionVars
  BY <1>0, <1>1 DEF ReadStarts, DecodeNeedsMore, RecvWouldBlock, FlushStarts, FlushWouldBlock,
     connectionVars, decoderVars, writerVars, streamVars, callVars, frameVars,
     StreamTypeOK, DecoderTypes, WriterTypes, CallTypes, FrameTypes
<1>2. CASE DecodeTooLarge \/ RecvEnd \/ RecvFails \/ ErrorEvent \/ FlushFails \/ ConnectionDropped
  <2>1. Destroyed /\ read_status' \in {read_status, "protocol_error", "peer_closed", "io_error"}
    BY <1>2 DEF DecodeTooLarge, RecvEnd, RecvFails, ErrorEvent, FlushFails, ConnectionDropped
  <2> QED BY <1>0, <2>1, ClosedTypes DEF CallTypes
<1>3. CASE RecvData
  <2>1. PICK n \in Upto(Len(inbound), ReadBufferSize) :
               DecoderAppend(First(n, inbound)) /\ inbound' = AllBut(n, inbound)
    BY <1>3 DEF RecvData
  <2>2. n \in Nat /\ n <= Len(inbound) /\ inbound \in Seq(Bytes) /\ Len(inbound) \in Nat
    BY <1>0, UptoType, Empty, ConnectionAssumption DEF StreamTypeOK
  <2>3. /\ First(n, inbound) \in Seq(Bytes)
        /\ inbound' \in Seq(Bytes) /\ Len(inbound') = Len(inbound) - n
    BY <2>1, <2>2, Cut
  <2>4. DecoderTypes'
    BY <1>0, <2>1, <2>3, BytesAppended
  <2>5. StreamTypeOK'
    BY <1>0, <1>3, <2>2, <2>3, StreamAssumption DEF StreamTypeOK, RecvData
  <2> QED BY <1>0, <1>3, <2>4, <2>5
      DEF RecvData, writerVars, frameVars, WriterTypes, CallTypes, FrameTypes
<1>4. CASE DecodeFrame
  <2>1. DecodedPayload \in Seq(Bytes)
    BY <1>0, <1>4, FrameTaken DEF DecodeFrame, DecodeNext
  <2>2. DecoderTypes'
    BY <1>0, <1>4, FrameRemoved DEF DecodeFrame
  <2>3. frames_read' \in Seq(Seq(Bytes))
    BY <1>0, <1>4, <2>1, AppendProperties DEF DecodeFrame, FrameTypes
  <2>4. consumed' \in Seq(Bytes)
    BY <1>0, <1>4, <2>1, EncodeType, ConcatBytes DEF DecodeFrame, FrameTypes
  <2> QED BY <1>0, <1>4, <2>2, <2>3, <2>4
         
              DEF DecodeFrame, writerVars, streamVars, callVars, WriterTypes, StreamTypeOK, CallTypes, FrameTypes
<1>5. ASSUME NEW payload \in Responses, QueueFrame(payload)
      PROVE  /\ StreamTypeOK' /\ DecoderTypes' /\ WriterTypes' /\ CallTypes' /\ FrameTypes'
  <2>1. payload \in Seq(Bytes)
    BY ConnectionAssumption
  <2>2. WriterTypes'
    BY <1>0, <1>5, <2>1, FrameEnqueued DEF QueueFrame
  <2>3. frames_queued' \in Seq(Seq(Bytes))
    BY <1>0, <1>5, <2>1, AppendProperties DEF QueueFrame, FrameTypes
  <2>4. accepted' \in Seq(Bytes)
    BY <1>0, <1>5, <2>1, EncodeType, ConcatBytes DEF QueueFrame, FrameTypes
  <2> QED BY <1>0, <1>5, <2>2, <2>3, <2>4
         
              DEF QueueFrame, decoderVars, streamVars, callVars, DecoderTypes, StreamTypeOK, CallTypes, FrameTypes
<1>6. CASE FlushSends
  <2>1. PICK n \in Upto(Len(Pending), SocketBuffer - Len(outbound)) :
               FlushAdvances(n) /\ outbound' = outbound \o First(n, Pending)
    BY <1>6 DEF FlushSends
  <2>2. /\ n \in Nat /\ n <= Len(Pending) /\ n <= SocketBuffer - Len(outbound)
        /\ Pending \in Seq(Bytes) /\ outbound \in Seq(Bytes) /\ Len(outbound) \in Nat
    BY <1>0, UptoType, PendingType, Empty, StreamAssumption DEF StreamTypeOK
  <2>3. WriterTypes'
    BY <1>0, <2>1, <2>2, BytesSent
  <2>4. First(n, Pending) \in Seq(Bytes) /\ Len(First(n, Pending)) = n
    BY <2>2, Cut
  <2>5. outbound' \in Seq(Bytes) /\ Len(outbound') = Len(outbound) + n
    BY <2>1, <2>2, <2>4, ConcatBytes
  <2>6. StreamTypeOK'
    BY <1>0, <1>6, <2>2, <2>5, StreamAssumption DEF FlushSends, StreamTypeOK
  <2> QED BY <1>0, <1>6, <2>3, <2>6
      DEF FlushSends, decoderVars, callVars, frameVars, DecoderTypes, CallTypes, FrameTypes
<1>7. CASE FlushDrained
  <2>1. WriterTypes'
    BY <1>7, BufferCleared DEF FlushDrained, FlushClears
  <2> QED BY <1>0, <1>7, <2>1
         
              DEF FlushDrained, decoderVars, streamVars, frameVars, DecoderTypes, StreamTypeOK, CallTypes, FrameTypes
<1>8. CASE ClientCalls
  <2>1. StreamTypeOK'
    BY <1>0, <1>8, ClientTypes
  <2> QED BY <1>0, <1>8, <2>1
         
              DEF ClientCalls, decoderVars, writerVars, callVars, frameVars, DecoderTypes, WriterTypes, CallTypes, FrameTypes
<1> QED BY <1>1, <1>2, <1>3, <1>4, <1>5, <1>6, <1>7, <1>8 DEF ConnectionStep, ServerStep

\* A new connection is well typed.
LEMMA TypesStart == ConnectionInit => ConnectionTypeOK
<1> SUFFICES ASSUME ConnectionInit PROVE ConnectionTypeOK
  OBVIOUS
<1>1. <<>> \in Seq(Bytes) /\ <<>> \in Seq(Seq(Bytes)) /\ Len(<<>>) = 0
  BY Empty, EmptySeq
<1> QED BY <1>1, StreamAssumption
        DEF ConnectionInit, DecoderInit, WriterInit, StreamInit, ConnectionTypeOK, StreamTypeOK

\* The members of Connection and its buffers keep their types, and no offset leaves its
\* buffer, whatever the client sends and however send() and recv() cut it.
THEOREM ConnectionTyped == ConnectionSpec => []ConnectionTypeOK
<1>1. ConnectionInit => ConnectionTypeOK
  BY TypesStart
<1>2. ConnectionTypeOK /\ [ConnectionNext]_connectionVars => ConnectionTypeOK'
  BY StepTypes, NextIsStep
<1> QED BY <1>1, <1>2, PTL DEF ConnectionSpec
-----------------------------------------------------------------------------
(* What the client receives.                                               *)

\* A byte stream that begins with these bytes.
Begins(bytes, s) == \E rest \in Seq(Bytes) : s = bytes \o rest

\* A beginning of a stream is its first bytes.
LEMMA BeginsFirst ==
    ASSUME NEW s \in Seq(Bytes), NEW b \in Seq(Bytes), Begins(b, s)
    PROVE  b = First(Len(b), s) /\ Len(b) <= Len(s)
<1>1. PICK rest \in Seq(Bytes) : s = b \o rest
  BY DEF Begins
<1> QED BY <1>1, CutAtEnd

\* Beginnings of a stream remain beginnings when it is extended, and may be shortened.
LEMMA BeginsOfConcat ==
    ASSUME NEW a \in Seq(Bytes), NEW b \in Seq(Bytes), NEW s \in Seq(Bytes)
    PROVE  /\ Begins(a, a \o b)
           /\ Begins(a \o b, s) => Begins(a, s)
           /\ Begins(a, s) => Begins(a, s \o b)
<1>1. Begins(a, a \o b)
  BY DEF Begins
<1>2. ASSUME Begins(a \o b, s) PROVE Begins(a, s)
  <2>1. PICK rest \in Seq(Bytes) : s = (a \o b) \o rest
    BY <1>2 DEF Begins
  <2>2. (a \o b) \o rest = a \o (b \o rest)
    <3>1. a \in Seq(Bytes) /\ b \in Seq(Bytes) /\ rest \in Seq(Bytes)
      OBVIOUS
    <3> QED BY <3>1, Associative
  <2>3. b \o rest \in Seq(Bytes)
    BY ConcatBytes
  <2> QED BY <2>1, <2>2, <2>3, Zenon DEF Begins
<1>3. ASSUME Begins(a, s) PROVE Begins(a, s \o b)
  <2>1. PICK rest \in Seq(Bytes) : s = a \o rest
    BY <1>3 DEF Begins
  <2>2. (a \o rest) \o b = a \o (rest \o b)
    <3>1. a \in Seq(Bytes) /\ rest \in Seq(Bytes) /\ b \in Seq(Bytes)
      OBVIOUS
    <3> QED BY <3>1, Associative, Zenon
  <2>3. rest \o b \in Seq(Bytes)
    BY ConcatBytes
  <2> QED BY <2>1, <2>2, <2>3, Zenon DEF Begins
<1> QED BY <1>1, <1>2, <1>3

\* The bytes that have left the server's buffer and were not lost.
Sent == taken \o outbound

\* OutputIntact, with the bytes after a close left open: this is inductive.
OutputInv ==
    /\ call # "closed" => Sent \o Pending = accepted
    /\ Begins(Sent, accepted)

\* The streams that the invariant of the output side relates are byte streams.
LEMMA SentType ==
    ASSUME ConnectionTypeOK
    PROVE  /\ Sent \in Seq(Bytes) /\ Len(Sent) = Len(taken) + Len(outbound)
           /\ accepted \in Seq(Bytes) /\ taken \in Seq(Bytes) /\ outbound \in Seq(Bytes)
           /\ Pending \in Seq(Bytes) /\ Len(outbound) \in Nat
BY TypesByPart, ConcatBytes, PendingType, Empty DEF Sent, StreamTypeOK, FrameTypes

\* Every step keeps the invariant of the output side.
LEMMA OutputStep ==
    ASSUME ConnectionTypeOK, OutputInv, [ConnectionStep]_connectionVars
    PROVE  OutputInv'
<1>0. /\ StreamTypeOK /\ DecoderTypes /\ WriterTypes /\ CallTypes /\ FrameTypes
      /\ Sent \in Seq(Bytes) /\ accepted \in Seq(Bytes) /\ taken \in Seq(Bytes)
      /\ outbound \in Seq(Bytes) /\ Pending \in Seq(Bytes) /\ Len(outbound) \in Nat
  BY TypesByPart, SentType
<1>1. CASE /\ UNCHANGED <<taken, outbound, accepted, writerVars>>
           /\ call = "closed" => call' = "closed"
  <2>1. Sent' = Sent /\ Pending' = Pending /\ accepted' = accepted
    BY <1>1 DEF Sent, Pending, writerVars
  <2> QED BY <1>1, <2>1 DEF OutputInv, Begins
<1>2. CASE Destroyed
  <2>1. PICK n \in Nat : n <= Len(outbound) /\ outbound' = First(n, outbound)
    BY <1>0, <1>2, ClosedTypes
  <2>2. call' = "closed" /\ taken' = taken /\ accepted' = accepted
    BY <1>0, <1>2, ClosedTypes DEF frameVars
  <2> DEFINE a == First(n, outbound)
             b == AllBut(n, outbound)
  <2>3. a \in Seq(Bytes) /\ b \in Seq(Bytes) /\ a \o b = outbound
    BY <1>0, <2>1, Cut
  <2> HIDE DEF a, b
  <2>4. Sent = (taken \o a) \o b
    <3>1. taken \in Seq(Bytes) /\ a \in Seq(Bytes) /\ b \in Seq(Bytes)
      BY <1>0, <2>3
    <3>2. (taken \o a) \o b = taken \o (a \o b)
      BY <3>1, Associative, Zenon
    <3> QED BY <2>3, <3>2, Zenon DEF Sent
  <2>5. Sent' = taken \o a /\ taken \o a \in Seq(Bytes)
    BY <1>0, <2>1, <2>2, <2>3, ConcatBytes DEF Sent, a
  <2>6. Begins((taken \o a) \o b, accepted)
    BY <2>4, Zenon DEF OutputInv
  <2>7. Begins(taken \o a, accepted)
    BY <1>0, <2>3, <2>5, <2>6, BeginsOfConcat
  <2> QED BY <2>2, <2>5, <2>7, Zenon DEF OutputInv
<1>3. ASSUME NEW payload \in Responses, QueueFrame(payload) PROVE OutputInv'
  <2> DEFINE e == Encode(payload)
  <2>1. e \in Seq(Bytes) /\ payload \in Seq(Bytes)
    BY ConnectionAssumption, EncodeType
  <2>2. Pending' = Pending \o e /\ accepted' = accepted \o e /\ Sent' = Sent /\ call = "idle"
    BY <1>0, <1>3, <2>1, FrameEnqueued DEF QueueFrame, Sent, streamVars
  <2> HIDE DEF e
  <2>3. Sent \o Pending = accepted
    BY <2>2 DEF OutputInv
  <2>4. Sent \in Seq(Bytes) /\ Pending \in Seq(Bytes) /\ e \in Seq(Bytes)
    BY <1>0, <2>1
  <2>5. (Sent \o Pending) \o e = Sent \o (Pending \o e)
    BY <2>4, Associative
  <2>6. Sent' \o Pending' = accepted'
    BY <2>2, <2>3, <2>5, Zenon
  <2>7. Begins(Sent, accepted \o e)
    BY <1>0, <2>1, BeginsOfConcat DEF OutputInv
  <2> QED BY <2>2, <2>6, <2>7, Zenon DEF OutputInv
<1>4. CASE FlushSends
  <2>1. PICK n \in Upto(Len(Pending), SocketBuffer - Len(outbound)) :
               FlushAdvances(n) /\ outbound' = outbound \o First(n, Pending)
    BY <1>4 DEF FlushSends
  <2>2. n \in Nat /\ n <= Len(Pending)
    BY <1>0, UptoType, Empty, StreamAssumption
  <2> DEFINE a == First(n, Pending)
             b == AllBut(n, Pending)
  <2>3. a \in Seq(Bytes) /\ b \in Seq(Bytes) /\ a \o b = Pending
    BY <1>0, <2>2, Cut
  <2>4. Pending' = b
    BY <1>0, <2>1, <2>2, BytesSent
  <2>5. Sent' = taken \o (outbound \o a) /\ accepted' = accepted /\ call = "flush" /\ call' = "flush"
    BY <1>4, <2>1 DEF FlushSends, Sent, frameVars, callVars
  <2> HIDE DEF a, b
  <2>6. taken \in Seq(Bytes) /\ outbound \in Seq(Bytes) /\ a \in Seq(Bytes) /\ b \in Seq(Bytes)
    BY <1>0, <2>3
  <2>7. (taken \o outbound) \o a = taken \o (outbound \o a)
    BY <2>6, Associative
  <2>8. Sent' = Sent \o a
    BY <2>5, <2>7 DEF Sent
  <2>9. (Sent \o a) \o b = Sent \o (a \o b)
    <3>1. Sent \in Seq(Bytes) /\ a \in Seq(Bytes) /\ b \in Seq(Bytes)
      BY <1>0, <2>6
    <3> QED BY <3>1, Associative, Zenon
  <2>10. Sent' \o Pending' = accepted'
    BY <2>3, <2>4, <2>5, <2>8, <2>9, Zenon DEF OutputInv
  <2>11. Sent \o a \in Seq(Bytes)
    BY <1>0, <2>6, ConcatBytes
  <2>12. Begins(Sent \o a, (Sent \o a) \o b)
    BY <2>6, <2>11, BeginsOfConcat
  <2>13. Begins(Sent', accepted')
    BY <2>4, <2>8, <2>10, <2>12, Zenon
  <2> QED BY <2>10, <2>13 DEF OutputInv
<1>5. CASE FlushDrained
  <2>1. Pending = <<>> /\ Pending' = <<>> /\ Sent' = Sent /\ accepted' = accepted /\ call = "flush"
    BY <1>5, BufferCleared DEF FlushDrained, FlushClears, Sent, streamVars, frameVars
  <2> QED BY <2>1 DEF OutputInv
<1>6. ASSUME NEW n \in 1..Len(outbound), ClientRecv(n), UNCHANGED <<writerVars, callVars, frameVars>>
      PROVE  OutputInv'
  <2> DEFINE a == First(n, outbound)
             b == AllBut(n, outbound)
  <2>0. n \in Nat /\ n <= Len(outbound)
    BY <1>0
  <2>1. a \in Seq(Bytes) /\ b \in Seq(Bytes) /\ a \o b = outbound
    BY <1>0, <2>0, Cut
  <2>2. taken' = taken \o a /\ outbound' = b
    BY <1>6 DEF ClientRecv
  <2> HIDE DEF a, b
  <2>3. taken \in Seq(Bytes) /\ a \in Seq(Bytes) /\ b \in Seq(Bytes)
    BY <1>0, <2>1
  <2>4. (taken \o a) \o b = taken \o (a \o b)
    BY <2>3, Associative
  <2>5. Sent' = Sent
    BY <2>1, <2>2, <2>4, Zenon DEF Sent
  <2>6. Pending' = Pending /\ call' = call /\ accepted' = accepted
    BY <1>6 DEF Pending, writerVars, callVars, frameVars
  <2> QED BY <2>5, <2>6 DEF OutputInv
<1> QED
  <2>1. CASE \/ ReadStarts \/ RecvData \/ DecodeFrame \/ DecodeNeedsMore \/ RecvWouldBlock
             \/ FlushStarts \/ FlushWouldBlock \/ UNCHANGED connectionVars
    BY <2>1, <1>1 DEF ReadStarts, RecvData, DecodeFrame, DecodeNeedsMore, RecvWouldBlock,
       FlushStarts, FlushWouldBlock, connectionVars, streamVars, frameVars, callVars
  <2>2. CASE DecodeTooLarge \/ RecvEnd \/ RecvFails \/ ErrorEvent \/ FlushFails \/ ConnectionDropped
    BY <2>2, <1>2
        DEF DecodeTooLarge, RecvEnd, RecvFails, ErrorEvent, FlushFails, ConnectionDropped
  <2>3. CASE ClientCalls
    <3>1. CASE \E n \in 1..Len(outbound) : ClientRecv(n)
      BY <2>3, <3>1, <1>6 DEF ClientCalls
    <3>2. CASE \/ \E bytes \in Seq(Bytes) : ClientSend(bytes)
               \/ \E how \in {"fin", "rst"} : ClientEnd(how)
      BY <2>3, <3>2, <1>1 DEF ClientCalls, ClientSend, ClientEnd, callVars, frameVars
    <3> QED BY <2>3, <3>1, <3>2 DEF ClientCalls
  <2> QED BY <2>1, <2>2, <2>3, <1>3, <1>4, <1>5 DEF ConnectionStep, ServerStep

\* A new connection has sent nothing.
LEMMA OutputStart == ConnectionInit => OutputInv
<1> SUFFICES ASSUME ConnectionInit PROVE OutputInv
  OBVIOUS
<1>1. taken = <<>> /\ outbound = <<>> /\ accepted = <<>> /\ Pending = SubSeq(<<>>, 1, 0)
  BY Empty DEF ConnectionInit, StreamInit, WriterInit, Pending
<1>2. Pending = <<>>
  BY <1>1, SubSeqEmpty
<1>3. Sent = <<>> /\ Sent \o Pending = accepted
  BY <1>1, <1>2, Empty DEF Sent
<1>4. Begins(Sent, accepted)
  BY <1>1, <1>2, <1>3, Empty DEF Begins
<1> QED BY <1>3, <1>4 DEF OutputInv

\* flush() and send() cut the responses anywhere and the client takes them as it likes:
\* what it has, what is on the way and what is pending are the encodings of the frames
\* queueFrame() has accepted, and after a close a beginning of them.
THEOREM OutputIsIntact == ConnectionSpec => []OutputIntact
<1>1. ConnectionInit => OutputInv
  BY OutputStart
<1>2. ConnectionTypeOK /\ OutputInv /\ [ConnectionNext]_connectionVars => OutputInv'
  BY OutputStep, NextIsStep
<1>3. ConnectionTypeOK /\ OutputInv => OutputIntact
  <2> SUFFICES ASSUME ConnectionTypeOK, OutputInv PROVE OutputIntact
    OBVIOUS
  <2>1. Sent = First(Len(Sent), accepted)
    BY SentType, BeginsFirst DEF OutputInv
  <2> QED BY <2>1, SentType DEF OutputIntact, OutputInv, Sent
<1> QED BY <1>1, <1>2, <1>3, ConnectionTyped, PTL DEF ConnectionSpec
-----------------------------------------------------------------------------
(* What the client has sent.                                               *)

\* InputIntact, with what a closed connection no longer takes: this is inductive.
InputInv ==
    /\ call # "closed" => consumed \o Undecoded \o inbound = stream /\ server_end = "no"
    /\ call = "closed" => inbound = <<>> /\ server_end # "no"
    /\ Begins(consumed, stream)

\* The streams that the invariant of the input side relates are byte streams.
LEMMA InputTypes ==
    ASSUME ConnectionTypeOK
    PROVE  /\ consumed \in Seq(Bytes) /\ Undecoded \in Seq(Bytes) /\ inbound \in Seq(Bytes)
           /\ consumed \o Undecoded \in Seq(Bytes) /\ stream \in Seq(Bytes)
           /\ Len(inbound) \in Nat /\ Len(stream) \in Nat /\ Len(consumed) \in Nat
BY TypesByPart, UndecodedType, ConcatBytes, Empty DEF StreamTypeOK, FrameTypes

\* The bytes of the decoder and the socket follow the frames that have been read.
LEMMA InputBegins ==
    ASSUME ConnectionTypeOK, consumed \o Undecoded \o inbound = stream
    PROVE  Begins(consumed, stream) /\ stream = consumed \o (Undecoded \o inbound)
<1>1. consumed \in Seq(Bytes) /\ Undecoded \in Seq(Bytes) /\ inbound \in Seq(Bytes)
  BY InputTypes
<1>2. (consumed \o Undecoded) \o inbound = consumed \o (Undecoded \o inbound)
  BY <1>1, Associative, Zenon
<1>3. Undecoded \o inbound \in Seq(Bytes)
  BY <1>1, ConcatBytes
<1> QED BY <1>2, <1>3, Zenon DEF Begins

\* Every step keeps the invariant of the input side.
LEMMA InputStep ==
    ASSUME ConnectionTypeOK, InputInv, [ConnectionStep]_connectionVars
    PROVE  InputInv'
<1>0. /\ StreamTypeOK /\ DecoderTypes /\ WriterTypes /\ CallTypes /\ FrameTypes
      /\ consumed \in Seq(Bytes) /\ Undecoded \in Seq(Bytes) /\ inbound \in Seq(Bytes)
      /\ consumed \o Undecoded \in Seq(Bytes) /\ stream \in Seq(Bytes)
      /\ Len(inbound) \in Nat /\ Len(stream) \in Nat
  BY TypesByPart, InputTypes
<1>1. CASE /\ UNCHANGED <<decoderVars, inbound, stream, server_end, consumed>>
           /\ call = "closed" <=> call' = "closed"
  <2>1. Undecoded' = Undecoded /\ consumed' = consumed /\ stream' = stream
    BY <1>1 DEF Undecoded, decoderVars
  <2> QED BY <1>1, <2>1 DEF InputInv, Begins
<1>2. CASE Destroyed
  BY <1>0, <1>2, ClosedTypes DEF InputInv, frameVars, Begins
<1>3. CASE RecvData
  <2>1. PICK n \in Upto(Len(inbound), ReadBufferSize) :
               DecoderAppend(First(n, inbound)) /\ inbound' = AllBut(n, inbound)
    BY <1>3 DEF RecvData
  <2>2. n \in Nat /\ n <= Len(inbound)
    BY <1>0, UptoType, ConnectionAssumption
  <2> DEFINE a == First(n, inbound)
             b == AllBut(n, inbound)
  <2>3. a \in Seq(Bytes) /\ b \in Seq(Bytes) /\ a \o b = inbound
    BY <1>0, <2>2, Cut
  <2>4. Undecoded' = Undecoded \o a
    BY <1>0, <2>1, <2>3, BytesAppended
  <2>5. /\ inbound' = b /\ consumed' = consumed /\ stream' = stream /\ server_end' = server_end
        /\ call = "recv" /\ call' = "decode"
    BY <1>3, <2>1 DEF RecvData, frameVars
  <2> HIDE DEF a, b
  <2>6. consumed \in Seq(Bytes) /\ Undecoded \in Seq(Bytes) /\ a \in Seq(Bytes) /\ b \in Seq(Bytes)
        /\ consumed \o Undecoded \in Seq(Bytes)
    BY <1>0, <2>3
  <2>7. consumed \o (Undecoded \o a) = (consumed \o Undecoded) \o a
    <3>1. consumed \in Seq(Bytes) /\ Undecoded \in Seq(Bytes) /\ a \in Seq(Bytes)
      BY <2>6
    <3> QED BY <3>1, Associative, Zenon
  <2>8. ((consumed \o Undecoded) \o a) \o b = (consumed \o Undecoded) \o (a \o b)
    <3> DEFINE c == consumed \o Undecoded
    <3> HIDE DEF c
    <3>1. c \in Seq(Bytes) /\ a \in Seq(Bytes) /\ b \in Seq(Bytes)
      BY <2>6 DEF c
    <3>2. (c \o a) \o b = c \o (a \o b)
      BY <3>1, Associative, Zenon
    <3> QED BY <3>2 DEF c
  <2>9. consumed' \o Undecoded' \o inbound' = stream'
    BY <2>3, <2>4, <2>5, <2>7, <2>8, Zenon DEF InputInv
  <2> QED BY <2>5, <2>9 DEF InputInv, Begins
<1>4. CASE DecodeFrame
  <2> DEFINE n == HeaderSize + NextSize
             e == Encode(DecodedPayload)
             r == AllBut(n, Undecoded)
  <2>1. n \in Nat /\ n <= Len(Undecoded) /\ First(n, Undecoded) = e
    BY <1>0, <1>4, FrameTaken DEF DecodeFrame, DecodeNext
  <2>2. Undecoded' = r
    BY <1>0, <1>4, FrameRemoved DEF DecodeFrame
  <2> HIDE DEF n, e
  <2>3. e \in Seq(Bytes) /\ r \in Seq(Bytes) /\ e \o r = Undecoded
    BY <1>0, <2>1, Cut
  <2>4. /\ consumed' = consumed \o e /\ inbound' = inbound /\ stream' = stream
        /\ server_end' = server_end /\ call = "decode" /\ call' = "decode"
    BY <1>4 DEF DecodeFrame, streamVars, callVars, e
  <2> HIDE DEF r
  <2>5. consumed \in Seq(Bytes) /\ e \in Seq(Bytes) /\ r \in Seq(Bytes)
    BY <1>0, <2>3
  <2>6. (consumed \o e) \o r = consumed \o (e \o r)
    BY <2>5, Associative
  <2>7. consumed' \o Undecoded' = consumed \o Undecoded
    BY <2>2, <2>3, <2>4, <2>6, Zenon
  <2>8. consumed' \o Undecoded' \o inbound' = stream'
    BY <2>4, <2>7 DEF InputInv
  <2>9. ConnectionTypeOK'
    BY StepTypes
  <2>10. Begins(consumed', stream')
    <3>1. (ConnectionTypeOK /\ consumed \o Undecoded \o inbound = stream => Begins(consumed, stream))'
      BY InputBegins, PTL
    <3> QED BY <2>8, <2>9, <3>1
  <2> QED BY <2>4, <2>8, <2>10 DEF InputInv
<1>5. ASSUME NEW b \in Seq(Bytes), ClientSend(b), UNCHANGED <<decoderVars, callVars, frameVars>>
      PROVE  InputInv'
  <2>1. b \in Seq(Bytes)
    OBVIOUS
  <2>2. Undecoded' = Undecoded /\ consumed' = consumed /\ call' = call /\ stream' = stream \o b
    BY <1>5 DEF ClientSend, Undecoded, decoderVars, callVars, frameVars
  <2>3. Begins(consumed, stream \o b)
    BY <1>0, <2>1, BeginsOfConcat DEF InputInv
  <2>4. CASE call = "closed"
    <3>1. inbound' = inbound /\ server_end' # "no"
      BY <1>5, <2>4 DEF ClientSend, InputInv
    <3> QED BY <2>2, <2>3, <2>4, <3>1 DEF InputInv
  <2>5. CASE call # "closed"
    <3>1. inbound' = inbound \o b /\ server_end' = "no"
      BY <1>5, <2>5 DEF ClientSend, InputInv
    <3> DEFINE c == consumed \o Undecoded
    <3>2. c \in Seq(Bytes) /\ c \o inbound = stream
      BY <1>0, <2>5 DEF InputInv
    <3> HIDE DEF c
    <3>3. (c \o inbound) \o b = c \o (inbound \o b)
      <4>1. c \in Seq(Bytes) /\ inbound \in Seq(Bytes) /\ b \in Seq(Bytes)
        BY <1>0, <2>1, <3>2
      <4> QED BY <4>1, Associative, Zenon
    <3>4. consumed' \o Undecoded' \o inbound' = stream'
      BY <2>2, <3>1, <3>2, <3>3, Zenon DEF c
    <3> QED BY <2>2, <2>3, <2>5, <3>1, <3>4 DEF InputInv
  <2> QED BY <2>4, <2>5
<1>6. ASSUME NEW how \in {"fin", "rst"}, ClientEnd(how), UNCHANGED <<decoderVars, callVars, frameVars>>
      PROVE  InputInv'
  <2>1. PICK n \in 0..Len(inbound) :
               /\ inbound' = First(n, inbound)
               /\ stream' = First(Len(stream) - Len(inbound) + n, stream)
    BY <1>0, <1>6 DEF ClientEnd
  <2>2. /\ Undecoded' = Undecoded /\ consumed' = consumed /\ call' = call
        /\ server_end' = server_end
    BY <1>6 DEF ClientEnd, Undecoded, decoderVars, callVars, frameVars
  <2>3. CASE call = "closed"
    <3>1. inbound = <<>> /\ n = 0 /\ Len(stream) - Len(inbound) + n = Len(stream)
      BY <1>0, <2>3, Empty DEF InputInv
    <3>2. inbound' = <<>>
      BY <2>1, <3>1, SubSeqEmpty DEF First
    <3>3. stream' = stream
      BY <1>0, <2>1, <3>1, SubSeqFull DEF First
    <3> QED BY <2>2, <2>3, <3>2, <3>3 DEF InputInv
  <2>4. CASE call # "closed"
    <3> DEFINE c == consumed \o Undecoded
    <3>1. c \in Seq(Bytes) /\ c \o inbound = stream /\ Len(c) \in Nat
      BY <1>0, <2>4, Empty DEF InputInv
    <3> HIDE DEF c
    <3>2. Len(stream) = Len(c) + Len(inbound)
      BY <1>0, <3>1, ConcatBytes
    <3>3. Len(stream) - Len(inbound) + n = Len(c) + n /\ Len(c) + n <= Len(stream) /\ n \in Nat
      BY <1>0, <3>1, <3>2
    <3>4. First(Len(c) + n, stream) = First(Len(c), stream) \o First(n, AllBut(Len(c), stream))
      BY <1>0, <3>1, <3>3, CutTwice
    <3>5. First(Len(c), stream) = c /\ AllBut(Len(c), stream) = inbound
      BY <1>0, <3>1, CutAtEnd
    <3>6. stream' = c \o inbound'
      BY <2>1, <3>3, <3>4, <3>5
    <3>7. consumed' \o Undecoded' \o inbound' = stream'
      BY <2>2, <3>6 DEF c
    <3>8. ConnectionTypeOK'
      BY StepTypes
    <3>9. Begins(consumed', stream')
      <4>1. (ConnectionTypeOK /\ consumed \o Undecoded \o inbound = stream => Begins(consumed, stream))'
        BY InputBegins, PTL
      <4> QED BY <3>7, <3>8, <4>1
    <3> QED BY <2>2, <2>4, <3>7, <3>9 DEF InputInv
  <2> QED BY <2>3, <2>4
<1> QED
  <2>1. CASE \/ ReadStarts \/ DecodeNeedsMore \/ RecvWouldBlock \/ FlushStarts \/ FlushSends
             \/ FlushWouldBlock \/ FlushDrained \/ UNCHANGED connectionVars
             \/ \E payload \in Responses : QueueFrame(payload)
    BY <2>1, <1>1 DEF ReadStarts, DecodeNeedsMore, RecvWouldBlock, FlushStarts, FlushSends,
       FlushWouldBlock, FlushDrained, QueueFrame, connectionVars, streamVars, frameVars, callVars
  <2>2. CASE DecodeTooLarge \/ RecvEnd \/ RecvFails \/ ErrorEvent \/ FlushFails \/ ConnectionDropped
    BY <2>2, <1>2
        DEF DecodeTooLarge, RecvEnd, RecvFails, ErrorEvent, FlushFails, ConnectionDropped
  <2>3. CASE ClientCalls
    <3>1. CASE \E n \in 1..Len(outbound) : ClientRecv(n)
      BY <2>3, <3>1, <1>1 DEF ClientCalls, ClientRecv, callVars, frameVars
    <3>2. CASE \/ \E bytes \in Seq(Bytes) : ClientSend(bytes)
               \/ \E how \in {"fin", "rst"} : ClientEnd(how)
      BY <2>3, <3>2, <1>5, <1>6 DEF ClientCalls
    <3> QED BY <2>3, <3>1, <3>2 DEF ClientCalls
  <2> QED BY <2>1, <2>2, <2>3, <1>3, <1>4 DEF ConnectionStep, ServerStep

\* A new connection has received, decoded and buffered nothing.
LEMMA InputStart == ConnectionInit => InputInv
<1> SUFFICES ASSUME ConnectionInit PROVE InputInv
  OBVIOUS
<1>1. /\ consumed = <<>> /\ inbound = <<>> /\ stream = <<>> /\ server_end = "no" /\ call = "idle"
      /\ Undecoded = SubSeq(<<>>, 1, 0)
  BY Empty DEF ConnectionInit, StreamInit, DecoderInit, Undecoded
<1>2. Undecoded = <<>>
  BY <1>1, SubSeqEmpty
<1>3. consumed \o Undecoded \o inbound = stream
  BY <1>1, <1>2, Empty
<1>4. Begins(consumed, stream)
  BY <1>1, Empty DEF Begins
<1> QED BY <1>1, <1>3, <1>4 DEF InputInv

\* The invariant of the input side holds throughout.
LEMMA InputHolds == ConnectionSpec => [](ConnectionTypeOK /\ InputInv)
<1>1. ConnectionTypeOK /\ InputInv /\ [ConnectionNext]_connectionVars => InputInv'
  BY InputStep, NextIsStep
<1> QED BY <1>1, InputStart, ConnectionTyped, PTL DEF ConnectionSpec

\* However the network and kReadBufferSize cut the client's stream, and whatever compact()
\* erases, readAvailable() hands out the frames of that stream in order: no byte is lost,
\* repeated or moved, and a closed connection has read a beginning of it.
THEOREM InputIsIntact == ConnectionSpec => []InputIntact
<1>1. ConnectionTypeOK /\ InputInv => InputIntact
  <2> SUFFICES ASSUME ConnectionTypeOK, InputInv PROVE InputIntact
    OBVIOUS
  <2>1. consumed = First(Len(consumed), stream)
    BY InputTypes, BeginsFirst DEF InputInv
  <2> QED BY <2>1 DEF InputIntact, InputInv
<1> QED BY <1>1, InputHolds, PTL
-----------------------------------------------------------------------------
(* The decoder waits only for bytes, and fails only for a length.          *)

\* A header that stands at the front is the next to be read.
LEMMA HeaderAtFront ==
    ASSUME DecoderTypes, NEW n \in 0..(Weight[HeaderSize] - 1),
           Len(Undecoded) >= HeaderSize, First(HeaderSize, Undecoded) = Header(n)
    PROVE  NextSize = n /\ BufferedBytes >= HeaderSize
<1>1. NextSize = PayloadSize(Header(n))
  BY DEF NextSize, First
<1> QED BY <1>1, HeaderGivesSize, UndecodedType

\* When decodeNext() asks for more data, the buffer begins with no whole frame and no header that is too large.
LEMMA NothingWhole ==
    ASSUME DecoderTypes, DecodeStatus = "need_more_data"
    PROVE  ~HoldsFrame(Undecoded) /\ ~HoldsOversized(Undecoded)
<1>0. /\ HeaderSize \in Nat /\ MaxPayload \in Nat /\ Weight[HeaderSize] \in Nat
      /\ MaxPayload < Weight[HeaderSize]
      /\ Len(Undecoded) = BufferedBytes /\ BufferedBytes \in Nat
  BY CodecConstants, CodecAssumption, WeightDef, UndecodedType
<1>1. ASSUME HoldsFrame(Undecoded) PROVE FALSE
  <2>1. PICK n \in 0..MaxPayload :
               Len(Undecoded) >= HeaderSize + n /\ First(HeaderSize, Undecoded) = Header(n)
    BY <1>1 DEF HoldsFrame
  <2>2. n \in 0..(Weight[HeaderSize] - 1) /\ Len(Undecoded) >= HeaderSize
    BY <1>0, <2>1
  <2>3. NextSize = n /\ BufferedBytes >= HeaderSize
    BY <2>1, <2>2, HeaderAtFront
  <2> QED BY <1>0, <2>1, <2>3 DEF DecodeStatus
<1>2. ASSUME HoldsOversized(Undecoded) PROVE FALSE
  <2>1. PICK n \in (MaxPayload + 1)..(Weight[HeaderSize] - 1) :
               Len(Undecoded) >= HeaderSize /\ First(HeaderSize, Undecoded) = Header(n)
    BY <1>2 DEF HoldsOversized
  <2>2. n \in 0..(Weight[HeaderSize] - 1) /\ n > MaxPayload
    BY <1>0
  <2>3. NextSize = n /\ BufferedBytes >= HeaderSize
    BY <2>1, <2>2, HeaderAtFront
  <2> QED BY <1>0, <2>2, <2>3 DEF DecodeStatus
<1> QED BY <1>1, <1>2

\* Outside the inner loop of readAvailable() the decoder has said that it needs more.
DecodedAll == call \in {"idle", "recv", "flush"} => DecodeStatus = "need_more_data"

\* A new decoder has nothing to decode.
LEMMA DecodedStart == ConnectionInit => DecodedAll
<1> SUFFICES ASSUME ConnectionInit PROVE DecodedAll
  OBVIOUS
<1>1. BufferedBytes = 0 /\ 0 < HeaderSize
  BY Empty, CodecConstants DEF ConnectionInit, DecoderInit, BufferedBytes
<1> QED BY <1>1 DEF DecodedAll, DecodeStatus

\* Only a call of readAvailable() that is still decoding has a whole frame in the buffer.
LEMMA DecodedStep ==
    ASSUME DecodedAll, [ConnectionNext]_connectionVars
    PROVE  DecodedAll'
<1>1. CASE /\ UNCHANGED decoderVars
           /\ \/ call' \in {"idle", "recv", "flush"} => call \in {"idle", "recv", "flush"}
              \/ DecodeNeedsMore
  <2>1. DecodeStatus' = DecodeStatus
    BY <1>1 DEF DecodeStatus, NextSize, BufferedBytes, Undecoded, decoderVars
  <2> QED BY <1>1, <2>1 DEF DecodedAll, DecodeNeedsMore
<1>2. CASE RecvData \/ DecodeFrame \/ Destroyed
  BY <1>2 DEF DecodedAll, RecvData, DecodeFrame, Destroyed, callVars
<1>3. CASE DecodeTooLarge \/ RecvEnd \/ RecvFails \/ ErrorEvent \/ FlushFails \/ ConnectionDropped
  BY <1>2, <1>3 DEF DecodeTooLarge, RecvEnd, RecvFails, ErrorEvent, FlushFails, ConnectionDropped
<1>4. CASE \/ ReadStarts \/ DecodeNeedsMore \/ RecvWouldBlock \/ FlushStarts \/ FlushSends
           \/ FlushWouldBlock \/ FlushDrained \/ UNCHANGED connectionVars
           \/ \E payload \in Responses : QueueFrame(payload)
  BY <1>1, <1>4 DEF ReadStarts, DecodeNeedsMore, RecvWouldBlock, FlushStarts, FlushSends,
     FlushWouldBlock, FlushDrained, QueueFrame, connectionVars, callVars
<1>5. CASE ClientStep
  BY <1>1, <1>5 DEF ClientStep, callVars
<1> QED BY <1>2, <1>3, <1>4, <1>5 DEF ConnectionNext, ServerStep

\* readAvailable() returns with no whole frame and no length above the limit left in the
\* decoder: a frame never waits for the client's next byte.
THEOREM NoFrameIsLeftBehind == ConnectionSpec => []NoFrameLeftBehind
<1>1. DecodedAll /\ [ConnectionNext]_connectionVars => DecodedAll'
  BY DecodedStep
<1>2. ConnectionTypeOK /\ DecodedAll => NoFrameLeftBehind
  BY TypesByPart, NothingWhole DEF DecodedAll, NoFrameLeftBehind
<1> QED BY <1>1, <1>2, DecodedStart, ConnectionTyped, PTL DEF ConnectionSpec

\* Bytes that arrive later do not make a header acceptable.
LEMMA OversizedStays ==
    ASSUME NEW s \in Seq(Bytes), NEW b \in Seq(Bytes), HoldsOversized(s)
    PROVE  HoldsOversized(s \o b)
<1>1. PICK n \in (MaxPayload + 1)..(Weight[HeaderSize] - 1) :
             Len(s) >= HeaderSize /\ First(HeaderSize, s) = Header(n)
  BY DEF HoldsOversized
<1>2. HeaderSize \in Nat /\ HeaderSize <= Len(s) /\ Len(s) \in Nat
  BY <1>1, CodecConstants, Empty
<1>3. First(HeaderSize, s \o b) = Header(n)
  BY <1>1, <1>2, CutOfConcat
<1>4. Len(s \o b) >= HeaderSize
  BY <1>2, ConcatBytes
<1> QED BY <1>3, <1>4 DEF HoldsOversized

\* ErrorsAreReal, with the connection that a protocol error closes: this is inductive.
ErrorInv ==
    /\ read_status = "protocol_error" =>
         call = "closed" /\ HoldsOversized(AllBut(Len(consumed), stream))
    /\ \A i \in DOMAIN frames_read : Len(frames_read[i]) <= MaxPayload

\* Every step keeps the reason for a reported protocol error in the stream.
LEMMA ErrorStep ==
    ASSUME ConnectionTypeOK, InputInv, ErrorInv, [ConnectionNext]_connectionVars
    PROVE  ErrorInv'
<1>0. StreamTypeOK /\ DecoderTypes /\ WriterTypes /\ CallTypes /\ FrameTypes
  BY TypesByPart
<1>1. CASE /\ UNCHANGED <<frames_read, consumed, stream>>
           /\ \/ UNCHANGED <<call, read_status>>
              \/ read_status' = read_status /\ call # "closed"
              \/ read_status' \in {"ready", "peer_closed", "io_error"}
  <2>1. frames_read' = frames_read /\ AllBut(Len(consumed), stream)' = AllBut(Len(consumed), stream)
    BY <1>1 DEF AllBut
  <2>2. HoldsOversized(AllBut(Len(consumed), stream))' <=> HoldsOversized(AllBut(Len(consumed), stream))
    BY <2>1 DEF HoldsOversized
  <2> QED BY <1>1, <2>1, <2>2 DEF ErrorInv
<1>2. CASE DecodeTooLarge
  <2>1. call = "decode" /\ DecodeStatus = "payload_too_large" /\ Destroyed
    BY <1>2 DEF DecodeTooLarge
  <2>2. /\ call' = "closed" /\ frames_read' = frames_read
        /\ AllBut(Len(consumed), stream)' = AllBut(Len(consumed), stream)
    BY <1>0, <2>1, ClosedTypes DEF frameVars, AllBut
  <2> DEFINE U == Undecoded
  <2>3. U \in Seq(Bytes) /\ inbound \in Seq(Bytes) /\ consumed \in Seq(Bytes)
        /\ U \o inbound \in Seq(Bytes)
    BY InputTypes, ConcatBytes
  <2>4. AllBut(Len(consumed), stream) = U \o inbound
    <3>1. stream = consumed \o (U \o inbound)
      BY <2>1, InputBegins DEF InputInv
    <3> DEFINE w == U \o inbound
    <3> HIDE DEF w
    <3>2. AllBut(Len(consumed), consumed \o w) = w
      BY <2>3, CutAtEnd DEF w
    <3> QED BY <3>1, <3>2 DEF w
  <2>5. /\ BufferedBytes \in Nat /\ HeaderSize \in Nat /\ MaxPayload \in Nat
        /\ Len(U) = BufferedBytes /\ Weight[HeaderSize] \in Nat
    BY <1>0, UndecodedType, CodecConstants, WeightDef
  <2>6. BufferedBytes >= HeaderSize
    BY <2>1, <2>5 DEF DecodeStatus
  <2>7. NextSize \in 0..(Weight[HeaderSize] - 1) /\ First(HeaderSize, U) = Header(NextSize)
    BY <1>0, <2>6, HeaderRead
  <2>8. NextSize > MaxPayload
    BY <2>1, <2>5, <2>6, <2>7 DEF DecodeStatus
  <2>9. HoldsOversized(U)
    BY <2>5, <2>6, <2>7, <2>8 DEF HoldsOversized
  <2>10. HoldsOversized(U \o inbound)
    BY <2>3, <2>9, OversizedStays
  <2>11. HoldsOversized(AllBut(Len(consumed), stream))'
    BY <2>2, <2>4, <2>10 DEF HoldsOversized
  <2> QED BY <2>2, <2>11 DEF ErrorInv
<1>3. CASE DecodeFrame
  <2>1. DecodedPayload \in Seq(Bytes) /\ Len(DecodedPayload) <= MaxPayload
    BY <1>0, <1>3, FrameTaken, CodecConstants DEF DecodeFrame, DecodeNext
  <2>2. frames_read' = Append(frames_read, DecodedPayload) /\ read_status # "protocol_error"
        /\ read_status' = read_status /\ frames_read \in Seq(Seq(Bytes))
    BY <1>0, <1>3 DEF DecodeFrame, ErrorInv, callVars, FrameTypes
  <2> DEFINE p == DecodedPayload
  <2> HIDE DEF p
  <2>3. ASSUME NEW i \in DOMAIN Append(frames_read, p) PROVE Len(Append(frames_read, p)[i]) <= MaxPayload
    <3>1. p \in Seq(Bytes) /\ Len(p) <= MaxPayload
      BY <2>1 DEF p
    <3>2. /\ Append(frames_read, p) \in Seq(Seq(Bytes))
          /\ Len(Append(frames_read, p)) = Len(frames_read) + 1 /\ Len(frames_read) \in Nat
          /\ \A j \in 1..Len(frames_read) : Append(frames_read, p)[j] = frames_read[j]
          /\ Append(frames_read, p)[Len(frames_read) + 1] = p
          /\ DOMAIN frames_read = 1..Len(frames_read)
      BY <2>2, <3>1, AppendProperties, LenProperties
    <3>3. DOMAIN Append(frames_read, p) = 1..(Len(frames_read) + 1)
      BY <3>2, LenProperties
    <3>4. i \in 1..Len(frames_read) \/ i = Len(frames_read) + 1
      BY <3>2, <3>3
    <3> QED BY <3>1, <3>2, <3>4 DEF ErrorInv
  <2> QED BY <2>2, <2>3 DEF ErrorInv, p
<1>4. ASSUME NEW byte \in Bytes, ClientSend(<<byte>>), UNCHANGED <<callVars, frameVars>>
      PROVE  ErrorInv'
  <2> DEFINE b == <<byte>>
             k == Len(consumed)
  <2>1. b \in Seq(Bytes)
    OBVIOUS
  <2> HIDE DEF b
  <2>2. /\ frames_read' = frames_read /\ read_status' = read_status /\ call' = call
        /\ consumed' = consumed /\ stream' = stream \o b
    BY <1>4 DEF ClientSend, callVars, frameVars, b
  <2>3. k \in Nat /\ k <= Len(stream) /\ stream \in Seq(Bytes)
    BY InputTypes, BeginsFirst DEF InputInv
  <2>4. AllBut(Len(consumed), stream)' = AllBut(k, stream) \o b
    <3>1. AllBut(Len(consumed), stream)' = AllBut(k, stream \o b)
      BY <2>2 DEF AllBut
    <3> HIDE DEF k
    <3> QED BY <2>1, <2>3, <3>1, CutOfConcat
  <2>5. AllBut(k, stream) \in Seq(Bytes)
    BY <2>3, Cut
  <2>6. HoldsOversized(AllBut(k, stream)) => HoldsOversized(AllBut(Len(consumed), stream))'
    <3>1. HoldsOversized(AllBut(k, stream)) => HoldsOversized(AllBut(k, stream) \o b)
      BY <2>1, <2>5, OversizedStays
    <3> QED BY <2>4, <3>1 DEF HoldsOversized
  <2> QED BY <2>2, <2>6 DEF ErrorInv
<1>5. ASSUME NEW how \in {"fin", "rst"}, ClientEnd(how), UNCHANGED <<callVars, frameVars>>
      PROVE  ErrorInv'
  <2>1. /\ frames_read' = frames_read /\ read_status' = read_status /\ call' = call
        /\ consumed' = consumed
    BY <1>5 DEF callVars, frameVars
  <2>2. ASSUME call = "closed" PROVE stream' = stream
    <3>1. inbound = <<>> /\ Len(inbound) = 0 /\ Len(stream) \in Nat /\ stream \in Seq(Bytes)
      BY <2>2, Empty, InputTypes DEF InputInv
    <3>2. stream' = First(Len(stream), stream)
      <4>1. PICK n \in 0..Len(inbound) : stream' = First(Len(stream) - Len(inbound) + n, stream)
        BY <1>5, <3>1 DEF ClientEnd
      <4>2. Len(stream) - Len(inbound) + n = Len(stream)
        BY <3>1
      <4> QED BY <4>1, <4>2
    <3> QED BY <3>1, <3>2, SubSeqFull DEF First
  <2> QED BY <1>1, <2>1, <2>2 DEF ErrorInv
<1> QED
  <2>1. CASE \/ ReadStarts \/ RecvData \/ DecodeNeedsMore \/ RecvWouldBlock \/ FlushStarts \/ FlushSends
             \/ FlushWouldBlock \/ FlushDrained \/ UNCHANGED connectionVars
             \/ \E payload \in Responses : QueueFrame(payload)
    BY <2>1, <1>1
        DEF ReadStarts, RecvData, DecodeNeedsMore, RecvWouldBlock, FlushStarts, FlushSends,
       FlushWouldBlock, FlushDrained, QueueFrame, connectionVars, streamVars, frameVars, callVars
  <2>2. CASE RecvEnd \/ RecvFails \/ ErrorEvent \/ FlushFails \/ ConnectionDropped
    BY <1>0, <2>2, <1>1, ClosedTypes
       DEF RecvEnd, RecvFails, ErrorEvent, FlushFails, ConnectionDropped, frameVars
  <2>3. CASE ClientStep
    <3>1. CASE \E n \in 1..Len(outbound) : ClientRecv(n)
      BY <2>3, <3>1, <1>1 DEF ClientStep, ClientRecv, callVars, frameVars
    <3>2. CASE \/ \E byte \in Bytes : ClientSend(<<byte>>)
               \/ \E how \in {"fin", "rst"} : ClientEnd(how)
      BY <2>3, <3>2, <1>4, <1>5 DEF ClientStep
    <3> QED BY <2>3, <3>1, <3>2 DEF ClientStep
  <2> QED BY <2>1, <2>2, <2>3, <1>2, <1>3 DEF ConnectionNext, ServerStep

\* readAvailable() reports a protocol error only when the bytes behind the last frame it
\* read are a header with a length above the limit, and no frame above it is handed out.
THEOREM ErrorsReported == ConnectionSpec => []ErrorsAreReal
<1>1. ConnectionInit => ErrorInv
  BY DEF ConnectionInit, ErrorInv
<1>2. ConnectionTypeOK /\ InputInv /\ ErrorInv /\ [ConnectionNext]_connectionVars => ErrorInv'
  BY ErrorStep
<1>3. ErrorInv => ErrorsAreReal
  BY DEF ErrorInv, ErrorsAreReal
<1> QED BY <1>1, <1>2, <1>3, InputHolds, PTL DEF ConnectionSpec
=============================================================================
