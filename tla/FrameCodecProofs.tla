-------------------------- MODULE FrameCodecProofs --------------------------
(***************************************************************************)
(* The wire format for every byte size and every header size: a header and *)
(* the length in it determine each other, so a decoder that reads the      *)
(* length reads what the encoder wrote.  The length is computed by a       *)
(* recursive function; induction is stated with sets, which the provers    *)
(* can instantiate.                                                        *)
(***************************************************************************)
EXTENDS FrameCodec, Integers, WellFoundedInduction, SequenceTheorems, TLAPS

(* Induction and recursion over the natural numbers.                       *)

\* A set of natural numbers that is not empty has a least element.
LEMMA LeastNatural ==
    ASSUME NEW T, T \subseteq Nat, T # {}
    PROVE  \E x \in T : \A y \in T : x <= y
<1>1. PICK x \in T : \A y \in T : ~ (<<y, x>> \in OpToRel(<, Nat))
  BY WFMin, NatLessThanWellFounded
<1> DEFINE R == {ss \in Nat \X Nat : ss[1] < ss[2]}
<1>2. OpToRel(<, Nat) = R
  BY Zenon DEF OpToRel
<1>3. \A y \in T : ~ (<<y, x>> \in R)
  BY <1>1, <1>2, Zenon
<1>4. ASSUME NEW y \in T PROVE x <= y
  <2>1. <<y, x>> \in Nat \X Nat
    OBVIOUS
  <2>2. ~ (<<y, x>>[1] < <<y, x>>[2])
    BY <1>3, <2>1, Zenon
  <2> QED BY <2>2
<1> QED BY <1>4

\* A set that holds 0 and with every natural number the next one holds them all.
LEMMA NaturalInduction ==
    ASSUME NEW I, 0 \in I, \A n \in Nat : n \in I => n + 1 \in I
    PROVE  \A n \in Nat : n \in I
<1> SUFFICES ASSUME NEW m \in Nat, m \notin I PROVE FALSE
  OBVIOUS
<1> DEFINE T == Nat \ I
<1>1. PICK x \in T : \A y \in T : x <= y
  BY LeastNatural
<1>2. x - 1 \in Nat
  OBVIOUS
<1>3. x - 1 \in I
  BY <1>1, <1>2
<1>4. (x - 1) + 1 \in I
  BY <1>2, <1>3
<1> QED BY <1>4

-----------------------------------------------------------------------------
(* Lengths and headers.                                                    *)

\* What is assumed of the constants, as the proofs cite it.
LEMMA CodecConstants ==
    /\ Radix \in Nat /\ Radix > 1
    /\ HeaderSize \in Nat /\ HeaderSize > 0
    /\ MaxPayload \in Nat
BY CodecAssumption

\* Adding a digit to a number gives a number.
LEMMA NatClosed ==
    ASSUME NEW a \in Nat, NEW b \in Nat, NEW c \in Nat
    PROVE  a * b + c \in Nat
OBVIOUS

\* Functions that agree everywhere are equal.
LEMMA SameFunction ==
    ASSUME NEW S, NEW T
    PROVE  \A f, g \in [S -> T] : (\A x \in S : f[x] = g[x]) => f = g
OBVIOUS

\* What the codec computes digit by digit exists: one function per first value and
\* digits, on 0..n, for every n.
LEMMA Horner ==
    ASSUME NEW base \in Nat, NEW digit \in [Nat -> Nat]
    PROVE  \A n \in Nat : \E f \in [0..n -> Nat] :
             f[0] = base /\ \A i \in 1..n : f[i] = f[i - 1] * Radix + digit[i]
<1> DEFINE Defines(f, n) ==
             f[0] = base /\ \A i \in 1..n : f[i] = f[i - 1] * Radix + digit[i]
           I == {n \in Nat : \E f \in [0..n -> Nat] : Defines(f, n)}
<1>1. 0 \in I
  <2> DEFINE f == [i \in 0..0 |-> base]
  <2>1. f \in [0..0 -> Nat] /\ Defines(f, 0)
    OBVIOUS
  <2> QED BY <2>1
<1>2. ASSUME NEW n \in Nat, n \in I PROVE n + 1 \in I
  <2>1. PICK f \in [0..n -> Nat] : Defines(f, n)
    BY <1>2
  <2> DEFINE next == f[n] * Radix + digit[n + 1]
             g == [i \in 0..(n + 1) |-> IF i = n + 1 THEN next ELSE f[i]]
  <2>2. next \in Nat
    <3>1. f[n] \in Nat /\ digit[n + 1] \in Nat
      OBVIOUS
    <3> QED BY <3>1, CodecConstants, NatClosed, Zenon
  <2>3. g \in [0..(n + 1) -> Nat]
    <3> HIDE DEF next
    <3> QED BY <2>2
  <2>4. g[0] = base
    BY <2>1
  <2>5. ASSUME NEW i \in 1..(n + 1) PROVE g[i] = g[i - 1] * Radix + digit[i]
    <3>1. i - 1 \in 0..n /\ g[i - 1] = f[i - 1]
      OBVIOUS
    <3>2. CASE i = n + 1
      BY <3>1, <3>2
    <3>3. CASE i \in 1..n
      BY <3>1, <3>3, <2>1
    <3> QED BY <3>2, <3>3
  <2>6. Defines(g, n + 1)
    BY <2>4, <2>5
  <2>7. \E h \in [0..(n + 1) -> Nat] : Defines(h, n + 1)
    <3> HIDE DEF g, Defines
    <3> QED BY <2>3, <2>6
  <2>8. n + 1 \in Nat
    OBVIOUS
  <2> HIDE DEF Defines
  <2> QED BY <2>7, <2>8
<1> HIDE DEF I
<1>3. \A n \in Nat : n \in I
  BY <1>1, <1>2, NaturalInduction
<1> QED BY <1>3 DEF I

\* n bytes have Radix times as many lengths as n - 1.
LEMMA WeightDef ==
    /\ Weight[0] = 1
    /\ \A n \in 1..HeaderSize : Weight[n] = Weight[n - 1] * Radix
    /\ \A n \in 0..HeaderSize : Weight[n] \in Nat \ {0}
<1> DEFINE Rule(f) == f = [n \in 0..HeaderSize |-> IF n = 0 THEN 1 ELSE f[n - 1] * Radix]
<1>1. \E f : Rule(f)
  <2> DEFINE digit == [i \in Nat |-> 0]
  <2>1. digit \in [Nat -> Nat]
    OBVIOUS
  <2>2. PICK f \in [0..HeaderSize -> Nat] :
               f[0] = 1 /\ \A i \in 1..HeaderSize : f[i] = f[i - 1] * Radix + digit[i]
    <3>1. \A n \in Nat : \E f \in [0..n -> Nat] :
            f[0] = 1 /\ \A i \in 1..n : f[i] = f[i - 1] * Radix + digit[i]
      <4> HIDE DEF digit
      <4>1. 1 \in Nat
        OBVIOUS
      <4> QED BY <2>1, <4>1, Horner, Zenon
    <3> QED BY <3>1, CodecAssumption, Zenon
  <2>3. \A i \in 1..HeaderSize : f[i] = f[i - 1] * Radix
    BY <2>2, CodecAssumption
  <2>4. Rule(f)
    BY <2>2, <2>3
  <2> QED BY <2>4
<1>2. Rule(Weight)
  BY <1>1, Zenon DEF Weight
<1>3. Weight[0] = 1
  BY <1>2, CodecAssumption
<1>4. \A n \in 1..HeaderSize : Weight[n] = Weight[n - 1] * Radix
  BY <1>2, CodecAssumption
<1>5. \A n \in 0..HeaderSize : Weight[n] \in Nat \ {0}
  <2> DEFINE I == {n \in Nat : n \in 0..HeaderSize => Weight[n] \in Nat \ {0}}
  <2>1. 0 \in I
    BY <1>3
  <2>2. ASSUME NEW n \in Nat, n \in I PROVE n + 1 \in I
    <3>1. CASE n + 1 \in 0..HeaderSize
      <4>1. Weight[n] \in Nat \ {0} /\ Weight[n + 1] = Weight[n] * Radix
        BY <2>2, <3>1, <1>4, CodecAssumption
      <4>2. \A a, b \in Nat \ {0} : a * b \in Nat \ {0}
        OBVIOUS
      <4>3. Weight[n + 1] \in Nat \ {0}
        BY <4>1, <4>2, CodecAssumption
      <4> QED BY <4>3
    <3> QED BY <3>1
  <2> HIDE DEF I
  <2>3. \A n \in Nat : n \in I
    BY <2>1, <2>2, NaturalInduction
  <2> QED BY <2>3, CodecAssumption DEF I
<1> QED BY <1>3, <1>4, <1>5

\* The value of the leading bytes of a header, as ntohl() builds it up.
Reads(header, value) ==
    /\ value[0] = 0
    /\ \A i \in 1..HeaderSize : value[i] = value[i - 1] * Radix + header[i]

\* The length in a header is the last of these values.
LEMMA PayloadSizeDef ==
    ASSUME NEW header \in [1..HeaderSize -> Bytes]
    PROVE  \E value \in [0..HeaderSize -> Nat] :
             Reads(header, value) /\ PayloadSize(header) = value[HeaderSize]
<1> DEFINE Rule(f) == f = [i \in 0..HeaderSize |-> IF i = 0 THEN 0 ELSE f[i - 1] * Radix + header[i]]
<1>1. \E f \in [0..HeaderSize -> Nat] : Rule(f)
  <2> DEFINE digit == [i \in Nat |-> IF i \in 1..HeaderSize THEN header[i] ELSE 0]
  <2>1. digit \in [Nat -> Nat]
    BY CodecAssumption DEF Bytes
  <2>2. PICK f \in [0..HeaderSize -> Nat] :
               f[0] = 0 /\ \A i \in 1..HeaderSize : f[i] = f[i - 1] * Radix + digit[i]
    <3>1. \A n \in Nat : \E f \in [0..n -> Nat] :
            f[0] = 0 /\ \A i \in 1..n : f[i] = f[i - 1] * Radix + digit[i]
      <4> HIDE DEF digit
      <4>1. 0 \in Nat
        OBVIOUS
      <4> QED BY <2>1, <4>1, Horner, Zenon
    <3> QED BY <3>1, CodecAssumption, Zenon
  <2>3. \A i \in 1..HeaderSize : f[i] = f[i - 1] * Radix + header[i]
    <3>1. \A i \in 1..HeaderSize : digit[i] = header[i]
      BY CodecConstants
    <3> HIDE DEF digit
    <3> QED BY <2>2, <3>1, Zenon
  <2>4. Rule(f)
    BY <2>2, <2>3
  <2> QED BY <2>4
<1> DEFINE value == CHOOSE f : Rule(f)
<1>2. Rule(value)
  BY <1>1, Zenon
<1>3. PayloadSize(header) = value[HeaderSize]
  BY Zenon DEF PayloadSize
<1> HIDE DEF value
<1>4. value[0] = 0
  BY <1>2, CodecConstants
<1>5. \A i \in 1..HeaderSize : value[i] = value[i - 1] * Radix + header[i]
  BY <1>2, CodecConstants
<1>6. \A i \in 0..HeaderSize : value[i] \in Nat
  <2> DEFINE I == {i \in Nat : i \in 0..HeaderSize => value[i] \in Nat}
  <2>1. 0 \in I
    BY <1>4
  <2>2. ASSUME NEW i \in Nat, i \in I PROVE i + 1 \in I
    <3>1. CASE i + 1 \in 0..HeaderSize
      <4>1. i + 1 \in 1..HeaderSize /\ (i + 1) - 1 = i /\ i \in 0..HeaderSize
        BY <3>1, CodecConstants
      <4>2. value[i] \in Nat /\ header[i + 1] \in Nat
        BY <2>2, <4>1, CodecConstants DEF Bytes
      <4>3. value[i + 1] = value[i] * Radix + header[i + 1]
        BY <4>1, <1>5
      <4>4. value[i] * Radix + header[i + 1] \in Nat
        BY <4>2, CodecConstants, NatClosed, Zenon
      <4> QED BY <4>3, <4>4
    <3> QED BY <3>1
  <2> HIDE DEF I
  <2>3. \A i \in Nat : i \in I
    BY <2>1, <2>2, NaturalInduction
  <2> QED BY <2>3, CodecConstants DEF I
<1>7. value \in [0..HeaderSize -> Nat]
  BY <1>2, <1>6
<1> HIDE DEF Rule
<1> QED BY <1>3, <1>4, <1>5, <1>7, Zenon DEF Reads

\* Dividing by the radix splits the last digit from the others.
LEMMA DivMod ==
    ASSUME NEW a \in Nat, NEW b \in Nat \ {0}, NEW r \in 0..(b - 1)
    PROVE  (a * b + r) \div b = a /\ (a * b + r) % b = r
<1>1. (a * b + r) \div b = a
  OBVIOUS
<1>2. (a * b + r) % b = r
  OBVIOUS
<1> QED BY <1>1, <1>2

\* A number is put together again from its last digit and the others.
LEMMA DivModOf ==
    ASSUME NEW n \in Nat, NEW b \in Nat \ {0}
    PROVE  /\ n \div b \in Nat /\ n % b \in 0..(b - 1)
           /\ n = (n \div b) * b + (n % b)
<1>1. n \div b \in Nat
  OBVIOUS
<1>2. n % b \in 0..(b - 1)
  OBVIOUS
<1>3. n = (n \div b) * b + (n % b)
  OBVIOUS
<1> QED BY <1>1, <1>2, <1>3

\* Dividing twice is dividing once by the product: bytes can be taken off one by one.
LEMMA DivDiv ==
    ASSUME NEW n \in Nat, NEW w \in Nat \ {0}, NEW r \in Nat \ {0}
    PROVE  n \div (w * r) = (n \div w) \div r
<1> DEFINE q == n \div w
           p == q \div r
           low == (q % r) * w + (n % w)
<1>1. q \in Nat /\ n % w \in 0..(w - 1) /\ n = q * w + (n % w)
  BY DivModOf
<1>2. p \in Nat /\ q % r \in 0..(r - 1) /\ q = p * r + (q % r)
  <2> HIDE DEF q
  <2> QED BY <1>1, DivModOf
<1> HIDE DEF p
<1>3. n = p * (w * r) + low
  <2> HIDE DEF q
  <2>1. \A x, y, m, z \in Nat : (x * r + y) * w + z = x * (w * r) + (y * w + z)
    OBVIOUS
  <2>2. q % r \in Nat /\ n % w \in Nat
    BY <1>1, <1>2
  <2>3. n = (p * r + (q % r)) * w + (n % w)
    BY <1>1, <1>2
  <2> QED BY <1>2, <2>1, <2>2, <2>3
<1>4. low \in 0..(w * r - 1)
  <2> HIDE DEF q
  <2>1. \A y \in 0..(r - 1), z \in 0..(w - 1) : y * w + z \in 0..(w * r - 1)
    <3> SUFFICES ASSUME NEW y \in 0..(r - 1), NEW z \in 0..(w - 1)
                 PROVE  y * w + z \in 0..(w * r - 1)
      OBVIOUS
    <3>1. y * w <= (r - 1) * w
      OBVIOUS
    <3>2. (r - 1) * w = w * r - w
      OBVIOUS
    <3> QED BY <3>1, <3>2
  <2> QED BY <1>1, <1>2, <2>1
<1>5. w * r \in Nat \ {0}
  OBVIOUS
<1>6. n \div (w * r) = p
  <2> HIDE DEF low
  <2> QED BY <1>2, <1>3, <1>4, <1>5, DivMod
<1> QED BY <1>6 DEF p

\* The same for the values of a byte.
LEMMA ByRadix ==
    /\ \A n \in Nat : /\ n \div Radix \in Nat /\ n % Radix \in 0..(Radix - 1)
                      /\ n = (n \div Radix) * Radix + (n % Radix)
    /\ \A a \in Nat, r \in 0..(Radix - 1) :
         (a * Radix + r) \div Radix = a /\ (a * Radix + r) % Radix = r
    /\ \A n \in Nat, w \in Nat \ {0} : n \div (w * Radix) = (n \div w) \div Radix
<1>1. Radix \in Nat \ {0}
  BY CodecConstants
<1>2. \A n \in Nat : /\ n \div Radix \in Nat /\ n % Radix \in 0..(Radix - 1)
                    /\ n = (n \div Radix) * Radix + (n % Radix)
  BY <1>1, DivModOf, Zenon
<1>3. \A a \in Nat, r \in 0..(Radix - 1) :
         (a * Radix + r) \div Radix = a /\ (a * Radix + r) % Radix = r
  BY <1>1, DivMod, Zenon
<1>4. \A n \in Nat, w \in Nat \ {0} : n \div (w * Radix) = (n \div w) \div Radix
  BY <1>1, DivDiv, Zenon
<1> QED BY <1>2, <1>3, <1>4, Zenon

\* A header is made of bytes.
LEMMA HeaderType ==
    ASSUME NEW n \in Nat
    PROVE  Header(n) \in [1..HeaderSize -> Bytes]
<1> SUFFICES ASSUME NEW i \in 1..HeaderSize
             PROVE  (n \div Weight[HeaderSize - i]) % Radix \in Bytes
  BY DEF Header
<1>1. Weight[HeaderSize - i] \in Nat \ {0}
  BY WeightDef, CodecConstants
<1>2. n \div Weight[HeaderSize - i] \in Nat
  BY <1>1, DivModOf
<1> QED BY <1>2, ByRadix, Zenon DEF Bytes

\* The length in a header is the length the header is made from: the decoder and the
\* client read every header as it was meant.
THEOREM HeaderGivesSize ==
    ASSUME NEW n \in 0..(Weight[HeaderSize] - 1)
    PROVE  PayloadSize(Header(n)) = n
<1>0. n \in Nat
  BY WeightDef, CodecConstants
<1>1. PICK value \in [0..HeaderSize -> Nat] :
             Reads(Header(n), value) /\ PayloadSize(Header(n)) = value[HeaderSize]
  BY <1>0, HeaderType, PayloadSizeDef
<1> DEFINE I == {i \in Nat : i \in 0..HeaderSize => value[i] = n \div Weight[HeaderSize - i]}
<1>2. 0 \in I
  <2>1. Weight[HeaderSize] \in Nat \ {0} /\ n < Weight[HeaderSize]
    BY WeightDef, CodecConstants
  <2>2. n \div Weight[HeaderSize] = 0
    BY <1>0, <2>1
  <2>3. value[0] = 0 /\ HeaderSize - 0 = HeaderSize
    BY <1>1, CodecConstants DEF Reads
  <2> QED BY <2>2, <2>3
<1>3. ASSUME NEW i \in Nat, i \in I PROVE i + 1 \in I
  <2>1. CASE i + 1 \in 0..HeaderSize
    <3> DEFINE w == Weight[HeaderSize - (i + 1)]
               q == n \div w
    <3>1. /\ i + 1 \in 1..HeaderSize /\ (i + 1) - 1 = i /\ i \in 0..HeaderSize
          /\ HeaderSize - i \in 1..HeaderSize
          /\ (HeaderSize - i) - 1 = HeaderSize - (i + 1)
          /\ HeaderSize - (i + 1) \in 0..HeaderSize
      BY <2>1, CodecConstants
    <3>2. w \in Nat \ {0} /\ Weight[HeaderSize - i] = w * Radix
      BY <3>1, WeightDef
    <3>3. value[i] = n \div (w * Radix)
      BY <1>3, <3>1, <3>2
    <3>4. value[i] = q \div Radix
      BY <1>0, <3>2, <3>3, ByRadix, Zenon
    <3>5. Header(n)[i + 1] = q % Radix
      BY <3>1 DEF Header
    <3>6. value[i + 1] = value[i] * Radix + Header(n)[i + 1]
      BY <1>1, <3>1 DEF Reads
    <3>7. q \in Nat
      <4> HIDE DEF w
      <4> QED BY <1>0, <3>2, DivModOf
    <3>8. value[i + 1] = q
      <4> HIDE DEF q
      <4>1. q = (q \div Radix) * Radix + (q % Radix)
        BY <3>7, ByRadix, Zenon
      <4> QED BY <3>4, <3>5, <3>6, <4>1, Zenon
    <3> QED BY <3>8
  <2> QED BY <2>1
<1> HIDE DEF I
<1>4. \A i \in Nat : i \in I
  BY <1>2, <1>3, NaturalInduction
<1>5. value[HeaderSize] = n \div Weight[0]
  <2>1. HeaderSize \in I
    BY <1>4, CodecConstants
  <2>2. HeaderSize - HeaderSize = 0 /\ HeaderSize \in 0..HeaderSize
    BY CodecConstants
  <2> QED BY <2>1, <2>2 DEF I
<1>6. n \div 1 = n
  BY <1>0
<1> QED BY <1>1, <1>5, <1>6, WeightDef

\* A header is the one its length has: whatever bytes a client sends as a header, the
\* frame cut off behind them is the encoding of the payload that is handed out.
THEOREM SizeGivesHeader ==
    ASSUME NEW header \in [1..HeaderSize -> Bytes]
    PROVE  /\ PayloadSize(header) \in 0..(Weight[HeaderSize] - 1)
           /\ Header(PayloadSize(header)) = header
<1>1. PICK value \in [0..HeaderSize -> Nat] :
             Reads(header, value) /\ PayloadSize(header) = value[HeaderSize]
  BY PayloadSizeDef
<1> DEFINE n == value[HeaderSize]
<1>2. n \in Nat
  BY CodecConstants
<1>3. \A i \in 1..HeaderSize : header[i] \in 0..(Radix - 1)
  BY DEF Bytes
<1>4. n < Weight[HeaderSize]
  <2> DEFINE I == {i \in Nat : i \in 0..HeaderSize => value[i] < Weight[i]}
  <2>1. 0 \in I
    BY <1>1, WeightDef DEF Reads
  <2>2. ASSUME NEW i \in Nat, i \in I PROVE i + 1 \in I
    <3>1. CASE i + 1 \in 0..HeaderSize
      <4>1. i + 1 \in 1..HeaderSize /\ (i + 1) - 1 = i /\ i \in 0..HeaderSize
        BY <3>1, CodecConstants
      <4>2. value[i + 1] = value[i] * Radix + header[i + 1]
        BY <1>1, <4>1 DEF Reads
      <4>3. Weight[i + 1] = Weight[i] * Radix /\ Weight[i] \in Nat
        BY <4>1, WeightDef
      <4>4. value[i] \in Nat /\ value[i] < Weight[i] /\ header[i + 1] \in 0..(Radix - 1)
        BY <2>2, <4>1, <1>3
      <4>5. \A a, b \in Nat, d \in 0..(Radix - 1) : a < b => a * Radix + d < b * Radix
        <5> SUFFICES ASSUME NEW a \in Nat, NEW b \in Nat, NEW d \in 0..(Radix - 1), a < b
                     PROVE  a * Radix + d < b * Radix
          OBVIOUS
        <5>1. (a + 1) * Radix <= b * Radix
          BY CodecConstants
        <5>2. (a + 1) * Radix = a * Radix + Radix
          BY CodecConstants
        <5> QED BY <5>1, <5>2, CodecConstants
      <4>6. value[i + 1] < Weight[i + 1]
        BY <4>2, <4>3, <4>4, <4>5
      <4> QED BY <4>6
    <3> QED BY <3>1
  <2> HIDE DEF I
  <2>3. \A i \in Nat : i \in I
    BY <2>1, <2>2, NaturalInduction
  <2>4. HeaderSize \in I /\ HeaderSize \in 0..HeaderSize
    BY <2>3, CodecConstants
  <2> QED BY <2>4 DEF I
<1>5. \A k \in 0..HeaderSize : n \div Weight[k] = value[HeaderSize - k]
  <2> DEFINE I == {k \in Nat : k \in 0..HeaderSize => n \div Weight[k] = value[HeaderSize - k]}
  <2>1. 0 \in I
    <3>1. Weight[0] = 1 /\ HeaderSize - 0 = HeaderSize /\ n \div 1 = n
      BY <1>2, WeightDef, CodecConstants
    <3> QED BY <3>1
  <2>2. ASSUME NEW k \in Nat, k \in I PROVE k + 1 \in I
    <3>1. CASE k + 1 \in 0..HeaderSize
      <4> DEFINE j == HeaderSize - k
      <4>1. /\ k + 1 \in 1..HeaderSize /\ (k + 1) - 1 = k /\ k \in 0..HeaderSize
            /\ j \in 1..HeaderSize /\ j - 1 \in 0..HeaderSize /\ HeaderSize - (k + 1) = j - 1
        BY <3>1, CodecConstants
      <4>2. Weight[k + 1] = Weight[k] * Radix /\ Weight[k] \in Nat \ {0}
        BY <4>1, WeightDef
      <4>3. n \div Weight[k] = value[j]
        BY <2>2, <4>1
      <4>4. n \div Weight[k + 1] = value[j] \div Radix
        <5> HIDE DEF n, j
        <5>1. n \div (Weight[k] * Radix) = (n \div Weight[k]) \div Radix
          BY <1>2, <4>2, ByRadix, Zenon
        <5> QED BY <4>2, <4>3, <5>1, Zenon
      <4>5. value[j] = value[j - 1] * Radix + header[j]
        BY <1>1, <4>1 DEF Reads
      <4>6. value[j - 1] \in Nat /\ header[j] \in 0..(Radix - 1)
        BY <4>1, <1>3
      <4>7. value[j] \div Radix = value[j - 1]
        <5> HIDE DEF j
        <5>1. (value[j - 1] * Radix + header[j]) \div Radix = value[j - 1]
          BY <4>6, ByRadix, Zenon
        <5> QED BY <4>5, <5>1, Zenon
      <4> QED BY <4>1, <4>4, <4>7
    <3> QED BY <3>1
  <2> HIDE DEF I
  <2>3. \A k \in Nat : k \in I
    BY <2>1, <2>2, NaturalInduction
  <2> QED BY <2>3, CodecConstants DEF I
<1>6. ASSUME NEW i \in 1..HeaderSize PROVE Header(n)[i] = header[i]
  <2>1. HeaderSize - i \in 0..HeaderSize /\ HeaderSize - (HeaderSize - i) = i /\ i - 1 \in 0..HeaderSize
    BY CodecConstants
  <2>2. n \div Weight[HeaderSize - i] = value[i]
    BY <1>5, <2>1
  <2>3. Header(n)[i] = value[i] % Radix
    BY <2>2 DEF Header
  <2>4. value[i] = value[i - 1] * Radix + header[i]
    BY <1>1 DEF Reads
  <2>5. value[i - 1] \in Nat /\ header[i] \in 0..(Radix - 1)
    BY <2>1, <1>3
  <2>6. value[i] % Radix = header[i]
    <3>1. (value[i - 1] * Radix + header[i]) % Radix = header[i]
      BY <2>5, ByRadix, Zenon
    <3> QED BY <2>4, <3>1, Zenon
  <2> QED BY <2>3, <2>6
<1>7. Header(n) \in [1..HeaderSize -> Bytes]
  <2> HIDE DEF n
  <2> QED BY <1>2, HeaderType
<1>8. Header(n) = header
  <2> HIDE DEF n
  <2>1. \A f, g \in [1..HeaderSize -> Bytes] : (\A i \in 1..HeaderSize : f[i] = g[i]) => f = g
    BY SameFunction, Zenon
  <2> QED BY <1>6, <1>7, <2>1, Zenon
<1>9. n \in 0..(Weight[HeaderSize] - 1)
  BY <1>2, <1>4, WeightDef, CodecConstants
<1> QED BY <1>1, <1>8, <1>9
=============================================================================
