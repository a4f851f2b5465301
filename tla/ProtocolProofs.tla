--------------------------- MODULE ProtocolProofs ---------------------------
(***************************************************************************)
(* Proofs about Protocol: for every byte size, every set of messages and   *)
(* every limit, the framing keeps sender and receiver in step and          *)
(* implements MessageChannel.                                              *)
(***************************************************************************)
EXTENDS Protocol, SequenceTheorems, TLAPS

-----------------------------------------------------------------------------
(***************************************************************************)
(* Words and frames                                                        *)
(***************************************************************************)

(* Division by Base with remainder, as ::htonl (protocol.h:126) needs it. *)
LEMMA DivMod ==
  ASSUME NEW n \in Nat
  PROVE  /\ n \div Base \in Nat /\ n % Base \in Nat /\ n % Base \in Byte
         /\ (n \div Base) * Base + (n % Base) = n
<1>1. Base \in Nat /\ Base > 0
  BY ProtocolAssumption
<1> QED
  BY <1>1 DEF Byte

(* One more byte at the low end. *)
LEMMA Scale ==
  ASSUME NEW x \in Nat, NEW y \in Nat, NEW b \in Byte
  PROVE  x * Base + b \in Nat /\ y * Base \in Nat /\ (x < y <=> x * Base + b < y * Base)
<1>1. Base \in Nat /\ Base > 0 /\ b \in Nat /\ b < Base
  BY ProtocolAssumption DEF Byte
<1>2. x * Base \in Nat /\ y * Base \in Nat
  BY <1>1
<1>3. ASSUME x < y  PROVE x * Base + b < y * Base
  <2>1. (y - x - 1) * Base >= 0
    BY <1>1, <1>3
  <2>2. (y - x - 1) * Base = y * Base - x * Base - Base
    BY <1>1
  <2> QED
    BY <2>1, <2>2, <1>1, <1>2
<1>4. ASSUME y <= x  PROVE y * Base <= x * Base + b
  <2>1. (x - y) * Base >= 0
    BY <1>1, <1>4
  <2>2. (x - y) * Base = x * Base - y * Base
    BY <1>1
  <2> QED
    BY <2>1, <2>2, <1>1, <1>2
<1> QED
  BY <1>1, <1>2, <1>3, <1>4

(* A word of four bytes. *)
LEMMA Word ==
  ASSUME NEW a \in Nat, NEW b \in Byte, NEW c \in Byte, NEW d \in Byte
  PROVE  /\ ((a * Base + b) * Base + c) * Base + d \in Nat
         /\ a \in Byte <=> ((a * Base + b) * Base + c) * Base + d < WordSize
<1>1. Base \in Nat /\ Base * Base \in Nat /\ Base * Base * Base \in Nat
  BY ProtocolAssumption
<1>2. a * Base + b \in Nat /\ (a < Base <=> a * Base + b < Base * Base)
  BY <1>1, Scale
<1> DEFINE p == a * Base + b
<1> HIDE DEF p
<1>3. p * Base + c \in Nat /\ (p < Base * Base <=> p * Base + c < Base * Base * Base)
  BY <1>1, <1>2, Scale DEF p
<1> DEFINE q == p * Base + c
<1> HIDE DEF q
<1>4. /\ q * Base + d \in Nat
      /\ q < Base * Base * Base <=> q * Base + d < Base * Base * Base * Base
  BY <1>1, <1>3, Scale DEF q
<1>5. a \in Byte <=> a < Base
  BY <1>1 DEF Byte
<1> QED
  BY <1>2, <1>3, <1>4, <1>5 DEF p, q, WordSize

(* ntohl undoes htonl, and the word fits (protocol.h:126-131, 183-190). *)
LEMMA WordRoundTrip ==
  ASSUME NEW n \in Nat, n < WordSize
  PROVE  /\ \A i \in 1..4 : htonl(n)[i] \in Byte
         /\ ((htonl(n)[1] * Base + htonl(n)[2]) * Base + htonl(n)[3]) * Base
              + htonl(n)[4] = n
<1> DEFINE q == n \div Base
           r == q \div Base
           a == r \div Base
<1>1. q \in Nat /\ n % Base \in Byte /\ q * Base + (n % Base) = n
  BY DivMod
<1>2. r \in Nat /\ q % Base \in Byte /\ r * Base + (q % Base) = q
  BY <1>1, DivMod
<1>3. a \in Nat /\ r % Base \in Byte /\ a * Base + (r % Base) = r
  BY <1>2, DivMod
<1>4. htonl(n) = <<a, r % Base, q % Base, n % Base>>
  BY DEF htonl
<1> HIDE DEF q, r, a
<1>5. ((a * Base + (r % Base)) * Base + (q % Base)) * Base + (n % Base) = n
  BY <1>1, <1>2, <1>3
<1>6. a \in Byte
  BY <1>1, <1>2, <1>3, <1>5, Word
<1> QED
  BY <1>1, <1>2, <1>3, <1>4, <1>5, <1>6

(* What ntohl makes of any four bytes is a word (protocol.h:183-190). *)
LEMMA WordRead ==
  ASSUME NEW s \in Seq(Byte), NEW i \in Nat, i + 4 <= Len(s)
  PROVE  ntohl(s, i) \in 0..(WordSize - 1)
<1>1. s[i + 1] \in Byte /\ s[i + 2] \in Byte /\ s[i + 3] \in Byte /\ s[i + 4] \in Byte
  OBVIOUS
<1>2. s[i + 1] \in Nat /\ WordSize \in Int
  BY <1>1, ProtocolAssumption DEF Byte, WordSize
<1>3. ntohl(s, i) \in Nat /\ ntohl(s, i) < WordSize
  BY <1>1, <1>2, Word DEF ntohl
<1> QED
  BY <1>2, <1>3

(* The length that encode (protocol.h:118) announces. *)
LEMMA PayloadLength ==
  ASSUME NEW m \in Messages
  PROVE  /\ m \in AnyMessage
         /\ payload_len(m) \in Nat /\ payload_len(m) <= Len(m.payload)
         /\ payload_len(m) < WordSize
<1>1. m \in AnyMessage /\ Base \in Nat /\ Base > 1
  BY ProtocolAssumption
<1>2. Len(m.payload) \in Nat
  BY <1>1 DEF AnyMessage
<1>3. Base * Base \in Nat /\ Base * Base > 0
  BY <1>1
<1>4. WordSize \in Nat /\ WordSize > 0
  <2> DEFINE s == Base * Base
  <2>1. s * s \in Nat /\ s * s > 0
    <3> HIDE DEF s
    <3> QED  BY <1>3 DEF s
  <2>2. WordSize = s * s
    BY <1>1 DEF WordSize
  <2> QED
    BY <2>1, <2>2
<1>5. ASSUME NEW k \in Nat, NEW w \in Nat, w > 0
      PROVE  k % w \in Nat /\ k % w <= k /\ k % w < w
  BY <1>5
<1> QED
  BY <1>1, <1>2, <1>4, <1>5 DEF payload_len

(* The frame of a message (protocol.h:117-138). *)
LEMMA EncodeFrame ==
  ASSUME NEW m \in Messages
  PROVE  /\ encode(m) \in Seq(Byte)
         /\ Len(encode(m)) = HEADER_SIZE + payload_len(m)
         /\ encode(m)[1] = m.type
         /\ \A i \in 1..4 : encode(m)[i + 1] = htonl(m.id)[i]
         /\ \A i \in 1..4 : encode(m)[i + 5] = htonl(payload_len(m))[i]
         /\ \A i \in 1..payload_len(m) : encode(m)[i + HEADER_SIZE] = m.payload[i]
<1>1. /\ m \in AnyMessage /\ payload_len(m) \in Nat /\ payload_len(m) <= Len(m.payload)
      /\ payload_len(m) < WordSize
  BY PayloadLength
<1>2. m.type \in Byte /\ m.id \in Nat /\ m.id < WordSize /\ m.payload \in Seq(Byte)
  <2>1. Base \in Nat
    BY ProtocolAssumption
  <2>2. WordSize \in Int
    BY <2>1 DEF WordSize
  <2> QED
    BY <1>1, <2>1, <2>2 DEF AnyMessage
<1> DEFINE h == htonl(m.id)
           l == htonl(payload_len(m))
           N == HEADER_SIZE + payload_len(m)
<1>3. \A i \in 1..4 : h[i] \in Byte /\ l[i] \in Byte
  BY <1>1, <1>2, WordRoundTrip
<1> HIDE DEF h, l
<1>4. encode(m) = [i \in 1..N |-> CASE i = 1 -> m.type
                                    [] i \in 2..5 -> h[i - 1]
                                    [] i \in 6..9 -> l[i - 5]
                                    [] i > HEADER_SIZE -> m.payload[i - HEADER_SIZE]]
  BY DEF encode, h, l
<1>5. N \in Nat /\ N >= 9
  BY <1>1 DEF HEADER_SIZE
<1>6. /\ encode(m)[1] = m.type
      /\ \A i \in 1..4 : encode(m)[i + 1] = h[i]
      /\ \A i \in 1..4 : encode(m)[i + 5] = l[i]
      /\ \A i \in 1..payload_len(m) : encode(m)[i + HEADER_SIZE] = m.payload[i]
  <2>a. encode(m) = [i \in 1..N |-> CASE i = 1 -> m.type
                                      [] i \in 2..5 -> h[i - 1]
                                      [] i \in 6..9 -> l[i - 5]
                                      [] i > 9 -> m.payload[i - 9]]
    BY <1>4 DEF HEADER_SIZE
  <2>b. PICK n \in Nat : n = N /\ n >= 9 /\ n = 9 + payload_len(m)
    BY <1>5 DEF HEADER_SIZE
  <2> HIDE DEF N
  <2>1. encode(m)[1] = m.type
    <3>1. 1 \in 1..N /\ ~(1 \in 2..5) /\ ~(1 \in 6..9) /\ ~(1 > 9)
      BY <2>b
    <3> QED
      BY <2>a, <3>1
  <2>2. ASSUME NEW i \in 1..4 PROVE encode(m)[i + 1] = h[i]
    <3>1. i + 1 \in 1..N /\ i + 1 # 1 /\ i + 1 \in 2..5 /\ i + 1 - 1 = i
      BY <1>5
    <3>2. ~(i + 1 \in 6..9) /\ ~(i + 1 > 9)
      OBVIOUS
    <3> QED
      BY <2>a, <3>1, <3>2
  <2>3. ASSUME NEW i \in 1..4 PROVE encode(m)[i + 5] = l[i]
    <3>1. i + 5 \in 1..N /\ i + 5 # 1 /\ i + 5 \in 6..9 /\ i + 5 - 5 = i
      BY <1>5
    <3>2. ~(i + 5 \in 2..5) /\ ~(i + 5 > 9)
      OBVIOUS
    <3> QED
      BY <2>a, <3>1, <3>2
  <2>4. ASSUME NEW i \in 1..payload_len(m) PROVE encode(m)[i + HEADER_SIZE] = m.payload[i]
    <3>1. PICK P \in Nat : P = payload_len(m)
      BY <1>1
    <3>2. i \in 1..P /\ n = 9 + P
      BY <3>1, <2>b
    <3>3. i + 9 \in 1..n /\ i + 9 # 1 /\ i + 9 > 9 /\ i + 9 - 9 = i
      BY <3>2
    <3>4. ~(i + 9 \in 2..5) /\ ~(i + 9 \in 6..9)
      BY <3>2
    <3>5. encode(m)[i + 9] = m.payload[i]
      <4>1. PICK k \in Nat : k = i + 9
        BY <3>2
      <4>2. /\ k \in 1..N /\ k # 1 /\ k > 9 /\ k - 9 = i
            /\ ~(k \in 2..5) /\ ~(k \in 6..9)
        BY <2>b, <3>3, <3>4, <4>1
      <4>3. encode(m)[k] = m.payload[k - 9]
        BY <2>a, <4>2
      <4> QED
        BY <4>1, <4>2, <4>3
    <3> QED
      BY <3>5 DEF HEADER_SIZE
  <2> QED
    BY <2>1, <2>2, <2>3, <2>4
<1>7. \A i \in 1..N : encode(m)[i] \in Byte
  <2> TAKE i \in 1..N
  <2>1. CASE i = 1
    BY <2>1, <1>2, <1>6
  <2>2. CASE i \in 2..5
    <3>1. i - 1 \in 1..4 /\ (i - 1) + 1 = i
      BY <2>2
    <3>2. encode(m)[(i - 1) + 1] = h[i - 1]
      BY <3>1, <1>6
    <3>3. h[i - 1] \in Byte
      BY <3>1, <1>3
    <3> QED
      BY <3>1, <3>2, <3>3
  <2>3. CASE i \in 6..9
    <3>1. i - 5 \in 1..4 /\ (i - 5) + 5 = i
      BY <2>3
    <3>2. encode(m)[(i - 5) + 5] = l[i - 5]
      BY <3>1, <1>6
    <3>3. l[i - 5] \in Byte
      BY <3>1, <1>3
    <3> QED
      BY <3>1, <3>2, <3>3
  <2>4. CASE i > 9
    <3>1. i - 9 \in 1..payload_len(m) /\ (i - 9) + HEADER_SIZE = i
      BY <2>4, <1>1, <1>5 DEF HEADER_SIZE
    <3>2. m.payload[i - 9] \in Byte
      BY <3>1, <1>1, <1>2
    <3> QED
      BY <3>1, <3>2, <1>6
  <2> QED
    BY <1>5, <2>1, <2>2, <2>3, <2>4
<1>8. encode(m) \in Seq(Byte) /\ Len(encode(m)) = N
  <2>1. encode(m) \in [1..N -> Byte]
    BY <1>4, <1>7
  <2> QED
    BY <2>1, <1>5
<1> QED
  BY <1>6, <1>8 DEF h, l

(* recv_message reads back the header that encode wrote                    *)
(* (protocol.h:179-190).                                                   *)
LEMMA HeaderParses ==
  ASSUME NEW m \in Messages, NEW s \in Seq(Byte), Len(s) = HEADER_SIZE,
         \A i \in 1..HEADER_SIZE : s[i] = encode(m)[i]
  PROVE  s[1] = m.type /\ ntohl(s, 1) = m.id /\ ntohl(s, 5) = payload_len(m)
<1>1. /\ m.id \in Nat /\ payload_len(m) \in Nat
      /\ m.id < WordSize /\ payload_len(m) < WordSize
  <2>1. WordSize \in Int
    BY ProtocolAssumption DEF WordSize
  <2> QED
    BY <2>1, PayloadLength DEF AnyMessage
<1>2. /\ s[1] = m.type
      /\ s[2] = htonl(m.id)[1] /\ s[3] = htonl(m.id)[2]
      /\ s[4] = htonl(m.id)[3] /\ s[5] = htonl(m.id)[4]
  <2>1. \A i \in 1..4 : encode(m)[i + 1] = htonl(m.id)[i]
    BY EncodeFrame
  <2>2. \A i \in 1..9 : s[i] = encode(m)[i]
    BY DEF HEADER_SIZE
  <2> QED
    BY <2>1, <2>2, EncodeFrame
<1>3. /\ s[6] = htonl(payload_len(m))[1] /\ s[7] = htonl(payload_len(m))[2]
      /\ s[8] = htonl(payload_len(m))[3] /\ s[9] = htonl(payload_len(m))[4]
  <2>1. \A i \in 1..4 : encode(m)[i + 5] = htonl(payload_len(m))[i]
    BY EncodeFrame
  <2>2. \A i \in 1..9 : s[i] = encode(m)[i]
    BY DEF HEADER_SIZE
  <2> QED
    BY <2>1, <2>2
<1>4. ntohl(s, 1) = m.id
  <2>1. ntohl(s, 1) = ((s[2] * Base + s[3]) * Base + s[4]) * Base + s[5]
    BY DEF ntohl
  <2>2. ((htonl(m.id)[1] * Base + htonl(m.id)[2]) * Base
           + htonl(m.id)[3]) * Base + htonl(m.id)[4] = m.id
    BY <1>1, WordRoundTrip
  <2> QED
    BY <1>2, <2>1, <2>2
<1>5. ntohl(s, 5) = payload_len(m)
  <2>1. ntohl(s, 5) = ((s[6] * Base + s[7]) * Base + s[8]) * Base + s[9]
    BY DEF ntohl
  <2>2. ((htonl(payload_len(m))[1] * Base + htonl(payload_len(m))[2]) * Base
           + htonl(payload_len(m))[3]) * Base + htonl(payload_len(m))[4] = payload_len(m)
    BY <1>1, WordRoundTrip
  <2> QED
    BY <1>3, <2>1, <2>2
<1> QED
  BY <1>2, <1>4, <1>5

-----------------------------------------------------------------------------
(***************************************************************************)
(* The inductive invariant                                                 *)
(***************************************************************************)
Shape ==
  /\ buf \in Seq(Byte) /\ wire \in Seq(Byte) /\ over \in BOOLEAN
  /\ rd \in Nat /\ rd <= Len(wire)
  /\ pc \in {"idle", "header", "payload"}
  /\ got \in Seq(Byte) /\ len \in 0..MAX_PAYLOAD
  /\ sent \in Seq(Messages) /\ begins \in Seq(Nat) /\ Len(begins) = Len(sent) + 1
  /\ delivered \in Seq(AnyMessage)
  /\ out \in [type : Byte, id : 0..(WordSize - 1)]
  /\ status \in {"intact", "lost", "ended"}

(* Frames lie end to end, and wire is a prefix of all of them. *)
EndToEnd ==
  /\ begins[1] = 0
  /\ \A j \in 1..Len(sent) :
       begins[j + 1] = begins[j] + HEADER_SIZE + payload_len(sent[j])
  /\ \A i, j \in 1..Len(begins) : i <= j => begins[i] <= begins[j]

FramesOnWire ==
  \A j \in 1..Len(sent) : \A i \in 1..(HEADER_SIZE + payload_len(sent[j])) :
    begins[j] + i <= Len(wire) => wire[begins[j] + i] = encode(sent[j])[i]

(* What is still in buf is the rest of the last frame. *)
RestInBuf ==
  /\ Len(wire) <= begins[Len(begins)]
  /\ ~over => Len(wire) + Len(buf) = begins[Len(begins)]
  /\ ~over /\ buf # << >> =>
       LET m == sent[Len(sent)]
           n == HEADER_SIZE + payload_len(m)
       IN  /\ Len(sent) > 0 /\ Len(buf) <= n
           /\ \A i \in 1..Len(buf) : buf[i] = encode(m)[n - Len(buf) + i]

(* What recv_all has received is what is on the wire. *)
ReadFromWire ==
  /\ pc = "idle" => got = << >>
  /\ pc # "idle" => Len(got) <= Wanted
  /\ status = "intact" /\ pc = "header" =>
       \A i \in 1..Len(got) : got[i] = wire[Boundary + i]
  /\ status = "intact" /\ pc = "payload" =>
       \A i \in 1..Len(got) : got[i] = wire[Boundary + HEADER_SIZE + i]

(* After the end there is nothing to read. *)
NothingAfterEnd ==
  status = "ended" => over /\ rd = Len(wire) /\ pc # "payload" /\ got = << >>

IInv ==
  /\ Shape /\ EndToEnd /\ FramesOnWire /\ RestInBuf
  /\ ReadFromWire /\ InStep /\ NothingAfterEnd

-----------------------------------------------------------------------------
(***************************************************************************)
(* Every step preserves it                                                 *)
(***************************************************************************)

(* send_message (protocol.h:168-171): a new frame, not yet on the wire. *)
LEMMA SendMessageInv == IInv /\ send_message => IInv'
<1> SUFFICES ASSUME IInv, send_message
             PROVE  IInv'
  OBVIOUS
<1>0. EndToEnd /\ FramesOnWire /\ InStep /\ Shape
  BY DEF IInv
<1>1. PICK m \in Messages :
        /\ buf' = encode(m) /\ sent' = Append(sent, m)
        /\ begins' = Append(begins, begins[Len(begins)] + Len(encode(m)))
  BY DEF send_message
<1>2. /\ UNCHANGED <<wire, over, rd, pc, got, out, len, delivered, status>>
      /\ buf = << >>
  BY DEF send_message, receiver
<1> DEFINE N == HEADER_SIZE + payload_len(m)
           last == begins[Len(begins)]
<1>3. encode(m) \in Seq(Byte) /\ Len(encode(m)) = N /\ N \in Nat /\ N >= 9
  BY EncodeFrame, PayloadLength DEF HEADER_SIZE
<1>4. /\ sent \in Seq(Messages) /\ begins \in Seq(Nat)
      /\ Len(begins) = Len(sent) + 1 /\ wire \in Seq(Byte)
      /\ last \in Nat /\ Len(sent) \in Nat /\ Len(wire) \in Nat
  BY DEF IInv, Shape
<1>5. /\ sent' \in Seq(Messages) /\ Len(sent') = Len(sent) + 1
      /\ sent'[Len(sent) + 1] = m /\ \A j \in 1..Len(sent) : sent'[j] = sent[j]
  BY <1>1, <1>4
<1>6. /\ begins' \in Seq(Nat) /\ Len(begins') = Len(begins) + 1
      /\ begins'[Len(begins) + 1] = last + N
      /\ \A j \in 1..Len(begins) : begins'[j] = begins[j]
  BY <1>1, <1>3, <1>4
<1> HIDE DEF N, last
<1>7. Shape'
  BY <1>1, <1>2, <1>3, <1>4, <1>5, <1>6 DEF IInv, Shape
<1>8. EndToEnd'
  <2>1. begins'[1] = 0
    BY <1>4, <1>6 DEF IInv, EndToEnd
  <2>2. ASSUME NEW j \in 1..Len(sent')
        PROVE  begins'[j + 1] = begins'[j] + HEADER_SIZE + payload_len(sent'[j])
    <3>1. CASE j = Len(sent) + 1
      <4>1. begins'[j] = last /\ begins'[j + 1] = last + N /\ sent'[j] = m
        BY <3>1, <1>4, <1>5, <1>6 DEF last
      <4> QED
        BY <4>1, <1>3, <1>4, PayloadLength DEF N, HEADER_SIZE
    <3>2. CASE j \in 1..Len(sent)
      <4>1. j \in 1..Len(begins) /\ j + 1 \in 1..Len(begins)
        BY <3>2, <1>4
      <4>2. begins'[j] = begins[j] /\ begins'[j + 1] = begins[j + 1] /\ sent'[j] = sent[j]
        BY <4>1, <3>2, <1>5, <1>6
      <4>3. begins[j + 1] = begins[j] + HEADER_SIZE + payload_len(sent[j])
        BY <3>2, <1>0 DEF EndToEnd
      <4> QED
        BY <4>2, <4>3
    <3> QED
      BY <3>1, <3>2, <1>4, <1>5
  <2>3. ASSUME NEW i \in 1..Len(begins'), NEW j \in 1..Len(begins'), i <= j
        PROVE  begins'[i] <= begins'[j]
    <3>1. CASE j \in 1..Len(begins)
      <4>1. i \in 1..Len(begins)
        BY <2>3, <3>1, <1>4, <1>6
      <4> QED
        BY <4>1, <2>3, <3>1, <1>0, <1>6 DEF EndToEnd
    <3>2. CASE j = Len(begins) + 1 /\ i = j
      BY <3>2, <1>3, <1>4, <1>6
    <3>3. CASE j = Len(begins) + 1 /\ i \in 1..Len(begins)
      <4>1. begins[i] <= last /\ begins[i] \in Nat
        BY <3>3, <1>4 DEF IInv, EndToEnd, last
      <4> QED
        BY <4>1, <3>3, <1>3, <1>4, <1>6
    <3> QED
      BY <2>3, <3>1, <3>2, <3>3, <1>4, <1>6
  <2> QED
    BY <2>1, <2>2, <2>3 DEF EndToEnd
<1>9. Len(wire) <= last /\ (~over => Len(wire) = last)
  BY <1>2, <1>4 DEF IInv, RestInBuf, last
<1>10. FramesOnWire'
  <2> SUFFICES ASSUME NEW j \in 1..Len(sent'),
                      NEW i \in 1..(HEADER_SIZE + payload_len(sent'[j])),
                      begins'[j] + i <= Len(wire')
               PROVE  wire'[begins'[j] + i] = encode(sent'[j])[i]
    BY DEF FramesOnWire
  <2>1. CASE j = Len(sent) + 1
    <3>1. begins'[j] = last
      <4>1. j = Len(begins) /\ j \in 1..Len(begins)
        BY <2>1, <1>4
      <4> QED
        BY <4>1, <1>6 DEF last
    <3>2. i \in Nat /\ i >= 1
      BY <2>1, <1>3, <1>5 DEF N
    <3> QED
      BY <3>1, <3>2, <1>2, <1>4, <1>9
  <2>2. CASE j \in 1..Len(sent)
    <3>1. j \in 1..Len(begins)
      BY <2>2, <1>4
    <3>2. begins'[j] = begins[j] /\ sent'[j] = sent[j]
      BY <3>1, <2>2, <1>5, <1>6
    <3> QED
      BY <3>2, <2>2, <1>0, <1>2 DEF FramesOnWire
  <2> QED
    BY <2>1, <2>2, <1>4, <1>5
<1>11. RestInBuf'
  <2>1. begins'[Len(begins')] = last + N /\ sent'[Len(sent')] = m
    BY <1>4, <1>5, <1>6
  <2>2. Len(wire') <= begins'[Len(begins')]
    BY <2>1, <1>2, <1>3, <1>4, <1>9
  <2>3. ~over' => Len(wire') + Len(buf') = begins'[Len(begins')]
    BY <2>1, <1>1, <1>2, <1>3, <1>4, <1>9
  <2>4. /\ Len(sent') > 0 /\ Len(buf') <= N
        /\ \A i \in 1..Len(buf') : buf'[i] = encode(m)[N - Len(buf') + i]
    BY <1>1, <1>3, <1>4, <1>5
  <2> QED
    BY <2>1, <2>2, <2>3, <2>4 DEF RestInBuf, N
<1>12. status = "intact" => /\ Len(delivered) \in Nat /\ Len(delivered) <= Len(sent)
                            /\ Boundary' = Boundary
                            /\ Len(delivered) < Len(sent) =>
                                 sent'[Len(delivered) + 1] = sent[Len(delivered) + 1]
  <2> SUFFICES ASSUME status = "intact"
               PROVE  /\ Len(delivered) \in Nat /\ Len(delivered) <= Len(sent)
                      /\ Boundary' = Boundary
                      /\ Len(delivered) < Len(sent) =>
                           sent'[Len(delivered) + 1] = sent[Len(delivered) + 1]
    OBVIOUS
  <2>1. Len(delivered) \in Nat /\ Len(delivered) <= Len(sent)
    BY <1>0 DEF InStep, Shape
  <2>2. Len(delivered) + 1 \in 1..Len(begins)
    BY <2>1, <1>4
  <2>3. Boundary' = Boundary
    BY <2>2, <1>2, <1>6 DEF Boundary
  <2>4. Len(delivered) < Len(sent) => Len(delivered) + 1 \in 1..Len(sent)
    BY <2>1, <1>4
  <2> QED
    BY <2>1, <2>3, <2>4, <1>5
<1>13. ReadFromWire'
  BY <1>2, <1>12 DEF IInv, ReadFromWire, Wanted
<1>14. InStep'
  BY <1>2, <1>4, <1>5, <1>12 DEF IInv, InStep
<1>15. NothingAfterEnd'
  BY <1>2 DEF IInv, NothingAfterEnd
<1> QED
  BY <1>7, <1>8, <1>10, <1>11, <1>13, <1>14, <1>15 DEF IInv

(* One round of send_all (protocol.h:147-155): the frame moves from buf to *)
(* the wire.                                                               *)
LEMMA SendChunkInv == IInv /\ SendChunk => IInv'
<1> SUFFICES ASSUME IInv, SendChunk
             PROVE  IInv'
  OBVIOUS
<1>0. Shape /\ EndToEnd /\ FramesOnWire /\ RestInBuf /\ ReadFromWire /\ InStep
  BY DEF IInv
<1>1. PICK n \in 1..Len(buf) : /\ wire' = wire \o SubSeq(buf, 1, n)
                               /\ buf' = SubSeq(buf, n + 1, Len(buf))
  BY DEF SendChunk
<1>2. /\ UNCHANGED <<sent, begins, over, rd, pc, got, out, len, delivered, status>>
      /\ ~over
  BY DEF SendChunk, receiver
<1>3. /\ wire \in Seq(Byte) /\ buf \in Seq(Byte) /\ begins \in Seq(Nat)
      /\ Len(wire) \in Nat /\ Len(buf) \in Nat /\ n \in Nat /\ n <= Len(buf)
      /\ sent \in Seq(Messages) /\ Len(sent) \in Nat /\ Len(begins) = Len(sent) + 1
  BY <1>0 DEF Shape
<1>4. /\ wire' \in Seq(Byte) /\ Len(wire') = Len(wire) + n
      /\ \A i \in 1..Len(wire) : wire'[i] = wire[i]
      /\ \A i \in 1..n : wire'[Len(wire) + i] = buf[i]
  <2>1. SubSeq(buf, 1, n) \in Seq(Byte) /\ Len(SubSeq(buf, 1, n)) = n
    BY <1>3
  <2>2. \A i \in 1..n : SubSeq(buf, 1, n)[i] = buf[i]
    BY <1>3
  <2> QED
    BY <2>1, <2>2, <1>1, <1>3
<1>5. /\ buf' \in Seq(Byte) /\ Len(buf') = Len(buf) - n
      /\ \A i \in 1..Len(buf') : buf'[i] = buf[n + i]
  <2>1. /\ SubSeq(buf, n + 1, Len(buf)) \in Seq(Byte)
        /\ Len(SubSeq(buf, n + 1, Len(buf))) = Len(buf) - n
    BY <1>3
  <2>2. \A i \in 1..(Len(buf) - n) : SubSeq(buf, n + 1, Len(buf))[i] = buf[n + i]
    BY <1>3
  <2> QED
    BY <2>1, <2>2, <1>1
<1> DEFINE m == sent[Len(sent)]
           N == HEADER_SIZE + payload_len(m)
<1>6. /\ Len(sent) > 0 /\ Len(buf) <= N
      /\ \A i \in 1..Len(buf) : buf[i] = encode(m)[N - Len(buf) + i]
      /\ Len(wire) + Len(buf) = begins[Len(begins)]
  BY <1>0, <1>1, <1>2, <1>3 DEF RestInBuf
<1>7. m \in Messages /\ N \in Nat
  <2>1. m \in Messages
    BY <1>3, <1>6
  <2> QED
    BY <2>1, PayloadLength DEF HEADER_SIZE
<1>8. /\ begins[Len(sent)] \in Nat
      /\ begins[Len(begins)] = begins[Len(sent)] + N
  <2>1. Len(sent) \in 1..Len(sent) /\ Len(sent) \in 1..Len(begins)
    BY <1>3, <1>6
  <2>2. begins[Len(sent) + 1] = begins[Len(sent)] + HEADER_SIZE + payload_len(m)
    BY <2>1, <1>0 DEF EndToEnd
  <2>3. begins[Len(sent)] \in Nat
    BY <2>1, <1>3
  <2>4. payload_len(m) \in Nat
    BY <1>7, PayloadLength
  <2>5. begins[Len(begins)] = begins[Len(sent) + 1]
    BY <1>3
  <2> HIDE DEF m
  <2>6. PICK b \in Nat, P \in Nat : b = begins[Len(sent)] /\ P = payload_len(m)
    BY <2>3, <2>4
  <2>7. b + HEADER_SIZE + P = b + (HEADER_SIZE + P)
    BY DEF HEADER_SIZE
  <2> QED
    BY <2>2, <2>3, <2>5, <2>6, <2>7
<1> HIDE DEF m, N
<1>a. /\ Len(wire) \in Nat /\ Len(buf) \in Nat /\ n \in Nat /\ n <= Len(buf)
      /\ N \in Nat /\ Len(buf) <= N /\ Len(wire') = Len(wire) + n
      /\ begins[Len(sent)] \in Nat
      /\ Len(wire) + Len(buf) = begins[Len(sent)] + N
  BY <1>3, <1>4, <1>6, <1>7, <1>8
<1>9. Shape'
  BY <1>0, <1>2, <1>3, <1>4, <1>5 DEF Shape
<1>10. EndToEnd'
  BY <1>0, <1>2 DEF EndToEnd
<1>11. FramesOnWire'
  <2> SUFFICES ASSUME NEW j \in 1..Len(sent),
                      NEW i \in 1..(HEADER_SIZE + payload_len(sent[j])),
                      begins[j] + i <= Len(wire')
               PROVE  wire'[begins[j] + i] = encode(sent[j])[i]
    BY <1>2 DEF FramesOnWire
  <2>1. /\ j \in Nat /\ j + 1 \in 1..Len(begins) /\ Len(sent) \in 1..Len(begins)
        /\ begins[j] \in Nat /\ sent[j] \in Messages
    <3>1. j \in Nat /\ j + 1 \in 1..Len(begins) /\ Len(sent) \in 1..Len(begins)
      BY <1>3
    <3>2. j \in 1..Len(begins)
      BY <1>3
    <3> QED
      BY <3>1, <3>2, <1>3
  <2>2. payload_len(sent[j]) \in Nat /\ i \in Nat /\ i >= 1
    BY <2>1, PayloadLength DEF HEADER_SIZE
  <2>a. PICK b \in Nat, L \in Nat : b = begins[j] /\ L = Len(wire)
    BY <2>1, <1>a
  <2>3. CASE begins[j] + i <= Len(wire)
    <3>1. b + i \in 1..L
      BY <2>2, <2>3, <2>a
    <3>2. begins[j] + i \in 1..Len(wire)
      BY <3>1, <2>a
    <3> QED
      BY <3>2, <2>3, <1>0, <1>4 DEF FramesOnWire
  <2>4. CASE begins[j] + i > Len(wire)
    <3>1. begins[j] + i <= begins[j + 1]
      <4>1. begins[j + 1] = begins[j] + HEADER_SIZE + payload_len(sent[j])
        BY <1>0 DEF EndToEnd
      <4> QED
        BY <4>1, <2>1, <2>2 DEF HEADER_SIZE
    <3>2. begins[Len(sent)] <= Len(wire)
      BY <1>a
    <3>3. ASSUME j + 1 <= Len(sent) PROVE FALSE
      <4>1. begins[j + 1] <= begins[Len(sent)]
        BY <3>3, <2>1, <1>0 DEF EndToEnd
      <4>2. begins[j + 1] \in Nat
        <5>1. \A k \in 1..Len(begins) : begins[k] \in Nat
          BY <1>3, ElementOfSeq
        <5> QED
          BY <5>1, <2>1, Zenon
      <4>3. PICK c \in Nat, d \in Nat : c = begins[j + 1] /\ d = begins[Len(sent)]
        BY <4>2, <1>a
      <4>4. c <= d /\ b + i <= c /\ d <= L /\ b + i > L
        BY <4>1, <4>3, <3>1, <3>2, <2>4, <2>a
      <4> QED
        BY <4>4, <2>2
    <3>4. j = Len(sent)
      BY <3>3, <2>1, <1>3
    <3> DEFINE p == begins[j] + i - Len(wire)
    <3>5. p \in 1..n /\ Len(wire) + p = begins[j] + i
      <4>1. begins[j] + i <= Len(wire) + n
        BY <1>a
      <4>2. begins[j] \in Nat /\ i \in Nat /\ Len(wire) \in Nat /\ n \in Nat
        BY <2>1, <2>2, <1>a
      <4>3. b + i <= L + n /\ b + i > L /\ p = b + i - L
        BY <4>1, <2>4, <2>a
      <4>4. b + i - L \in 1..n /\ L + (b + i - L) = b + i
        <5>1. b + i \in Nat /\ L \in Nat /\ n \in Nat
          BY <4>2
        <5> HIDE DEF p
        <5> QED
          BY <5>1, <4>3
      <4> QED
        BY <4>3, <4>4, <2>a
    <3>6. wire'[begins[j] + i] = buf[p]
      BY <3>5, <1>4
    <3>7. N - Len(buf) + p = i
      <4>1. PICK B \in Nat : B = Len(buf)
        BY <1>a
      <4>2. L + B = b + N /\ p = b + i - L /\ N \in Nat
        BY <4>1, <3>4, <2>a, <1>a
      <4>3. N - B + p = i
        BY <4>2, <2>2
      <4> QED
        BY <4>1, <4>3
    <3>8. buf[p] = encode(m)[i]
      <4>1. p \in 1..Len(buf)
        BY <3>5, <1>a
      <4> QED
        BY <4>1, <3>7, <1>6
    <3> QED
      BY <3>4, <3>6, <3>8 DEF m
  <2>5. b + i <= L \/ b + i > L
    BY <2>2
  <2> QED
    BY <2>3, <2>4, <2>5, <2>a
<1>12. RestInBuf'
  <2>1. Len(wire') + Len(buf') = begins[Len(begins)]
    BY <1>3, <1>4, <1>5, <1>6, <1>7, <1>8
  <2>2. Len(wire') <= begins[Len(begins)]
    BY <2>1, <1>3, <1>4, <1>5
  <2>3. \A i \in 1..Len(buf') : buf'[i] = encode(m)[N - Len(buf') + i]
    <3> TAKE i \in 1..Len(buf')
    <3>1. n + i \in 1..Len(buf) /\ N - Len(buf) + (n + i) = N - Len(buf') + i
      BY <1>3, <1>5, <1>7
    <3> QED
      BY <3>1, <1>5, <1>6
  <2>4. Len(buf') <= N
    BY <1>3, <1>5, <1>6, <1>7
  <2> QED
    BY <2>1, <2>2, <2>3, <2>4, <1>2, <1>6 DEF RestInBuf, m, N
<1>13. Boundary' = Boundary
  BY <1>2 DEF Boundary
<1>14. ReadFromWire'
  <2>1. ASSUME status = "intact", NEW k \in Nat, k <= rd, k >= 1
        PROVE  wire'[k] = wire[k]
    BY <2>1, <1>0, <1>3, <1>4 DEF Shape
  <2>2. status = "intact" => Boundary \in Nat
    <3>1. ASSUME status = "intact" PROVE Len(delivered) + 1 \in 1..Len(begins)
      BY <3>1, <1>0, <1>3 DEF InStep, Shape
    <3> QED
      BY <3>1, <1>3 DEF Boundary
  <2>3. Len(got) \in Nat /\ rd \in Nat
    BY <1>0 DEF Shape
  <2>4. ASSUME status = "intact", pc = "header", NEW i \in 1..Len(got)
        PROVE  got[i] = wire'[Boundary + i]
    <3>1. rd = Boundary + Len(got)
      BY <2>4, <1>0 DEF InStep
    <3>2. wire'[Boundary + i] = wire[Boundary + i]
      BY <2>1, <2>2, <2>3, <2>4, <3>1
    <3> QED
      BY <2>4, <3>2, <1>0 DEF ReadFromWire
  <2>5. ASSUME status = "intact", pc = "payload", NEW i \in 1..Len(got)
        PROVE  got[i] = wire'[Boundary + HEADER_SIZE + i]
    <3>1. rd = Boundary + HEADER_SIZE + Len(got)
      BY <2>5, <1>0 DEF InStep
    <3>2. wire'[Boundary + HEADER_SIZE + i] = wire[Boundary + HEADER_SIZE + i]
      BY <2>1, <2>2, <2>3, <2>5, <3>1 DEF HEADER_SIZE
    <3> QED
      BY <2>5, <3>2, <1>0 DEF ReadFromWire
  <2> QED
    BY <2>4, <2>5, <1>0, <1>2, <1>13 DEF ReadFromWire, Wanted
<1>15. InStep'
  BY <1>0, <1>2, <1>13 DEF InStep
<1>16. NothingAfterEnd'
  BY <1>2 DEF IInv, NothingAfterEnd
<1> QED
  BY <1>9, <1>10, <1>11, <1>12, <1>14, <1>15, <1>16 DEF IInv

(* send_message returns false (protocol.h:151). *)
LEMMA SendFailsInv == IInv /\ SendFails => IInv'
<1> SUFFICES ASSUME IInv, SendFails
             PROVE  IInv'
  OBVIOUS
<1>1. /\ buf' = << >> /\ over /\ over' = over
      /\ UNCHANGED <<sent, begins, wire, rd, pc, got, out, len, delivered, status>>
  BY DEF SendFails, receiver
<1>2. Boundary' = Boundary /\ Wanted' = Wanted
  BY <1>1 DEF Boundary, Wanted
<1>3. Shape'
  BY <1>1 DEF IInv, Shape
<1>4. EndToEnd' /\ FramesOnWire' /\ RestInBuf'
  BY <1>1 DEF IInv, EndToEnd, FramesOnWire, RestInBuf
<1>5. ReadFromWire' /\ InStep' /\ NothingAfterEnd'
  BY <1>1, <1>2 DEF IInv, ReadFromWire, InStep, NothingAfterEnd
<1> QED
  BY <1>3, <1>4, <1>5 DEF IInv

(* Where the receiver is, as numbers. *)
LEMMA ReceiverPlace ==
  ASSUME IInv, status = "intact"
  PROVE  /\ Len(delivered) \in Nat /\ Len(delivered) + 1 \in 1..Len(begins)
         /\ Boundary \in Nat /\ rd \in Nat /\ Len(got) \in Nat /\ Len(wire) \in Nat
         /\ rd <= Len(wire)
         /\ pc \in {"idle", "header"} => rd = Boundary + Len(got)
         /\ pc = "payload" => rd = Boundary + HEADER_SIZE + Len(got)
<1>1. Shape /\ InStep
  BY DEF IInv
<1>2. /\ Len(delivered) \in Nat /\ Len(sent) \in Nat /\ Len(begins) = Len(sent) + 1
      /\ rd \in Nat /\ Len(got) \in Nat /\ Len(wire) \in Nat /\ rd <= Len(wire)
  BY <1>1 DEF Shape
<1>3. Len(delivered) + 1 \in 1..Len(begins)
  BY <1>1, <1>2 DEF InStep
<1>4. Boundary \in Nat
  BY <1>1, <1>3 DEF Boundary, Shape
<1> QED
  BY <1>1, <1>2, <1>3, <1>4 DEF InStep

(* The connection ends and cuts the wire behind what has been read         *)
(* (protocol.h:151, 161).                                                  *)
LEMMA ConnectionEndsInv == IInv /\ ConnectionEnds => IInv'
<1> SUFFICES ASSUME IInv, ConnectionEnds
             PROVE  IInv'
  OBVIOUS
<1>0. Shape /\ EndToEnd /\ FramesOnWire /\ RestInBuf /\ ReadFromWire /\ InStep
  BY DEF IInv
<1>1. PICK k \in rd..Len(wire) : wire' = SubSeq(wire, 1, k)
  BY DEF ConnectionEnds
<1>2. /\ UNCHANGED <<buf, sent, begins, rd, pc, got, out, len, delivered, status>>
      /\ ~over /\ over' = TRUE
  BY DEF ConnectionEnds, sender, receiver
<1>3. /\ wire \in Seq(Byte) /\ rd \in Nat /\ rd <= Len(wire) /\ Len(wire) \in Nat
      /\ k \in Nat /\ k <= Len(wire) /\ rd <= k
  BY <1>0 DEF Shape
<1>4. /\ wire' \in Seq(Byte) /\ Len(wire') = k
      /\ \A i \in 1..k : wire'[i] = wire[i]
  BY <1>1, <1>3
<1>5. Boundary' = Boundary
  BY <1>2 DEF Boundary
<1>6. Shape' /\ EndToEnd'
  BY <1>0, <1>2, <1>3, <1>4 DEF Shape, EndToEnd
<1>7. FramesOnWire'
  <2> SUFFICES ASSUME NEW j \in 1..Len(sent),
                      NEW i \in 1..(HEADER_SIZE + payload_len(sent[j])),
                      begins[j] + i <= k
               PROVE  wire'[begins[j] + i] = encode(sent[j])[i]
    BY <1>2, <1>4 DEF FramesOnWire
  <2>1. begins[j] \in Nat /\ sent[j] \in Messages
    <3>1. /\ sent \in Seq(Messages) /\ begins \in Seq(Nat)
          /\ Len(begins) = Len(sent) + 1 /\ Len(sent) \in Nat
      BY <1>0 DEF Shape
    <3>2. j \in 1..Len(begins)
      BY <3>1
    <3> QED
      BY <3>1, <3>2
  <2>2. i \in Nat /\ i >= 1
    BY <2>1, PayloadLength DEF HEADER_SIZE
  <2>3. begins[j] + i \in 1..k /\ begins[j] + i <= Len(wire)
    BY <2>1, <2>2, <1>3
  <2> QED
    BY <2>3, <1>0, <1>4 DEF FramesOnWire
<1>8. RestInBuf'
  <2>1. begins[Len(begins)] \in Nat
    BY <1>0 DEF Shape
  <2> QED
    BY <2>1, <1>0, <1>2, <1>3, <1>4 DEF RestInBuf
<1>9. ReadFromWire'
  <2>1. ASSUME status = "intact", pc = "header", NEW i \in 1..Len(got)
        PROVE  got[i] = wire'[Boundary + i]
    <3>1. Boundary + i \in 1..k
      BY <2>1, <1>3, ReceiverPlace
    <3> QED
      BY <3>1, <2>1, <1>0, <1>4 DEF ReadFromWire
  <2>2. ASSUME status = "intact", pc = "payload", NEW i \in 1..Len(got)
        PROVE  got[i] = wire'[Boundary + HEADER_SIZE + i]
    <3>1. Boundary + HEADER_SIZE + i \in 1..k
      BY <2>2, <1>3, ReceiverPlace DEF HEADER_SIZE
    <3> QED
      BY <3>1, <2>2, <1>0, <1>4 DEF ReadFromWire
  <2> QED
    BY <2>1, <2>2, <1>0, <1>2, <1>5 DEF ReadFromWire, Wanted
<1>10. InStep'
  BY <1>0, <1>2, <1>5 DEF InStep
<1>11. NothingAfterEnd'
  BY <1>2 DEF IInv, NothingAfterEnd
<1> QED
  BY <1>6, <1>7, <1>8, <1>9, <1>10, <1>11 DEF IInv

(* recv_message is called (protocol.h:175). *)
LEMMA RecvMessageInv == IInv /\ recv_message => IInv'
<1> SUFFICES ASSUME IInv, recv_message
             PROVE  IInv'
  OBVIOUS
<1>0. Shape /\ EndToEnd /\ FramesOnWire /\ RestInBuf /\ ReadFromWire /\ InStep
      /\ NothingAfterEnd
  BY DEF IInv
<1>1. /\ pc = "idle" /\ pc' = "header"
      /\ UNCHANGED <<buf, sent, begins, wire, over, rd, got, out, len, delivered, status>>
  BY DEF recv_message, sender
<1>2. Boundary' = Boundary /\ got = << >> /\ Len(got) = 0
  BY <1>0, <1>1 DEF Boundary, ReadFromWire
<1>3. Shape' /\ EndToEnd' /\ FramesOnWire' /\ RestInBuf'
  BY <1>0, <1>1 DEF Shape, EndToEnd, FramesOnWire, RestInBuf
<1>4. ReadFromWire'
  BY <1>0, <1>1, <1>2 DEF ReadFromWire, Wanted, HEADER_SIZE
<1>5. InStep' /\ NothingAfterEnd'
  BY <1>0, <1>1, <1>2 DEF InStep, NothingAfterEnd
<1> QED
  BY <1>3, <1>4, <1>5 DEF IInv

(* Parts and concatenations of byte sequences. *)
LEMMA Part ==
  ASSUME NEW s \in Seq(Byte), NEW a \in Nat, NEW n \in Nat, a + n <= Len(s)
  PROVE  /\ SubSeq(s, a + 1, a + n) \in Seq(Byte)
         /\ Len(SubSeq(s, a + 1, a + n)) = n
         /\ \A i \in 1..n : SubSeq(s, a + 1, a + n)[i] = s[a + i]
<1>1. Len(SubSeq(s, a + 1, a + n)) = n
  OBVIOUS
<1>2. \A i \in 1..n : SubSeq(s, a + 1, a + n)[i] = s[a + i]
  OBVIOUS
<1>3. SubSeq(s, a + 1, a + n) \in Seq(Byte)
  OBVIOUS
<1> QED
  BY <1>1, <1>2, <1>3

(* A prefix of a sequence of bytes, as ConnectionEnds and recv_all cut it. *)
LEMMA Prefix ==
  ASSUME NEW s \in Seq(Byte), NEW n \in Nat, n <= Len(s)
  PROVE  /\ SubSeq(s, 1, n) \in Seq(Byte)
         /\ Len(SubSeq(s, 1, n)) = n
         /\ \A i \in 1..n : SubSeq(s, 1, n)[i] = s[i]
<1>1. Len(SubSeq(s, 1, n)) = n
  OBVIOUS
<1>2. \A i \in 1..n : SubSeq(s, 1, n)[i] = s[i]
  OBVIOUS
<1>3. SubSeq(s, 1, n) \in Seq(Byte)
  OBVIOUS
<1> QED
  BY <1>1, <1>2, <1>3

(* recv_all puts the next bytes behind those it has (protocol.h:160-162). *)
LEMMA Concat ==
  ASSUME NEW s \in Seq(Byte), NEW t \in Seq(Byte)
  PROVE  /\ s \o t \in Seq(Byte)
         /\ Len(s \o t) = Len(s) + Len(t)
         /\ \A i \in 1..Len(s) : (s \o t)[i] = s[i]
         /\ \A i \in 1..Len(t) : (s \o t)[Len(s) + i] = t[i]
<1>1. Len(s \o t) = Len(s) + Len(t)
  OBVIOUS
<1>2. \A i \in 1..Len(s) : (s \o t)[i] = s[i]
  OBVIOUS
<1>3. \A i \in 1..Len(t) : (s \o t)[Len(s) + i] = t[i]
  OBVIOUS
<1> QED
  BY <1>1, <1>2, <1>3

(* One round of recv_all (protocol.h:157-165). *)
LEMMA RecvChunkInv == IInv /\ RecvChunk => IInv'
<1> SUFFICES ASSUME IInv, RecvChunk
             PROVE  IInv'
  OBVIOUS
<1>0. Shape /\ EndToEnd /\ FramesOnWire /\ RestInBuf /\ ReadFromWire /\ InStep
      /\ NothingAfterEnd
  BY DEF IInv
<1>1. PICK n \in 1..(Wanted - Len(got)) :
        /\ n <= Len(wire) - rd
        /\ got' = got \o SubSeq(wire, rd + 1, rd + n)
        /\ rd' = rd + n
  BY DEF RecvChunk
<1>2. /\ UNCHANGED <<buf, sent, begins, wire, over, pc, out, len, delivered, status>>
      /\ pc # "idle"
  BY DEF RecvChunk, sender
<1>3. /\ wire \in Seq(Byte) /\ got \in Seq(Byte) /\ rd \in Nat /\ rd <= Len(wire)
      /\ Len(got) \in Nat /\ Len(wire) \in Nat /\ Wanted \in Int
  BY <1>0 DEF Shape, Wanted, HEADER_SIZE
<1>4. n \in Nat /\ n >= 1 /\ rd + n <= Len(wire) /\ Len(got) + n <= Wanted
  BY <1>1, <1>3
<1>5. /\ got' \in Seq(Byte) /\ Len(got') = Len(got) + n
      /\ \A i \in 1..Len(got) : got'[i] = got[i]
      /\ \A i \in 1..n : got'[Len(got) + i] = wire[rd + i]
  <2>1. PICK part \in Seq(Byte) :
          /\ part = SubSeq(wire, rd + 1, rd + n) /\ Len(part) = n
          /\ \A i \in 1..n : part[i] = wire[rd + i]
    BY <1>3, <1>4, Part
  <2>2. got' = got \o part
    BY <1>1, <2>1
  <2>3. /\ got \o part \in Seq(Byte) /\ Len(got \o part) = Len(got) + Len(part)
        /\ \A i \in 1..Len(got) : (got \o part)[i] = got[i]
        /\ \A i \in 1..Len(part) : (got \o part)[Len(got) + i] = part[i]
    BY <1>3, Concat
  <2> QED
    BY <2>1, <2>2, <2>3
<1>6. Boundary' = Boundary /\ Wanted' = Wanted
  BY <1>2 DEF Boundary, Wanted
<1>7. Shape' /\ EndToEnd' /\ FramesOnWire' /\ RestInBuf'
  <2>1. rd' \in Nat /\ rd' <= Len(wire)
    BY <1>1, <1>3, <1>4
  <2>2. Shape'
    BY <2>1, <1>0, <1>2, <1>5 DEF Shape
  <2> QED
    BY <2>2, <1>0, <1>2 DEF EndToEnd, FramesOnWire, RestInBuf
<1>8. ReadFromWire'
  <2>1. ASSUME status = "intact", pc = "header", NEW i \in 1..(Len(got) + n)
        PROVE  got'[i] = wire[Boundary + i]
    <3>1. CASE i \in 1..Len(got)
      BY <3>1, <2>1, <1>0, <1>5 DEF ReadFromWire
    <3>2. CASE i > Len(got)
      <4>1. i - Len(got) \in 1..n /\ Len(got) + (i - Len(got)) = i
        BY <3>2, <1>3, <1>4
      <4>2. rd = Boundary + Len(got) /\ Boundary \in Nat
        BY <2>1, ReceiverPlace
      <4>3. rd + (i - Len(got)) = Boundary + i
        BY <4>1, <4>2, <1>3
      <4> QED
        BY <4>1, <4>3, <1>5
    <3> QED
      BY <3>1, <3>2, <1>3, <1>4
  <2>2. ASSUME status = "intact", pc = "payload", NEW i \in 1..(Len(got) + n)
        PROVE  got'[i] = wire[Boundary + HEADER_SIZE + i]
    <3>1. CASE i \in 1..Len(got)
      BY <3>1, <2>2, <1>0, <1>5 DEF ReadFromWire
    <3>2. CASE i > Len(got)
      <4>1. i - Len(got) \in 1..n /\ Len(got) + (i - Len(got)) = i
        BY <3>2, <1>3, <1>4
      <4>2. rd = Boundary + HEADER_SIZE + Len(got) /\ Boundary \in Nat
        BY <2>2, ReceiverPlace
      <4>3. rd + (i - Len(got)) = Boundary + HEADER_SIZE + i
        BY <4>1, <4>2, <1>3 DEF HEADER_SIZE
      <4> QED
        BY <4>1, <4>3, <1>5
    <3> QED
      BY <3>1, <3>2, <1>3, <1>4
  <2> QED
    BY <2>1, <2>2, <1>0, <1>2, <1>4, <1>5, <1>6 DEF ReadFromWire
<1>9. InStep'
  <2>1. ASSUME status = "intact", pc = "header"
        PROVE  rd' = Boundary + Len(got')
    <3>1. rd = Boundary + Len(got) /\ Boundary \in Nat
      BY <2>1, ReceiverPlace
    <3> QED
      BY <3>1, <1>1, <1>3, <1>4, <1>5
  <2>2. ASSUME status = "intact", pc = "payload"
        PROVE  rd' = Boundary + HEADER_SIZE + Len(got')
    <3>1. rd = Boundary + HEADER_SIZE + Len(got) /\ Boundary \in Nat
      BY <2>2, ReceiverPlace
    <3> QED
      BY <3>1, <1>1, <1>3, <1>4, <1>5 DEF HEADER_SIZE
  <2> QED
    BY <2>1, <2>2, <1>0, <1>2, <1>6 DEF InStep
<1>10. NothingAfterEnd'
  <2>1. status = "ended" => FALSE
    BY <1>0, <1>3, <1>4 DEF NothingAfterEnd
  <2> QED
    BY <2>1, <1>2 DEF NothingAfterEnd
<1> QED
  BY <1>7, <1>8, <1>9, <1>10 DEF IInv

(* What recv_message leaves behind (protocol.h:175-203). *)
LEMMA ReturnTypes ==
  /\ << >> \in Seq(Byte) /\ 0 \in 0..MAX_PAYLOAD
  /\ NoMessage \in [type : Byte, id : 0..(WordSize - 1)]
<1>1. Base \in Nat /\ Base > 1 /\ MAX_PAYLOAD \in Nat
  BY ProtocolAssumption
<1>2. 0 \in Byte
  BY <1>1 DEF Byte
<1>3. ((0 * Base + 0) * Base + 0) * Base + 0 < WordSize
  BY <1>2, Word
<1>4. ((0 * Base + 0) * Base + 0) * Base + 0 = 0 /\ WordSize \in Int
  BY <1>1 DEF WordSize
<1>5. 0 \in 0..(WordSize - 1)
  BY <1>3, <1>4
<1> QED
  BY <1>1, <1>2, <1>5 DEF NoMessage

(* ::recv returns 0 or an error (protocol.h:161). *)
LEMMA RecvFailsInv == IInv /\ RecvFails => IInv'
<1> SUFFICES ASSUME IInv, RecvFails
             PROVE  IInv'
  OBVIOUS
<1>0. Shape /\ EndToEnd /\ FramesOnWire /\ RestInBuf
  BY DEF IInv
<1>1. /\ UNCHANGED <<buf, sent, begins, wire, over, rd, delivered>>
      /\ over /\ rd = Len(wire) /\ status' = "ended"
      /\ pc' = "idle" /\ got' = << >> /\ out' = NoMessage /\ len' = 0
  BY DEF RecvFails, Return, sender
<1>2. Shape'
  BY <1>0, <1>1, ReturnTypes DEF Shape
<1>3. EndToEnd' /\ FramesOnWire' /\ RestInBuf'
  BY <1>0, <1>1 DEF EndToEnd, FramesOnWire, RestInBuf
<1>4. ReadFromWire' /\ InStep' /\ NothingAfterEnd'
  BY <1>1 DEF ReadFromWire, InStep, NothingAfterEnd
<1> QED
  BY <1>2, <1>3, <1>4 DEF IInv

(* A complete header is the header of the next message (protocol.h:177-190). *)
LEMMA HeaderRead ==
  ASSUME IInv, status = "intact", pc = "header", Len(got) = HEADER_SIZE
  PROVE  /\ Len(delivered) < Len(sent)
         /\ LET m == sent[Len(delivered) + 1]
            IN  got[1] = m.type /\ ntohl(got, 1) = m.id /\ ntohl(got, 5) = payload_len(m)
<1> DEFINE j == Len(delivered) + 1
           m == sent[j]
<1>0. Shape /\ FramesOnWire /\ RestInBuf /\ ReadFromWire /\ InStep
  BY DEF IInv
<1>1. /\ j \in 1..Len(begins) /\ Boundary \in Nat /\ Len(wire) \in Nat
      /\ rd = Boundary + 9 /\ rd <= Len(wire)
  BY ReceiverPlace DEF HEADER_SIZE
<1>2. /\ sent \in Seq(Messages) /\ Len(sent) \in Nat /\ Len(begins) = Len(sent) + 1
      /\ Len(delivered) \in Nat /\ got \in Seq(Byte) /\ begins[Len(begins)] \in Nat
  BY <1>0 DEF Shape
<1>3. Len(delivered) < Len(sent)
  <2>1. begins[j] + 9 <= begins[Len(begins)] /\ begins[j] \in Nat
    BY <1>0, <1>1, <1>2 DEF RestInBuf, Boundary
  <2>2. j # Len(begins)
    BY <2>1
  <2> QED
    BY <2>2, <1>1, <1>2
<1>4. j \in 1..Len(sent) /\ m \in Messages
  BY <1>2, <1>3
<1>5. payload_len(m) \in Nat
  BY <1>4, PayloadLength
<1>6. \A i \in 1..HEADER_SIZE : got[i] = encode(m)[i]
  <2> TAKE i \in 1..HEADER_SIZE
  <2>1. got[i] = wire[Boundary + i]
    BY <1>0 DEF ReadFromWire
  <2>2. i \in 1..(HEADER_SIZE + payload_len(m)) /\ begins[j] + i <= Len(wire)
    BY <1>1, <1>5 DEF HEADER_SIZE, Boundary
  <2>3. wire[begins[j] + i] = encode(m)[i]
    BY <2>2, <1>0, <1>4 DEF FramesOnWire
  <2> QED
    BY <2>1, <2>3 DEF Boundary
<1>7. got[1] = m.type /\ ntohl(got, 1) = m.id /\ ntohl(got, 5) = payload_len(m)
  BY <1>2, <1>4, <1>6, HeaderParses
<1> QED
  BY <1>3, <1>7

(* The header is parsed (protocol.h:179-195). *)
LEMMA ParseHeaderInv == IInv /\ ParseHeader => IInv'
<1> SUFFICES ASSUME IInv, ParseHeader
             PROVE  IInv'
  OBVIOUS
<1>0. Shape /\ EndToEnd /\ FramesOnWire /\ RestInBuf /\ ReadFromWire /\ InStep
      /\ NothingAfterEnd
  BY DEF IInv
<1>1. /\ UNCHANGED <<buf, sent, begins, wire, over, rd, delivered, status>>
      /\ pc = "header" /\ pc' = "payload"
      /\ Len(got) = HEADER_SIZE /\ got' = << >>
      /\ out' = [type |-> got[1], id |-> ntohl(got, 1)]
      /\ len' = ntohl(got, 5) /\ ntohl(got, 5) <= MAX_PAYLOAD
  BY DEF ParseHeader, sender
<1>2. /\ got \in Seq(Byte) /\ Len(got) = 9
      /\ ntohl(got, 1) \in 0..(WordSize - 1) /\ ntohl(got, 5) \in 0..(WordSize - 1)
  <2>1. got \in Seq(Byte) /\ Len(got) = 9
    BY <1>0, <1>1 DEF Shape, HEADER_SIZE
  <2>2. 1 \in Nat /\ 5 \in Nat /\ 1 + 4 <= Len(got) /\ 5 + 4 <= Len(got)
    BY <2>1
  <2>3. ntohl(got, 1) \in 0..(WordSize - 1)
    BY <2>1, <2>2, WordRead
  <2>4. ntohl(got, 5) \in 0..(WordSize - 1)
    BY <2>1, <2>2, WordRead
  <2> QED
    BY <2>1, <2>3, <2>4
<1>3. got[1] \in Byte /\ len' \in 0..MAX_PAYLOAD
  <2>1. WordSize \in Int /\ MAX_PAYLOAD \in Int
    BY ProtocolAssumption DEF WordSize
  <2>2. got[1] \in Byte
    <3>1. 1 \in 1..Len(got) /\ got \in Seq(Byte)
      BY <1>2
    <3> QED
      BY <3>1, ElementOfSeq
  <2>3. len' \in 0..MAX_PAYLOAD
    BY <2>1, <1>1, <1>2
  <2> QED
    BY <2>2, <2>3
<1>4. Shape'
  <2>1. out' \in [type : Byte, id : 0..(WordSize - 1)]
    BY <1>1, <1>2, <1>3
  <2>2. got' \in Seq(Byte)
    BY <1>1
  <2> QED
    BY <2>1, <2>2, <1>0, <1>1, <1>3 DEF Shape
<1>5. EndToEnd' /\ FramesOnWire' /\ RestInBuf'
  BY <1>0, <1>1 DEF EndToEnd, FramesOnWire, RestInBuf
<1>6. Len(got') = 0 /\ Wanted' = len' /\ len' >= 0
  <2>1. MAX_PAYLOAD \in Int
    BY ProtocolAssumption
  <2> QED
    BY <2>1, <1>1, <1>3 DEF Wanted
<1>7. ReadFromWire'
  BY <1>1, <1>6 DEF ReadFromWire
<1>8. InStep'
  <2> SUFFICES ASSUME status = "intact"
               PROVE  InStep'
    BY <1>1 DEF InStep
  <2>1. /\ Len(delivered) < Len(sent)
        /\ LET m == sent[Len(delivered) + 1]
           IN  got[1] = m.type /\ ntohl(got, 1) = m.id /\ ntohl(got, 5) = payload_len(m)
    BY <1>1, HeaderRead
  <2>2. rd = Boundary + HEADER_SIZE + Len(got') /\ Boundary' = Boundary
    <3>1. rd = Boundary + 9 /\ Boundary \in Nat
      BY <1>1, ReceiverPlace DEF HEADER_SIZE
    <3> QED
      BY <3>1, <1>1, <1>6 DEF HEADER_SIZE, Boundary
  <2>3. Len(delivered) <= Len(sent)
    BY <1>0 DEF InStep
  <2> QED
    BY <2>1, <2>2, <2>3, <1>1 DEF InStep
<1>9. NothingAfterEnd'
  <2>1. status # "ended"
    BY <1>0, <1>2 DEF NothingAfterEnd
  <2> QED
    BY <2>1, <1>1 DEF NothingAfterEnd
<1> QED
  BY <1>4, <1>5, <1>7, <1>8, <1>9 DEF IInv

(* A payload that is too large (protocol.h:193-195). *)
LEMMA RejectHeaderInv == IInv /\ RejectHeader => IInv'
<1> SUFFICES ASSUME IInv, RejectHeader
             PROVE  IInv'
  OBVIOUS
<1>0. Shape /\ EndToEnd /\ FramesOnWire /\ RestInBuf
  BY DEF IInv
<1>1. /\ UNCHANGED <<buf, sent, begins, wire, over, rd, delivered>>
      /\ status' = "lost"
      /\ pc' = "idle" /\ got' = << >> /\ out' = NoMessage /\ len' = 0
  BY DEF RejectHeader, Return, sender
<1>2. Shape'
  BY <1>0, <1>1, ReturnTypes DEF Shape
<1>3. EndToEnd' /\ FramesOnWire' /\ RestInBuf'
  BY <1>0, <1>1 DEF EndToEnd, FramesOnWire, RestInBuf
<1>4. ReadFromWire' /\ InStep' /\ NothingAfterEnd'
  BY <1>1 DEF ReadFromWire, InStep, NothingAfterEnd
<1> QED
  BY <1>2, <1>3, <1>4 DEF IInv

(* A complete payload is that of the next message (protocol.h:198-202). *)
LEMMA PayloadRead ==
  ASSUME IInv, status = "intact", pc = "payload", Len(got) = len
  PROVE  LET j == Len(delivered) + 1
         IN  /\ j \in 1..Len(sent) /\ Fits(sent[j])
             /\ [type |-> out.type, id |-> out.id, payload |-> got] = Carried(sent[j])
             /\ rd = begins[j + 1]
<1> DEFINE j == Len(delivered) + 1
           m == sent[j]
<1>0. Shape /\ EndToEnd /\ FramesOnWire /\ ReadFromWire /\ InStep
  BY DEF IInv
<1>1. /\ Boundary \in Nat /\ Len(wire) \in Nat /\ Len(got) \in Nat
      /\ rd = Boundary + 9 + Len(got) /\ rd <= Len(wire)
  BY ReceiverPlace DEF HEADER_SIZE
<1>2. /\ sent \in Seq(Messages) /\ Len(sent) \in Nat
      /\ Len(delivered) \in Nat /\ got \in Seq(Byte) /\ len \in 0..MAX_PAYLOAD
  BY <1>0 DEF Shape
<1>3. Len(delivered) < Len(sent) /\ out.type = m.type /\ out.id = m.id /\ len = payload_len(m)
  BY <1>0 DEF InStep
<1>4. j \in 1..Len(sent) /\ m \in Messages
  BY <1>2, <1>3
<1>5. m \in AnyMessage /\ payload_len(m) \in Nat /\ payload_len(m) <= Len(m.payload)
  BY <1>4, PayloadLength
<1>6. Fits(m)
  <2>1. MAX_PAYLOAD \in Int
    BY ProtocolAssumption
  <2> QED
    BY <2>1, <1>2, <1>3 DEF Fits
<1>7. \A i \in 1..Len(got) : got[i] = m.payload[i]
  <2> TAKE i \in 1..Len(got)
  <2>1. got[i] = wire[Boundary + HEADER_SIZE + i]
    BY <1>0 DEF ReadFromWire
  <2>2. /\ HEADER_SIZE + i \in 1..(HEADER_SIZE + payload_len(m))
        /\ begins[j] + (HEADER_SIZE + i) <= Len(wire)
        /\ begins[j] + (HEADER_SIZE + i) = Boundary + HEADER_SIZE + i
        /\ HEADER_SIZE + i = i + HEADER_SIZE
    <3>1. PICK b \in Nat, P \in Nat, L \in Nat :
            /\ b = begins[j] /\ b = Boundary /\ P = payload_len(m) /\ L = Len(wire)
      BY <1>1, <1>5 DEF Boundary
    <3>2. i \in 1..P /\ b + 9 + P <= L
      BY <3>1, <1>1, <1>3
    <3>3. /\ 9 + i \in 1..(9 + P) /\ b + (9 + i) <= L
          /\ b + (9 + i) = b + 9 + i /\ 9 + i = i + 9
      BY <3>2
    <3> QED
      BY <3>1, <3>3 DEF HEADER_SIZE
  <2>3. wire[begins[j] + (HEADER_SIZE + i)] = encode(m)[HEADER_SIZE + i]
    BY <2>2, <1>0, <1>4 DEF FramesOnWire
  <2>4. encode(m)[i + HEADER_SIZE] = m.payload[i]
    BY <1>3, <1>4, EncodeFrame
  <2> QED
    BY <2>1, <2>2, <2>3, <2>4
<1>8. got = SubSeq(m.payload, 1, payload_len(m))
  <2>1. m.payload \in Seq(Byte)
    BY <1>5 DEF AnyMessage
  <2>2. PICK part \in Seq(Byte) :
          /\ part = SubSeq(m.payload, 1, payload_len(m)) /\ Len(part) = payload_len(m)
          /\ \A i \in 1..payload_len(m) : part[i] = m.payload[i]
    BY <2>1, <1>5, Prefix
  <2>3. \A i \in 1..Len(got) : got[i] = part[i]
    BY <2>2, <1>3, <1>7
  <2>4. Len(got) = Len(part)
    BY <2>2, <1>3
  <2>5. got = part
    BY <2>3, <2>4, <1>2
  <2> QED
    BY <2>5, <2>2
<1>9. [type |-> out.type, id |-> out.id, payload |-> got] = Carried(m)
  <2>1. Carried(m) = [type |-> m.type, id |-> m.id, payload |-> SubSeq(m.payload, 1, payload_len(m))]
    <3>1. ASSUME NEW A, NEW B, NEW C, NEW x \in [type : A, id : B, payload : C], NEW q
          PROVE  [x EXCEPT !.payload = q] = [type |-> x.type, id |-> x.id, payload |-> q]
      OBVIOUS
    <3>2. Carried(m) = [m EXCEPT !.payload = SubSeq(m.payload, 1, payload_len(m))]
      BY <1>5 DEF Carried, AnyMessage
    <3> QED
      BY <3>1, <3>2, <1>5 DEF AnyMessage
  <2> QED
    BY <2>1, <1>3, <1>8
<1>10. rd = begins[j + 1]
  <2>1. begins[j + 1] = begins[j] + HEADER_SIZE + payload_len(m)
    BY <1>0, <1>4 DEF EndToEnd
  <2> QED
    BY <2>1, <1>1, <1>3 DEF Boundary, HEADER_SIZE
<1> QED
  BY <1>4, <1>6, <1>9, <1>10

(* recv_message returns a message (protocol.h:198-202). *)
LEMMA DeliverInv == IInv /\ Deliver => IInv'
<1> SUFFICES ASSUME IInv, Deliver
             PROVE  IInv'
  OBVIOUS
<1>0. Shape /\ EndToEnd /\ FramesOnWire /\ RestInBuf /\ NothingAfterEnd
  BY DEF IInv
<1> DEFINE r == [type |-> out.type, id |-> out.id, payload |-> got]
<1>1. /\ UNCHANGED <<buf, sent, begins, wire, over, rd, status>>
      /\ pc = "payload" /\ Len(got) = len
      /\ pc' = "idle" /\ got' = << >> /\ out' = NoMessage /\ len' = 0
      /\ delivered' = Append(delivered, r)
  BY DEF Deliver, Return, sender
<1>2. r \in AnyMessage
  BY <1>0 DEF Shape, AnyMessage
<1> HIDE DEF r
<1>3. /\ delivered' \in Seq(AnyMessage) /\ Len(delivered') = Len(delivered) + 1
      /\ Len(delivered) \in Nat
  BY <1>0, <1>1, <1>2 DEF Shape
<1>4. Shape'
  BY <1>0, <1>1, <1>3, ReturnTypes DEF Shape
<1>5. EndToEnd' /\ FramesOnWire' /\ RestInBuf'
  BY <1>0, <1>1 DEF EndToEnd, FramesOnWire, RestInBuf
<1>6. ReadFromWire'
  BY <1>1 DEF ReadFromWire
<1>7. InStep'
  <2> SUFFICES ASSUME status = "intact"
               PROVE  InStep'
    BY <1>1 DEF InStep
  <2>1. Len(delivered) + 1 \in 1..Len(sent) /\ rd = begins[(Len(delivered) + 1) + 1]
    BY <1>1, PayloadRead
  <2>2. Len(sent) \in Nat /\ Len(begins) = Len(sent) + 1 /\ begins \in Seq(Nat)
    BY <1>0 DEF Shape
  <2>3. Boundary' = begins[(Len(delivered) + 1) + 1] /\ Len(got') = 0
    BY <1>1, <1>3 DEF Boundary
  <2>4. begins[(Len(delivered) + 1) + 1] \in Nat
    BY <2>1, <2>2
  <2>5. rd = Boundary' + Len(got') /\ Len(delivered') <= Len(sent)
    BY <2>1, <2>2, <2>3, <2>4, <1>3
  <2> QED
    BY <2>5, <1>1 DEF InStep
<1>8. NothingAfterEnd'
  BY <1>0, <1>1 DEF NothingAfterEnd
<1> QED
  BY <1>4, <1>5, <1>6, <1>7, <1>8 DEF IInv

-----------------------------------------------------------------------------
(***************************************************************************)
(* The theorems                                                            *)
(***************************************************************************)
LEMMA InitIInv == Init => IInv
<1> SUFFICES ASSUME Init
             PROVE  IInv
  OBVIOUS
<1>1. Shape
  <2>1. /\ << >> \in Seq(Byte) /\ << >> \in Seq(Messages) /\ << >> \in Seq(AnyMessage)
        /\ <<0>> \in Seq(Nat) /\ Len(<<0>>) = 1 /\ Len(<< >>) = 0
    OBVIOUS
  <2>2. rd \in Nat /\ rd <= Len(wire) /\ Len(begins) = Len(sent) + 1
    BY <2>1 DEF Init
  <2> QED
    BY <2>1, <2>2, ReturnTypes DEF Init, Shape
<1>2. EndToEnd /\ FramesOnWire /\ RestInBuf /\ ReadFromWire /\ InStep /\ NothingAfterEnd
  BY DEF Init, EndToEnd, FramesOnWire, RestInBuf, ReadFromWire, InStep, NothingAfterEnd,
         Boundary
<1> QED
  BY <1>1, <1>2 DEF IInv

(* A step that changes nothing keeps the invariant. *)
LEMMA StutterIInv == IInv /\ UNCHANGED vars => IInv'
<1> SUFFICES ASSUME IInv, UNCHANGED vars
             PROVE  IInv'
  OBVIOUS
<1>1. UNCHANGED <<buf, sent, begins, wire, over, rd, pc, got, out, len, delivered, status>>
  BY DEF vars, sender, receiver
<1>2. Boundary' = Boundary /\ Wanted' = Wanted
  BY <1>1 DEF Boundary, Wanted
<1>3. Shape' /\ EndToEnd' /\ FramesOnWire' /\ RestInBuf'
  BY <1>1 DEF IInv, Shape, EndToEnd, FramesOnWire, RestInBuf
<1>4. ReadFromWire' /\ InStep' /\ NothingAfterEnd'
  BY <1>1, <1>2 DEF IInv, ReadFromWire, InStep, NothingAfterEnd
<1> QED
  BY <1>3, <1>4 DEF IInv

(* Every step of the two threads and of the network keeps the invariant. *)
LEMMA NextIInv == IInv /\ [Next]_vars => IInv'
BY SendMessageInv, SendChunkInv, SendFailsInv, ConnectionEndsInv, RecvMessageInv,
   RecvChunkInv, RecvFailsInv, ParseHeaderInv, RejectHeaderInv, DeliverInv, StutterIInv
   DEF Next, RecvStep

(* The invariant holds in every state of every behaviour. *)
LEMMA Invariance == Spec => []IInv
BY InitIInv, NextIInv, PTL DEF Spec

(* Whatever the chunks, recv_all never writes beyond the header array or   *)
(* the resized payload, and every byte and word is in range                *)
(* (protocol.h:126-131, 176, 198).                                         *)
THEOREM BuffersNeverOverrun == Spec => []TypeOK
<1>1. IInv => TypeOK
  <2> SUFFICES ASSUME IInv
               PROVE  TypeOK
    OBVIOUS
  <2>1. Shape /\ (pc # "idle" => Len(got) <= Wanted)
    BY DEF IInv, ReadFromWire
  <2>2. rd \in 0..Len(wire)
    BY <2>1 DEF Shape
  <2>3. /\ \A n \in DOMAIN sent : sent[n] \in Messages
        /\ \A n \in DOMAIN delivered : delivered[n] \in AnyMessage
    BY <2>1 DEF Shape
  <2> QED
    BY <2>1, <2>2, <2>3 DEF Shape, TypeOK
<1> QED
  BY <1>1, Invariance, PTL

(* Until recv_message first returns false the receiver is at the frame of  *)
(* the next message, however the stream was cut (protocol.h:157-203).      *)
THEOREM StaysInStep == Spec => []InStep
<1>1. IInv => InStep
  BY DEF IInv
<1> QED
  BY <1>1, Invariance, PTL

(* Framing over a stream of bytes implements the channel of messages       *)
(* (protocol.h:13-31): in order, each once, unaltered, no message made of  *)
(* the bytes of two.                                                       *)
THEOREM FramingImplementsChannel == Spec => ImplementsChannel
<1>1. Init => Channel!Init
  BY DEF Init, Channel!Init
<1>2. ASSUME IInv, [Next]_vars
      PROVE  [Channel!Next]_(Channel!vars)
  <2>1. CASE send_message
    <3>1. Channel!Send
      BY <2>1 DEF send_message, receiver, Channel!Send
    <3> QED
      BY <3>1 DEF Channel!Next
  <2>2. CASE SendChunk \/ SendFails \/ ConnectionEnds \/ recv_message \/ RecvChunk
             \/ ParseHeader \/ UNCHANGED vars
    BY <2>2 DEF SendChunk, SendFails, ConnectionEnds, recv_message, RecvChunk,
                ParseHeader, sender, receiver, vars, Channel!vars
  <2>3. CASE RecvFails
    <3>1. Channel!End
      BY <2>3 DEF RecvFails, sender, Channel!End
    <3> QED
      BY <3>1 DEF Channel!Next
  <2>4. CASE RejectHeader
    <3>1. /\ pc = "header" /\ Len(got) = HEADER_SIZE /\ ntohl(got, 5) > MAX_PAYLOAD
          /\ status' = "lost" /\ UNCHANGED <<sent, delivered>>
      BY <2>4 DEF RejectHeader, sender
    <3>2. CASE status = "intact"
      <4>1. /\ Len(delivered) < Len(sent)
            /\ ntohl(got, 5) = payload_len(sent[Len(delivered) + 1])
        BY <1>2, <3>1, <3>2, HeaderRead
      <4>2. ~Fits(sent[Len(delivered) + 1])
        <5>1. MAX_PAYLOAD \in Int /\ payload_len(sent[Len(delivered) + 1]) \in Int
          <6>1. sent \in Seq(Messages) /\ Len(delivered) \in Nat /\ Len(sent) \in Nat
            BY <1>2 DEF IInv, Shape
          <6>2. sent[Len(delivered) + 1] \in Messages
            BY <6>1, <4>1
          <6> QED
            BY <6>2, PayloadLength, ProtocolAssumption
        <5> QED
          BY <5>1, <4>1, <3>1 DEF Fits
      <4>3. Channel!Refuse
        BY <4>1, <4>2, <3>1, <3>2 DEF Channel!Refuse, Channel!Current
      <4> QED
        BY <4>3 DEF Channel!Next
    <3>3. CASE status = "lost"
      BY <3>1, <3>3 DEF Channel!vars
    <3>4. status # "ended"
      <4>1. got # << >>
        BY <3>1 DEF HEADER_SIZE
      <4> QED
        BY <4>1, <1>2 DEF IInv, NothingAfterEnd
    <3> QED
      BY <3>2, <3>3, <3>4, <1>2 DEF IInv, Shape
  <2>5. CASE Deliver
    <3> DEFINE r == [type |-> out.type, id |-> out.id, payload |-> got]
    <3>1. /\ pc = "payload" /\ Len(got) = len
          /\ delivered' = Append(delivered, r) /\ UNCHANGED <<sent, status>>
      BY <2>5 DEF Deliver, sender
    <3>2. CASE status = "intact"
      <4>1. /\ Len(delivered) + 1 \in 1..Len(sent) /\ Fits(sent[Len(delivered) + 1])
            /\ r = Carried(sent[Len(delivered) + 1])
        BY <1>2, <3>1, <3>2, PayloadRead
      <4>2. Len(delivered) \in Nat /\ Len(sent) \in Nat
        BY <1>2 DEF IInv, Shape
      <4>3. Len(delivered) < Len(sent)
        BY <4>1, <4>2
      <4> HIDE DEF r
      <4>4. Channel!Deliver
        BY <4>1, <4>3, <3>1, <3>2 DEF Channel!Deliver, Channel!Current
      <4> QED
        BY <4>4 DEF Channel!Next
    <3>3. CASE status = "lost"
      <4>1. delivered \in Seq(AnyMessage)
        BY <1>2 DEF IInv, Shape
      <4> HIDE DEF r
      <4>2. Len(delivered') = Len(delivered) + 1 /\ delivered'[Len(delivered')] = r
        BY <4>1, <3>1
      <4>3. Channel!Noise
        BY <4>2, <3>1, <3>3 DEF Channel!Noise
      <4> QED
        BY <4>3 DEF Channel!Next
    <3>4. status # "ended"
      BY <3>1, <1>2 DEF IInv, NothingAfterEnd
    <3> QED
      BY <3>2, <3>3, <3>4, <1>2 DEF IInv, Shape
  <2> QED
    BY <2>1, <2>2, <2>3, <2>4, <2>5, <1>2 DEF Next, RecvStep
<1> QED
  BY <1>1, <1>2, Invariance, PTL DEF Spec, ImplementsChannel, Channel!Spec
=============================================================================
