------------------------------ MODULE Protocol ------------------------------
(***************************************************************************)
(* The wire protocol of include/protocol.h: one direction of a connection, *)
(* a thread that calls send_message and one that calls recv_message, and   *)
(* the stream of bytes between them.                                       *)
(*                                                                         *)
(* TCP moves any number of bytes at a time, so every ::send and every      *)
(* ::recv transfers some non-empty part of what was asked for.  wire is    *)
(* every byte ever accepted by ::send, rd how many of them ::recv has      *)
(* returned.  The connection may end at any moment, at either end and in   *)
(* the middle of a frame, and take bytes with it that were on their way.   *)
(*                                                                         *)
(* A byte has Base values, a word four bytes; the header is the nine bytes *)
(* of the code.                                                            *)
(***************************************************************************)
EXTENDS Integers, Sequences

CONSTANTS
  Base,          \* 256
  Messages,      \* what callers pass to send_message
  MAX_PAYLOAD,   \* 64 MB
  MaxSends       \* bound: calls of send_message

Byte == 0..(Base - 1)
WordSize == Base * Base * Base * Base   \* 2^32
AnyMessage == [type : Byte, id : 0..(WordSize - 1), payload : Seq(Byte)]
HEADER_SIZE == 9

ASSUME ProtocolAssumption ==
  /\ Base \in Nat \ {0, 1}
  /\ MAX_PAYLOAD \in Nat /\ MaxSends \in Nat
  /\ \A m \in Messages : m \in AnyMessage

-----------------------------------------------------------------------------
(***************************************************************************)
(* Big-endian words, and encode                                            *)
(***************************************************************************)
htonl(n) ==
  LET q == n \div Base
      r == q \div Base
  IN  <<r \div Base, r % Base, q % Base, n % Base>>

(* The word at the bytes i + 1 .. i + 4 of s. *)
ntohl(s, i) ==
  ((s[i + 1] * Base + s[i + 2]) * Base + s[i + 3]) * Base + s[i + 4]

(* static_cast<uint32_t>(msg.payload.size()): a payload of 4 GB or more is *)
(* cut, and so is the buffer.                                              *)
payload_len(m) == Len(m.payload) % WordSize

encode(m) ==
  [i \in 1..(HEADER_SIZE + payload_len(m)) |->
     CASE i = 1            -> m.type
       [] i \in 2..5       -> htonl(m.id)[i - 1]
       [] i \in 6..9       -> htonl(payload_len(m))[i - 5]
       [] i > HEADER_SIZE  -> m.payload[i - HEADER_SIZE]]

-----------------------------------------------------------------------------
VARIABLES
  buf,         \* what send_all has still to send
  wire, over,  \* the bytes accepted by ::send; whether the connection has ended
  rd,          \* number of bytes returned by ::recv
  pc,          \* where recv_message is
  got,         \* what the current recv_all has received
  out,         \* the message that recv_message is filling in
  len,         \* payload_len of recv_message
  sent,        \* history: the messages passed to send_message
  begins,      \* history: where on the wire the frame of each of them begins
  delivered,   \* history: the messages recv_message has returned
  status       \* history: what a false of recv_message meant, as in MessageChannel

sender == <<buf, sent, begins>>
receiver == <<rd, pc, got, out, len, delivered, status>>
vars == <<sender, wire, over, receiver>>

NoMessage == [type |-> 0, id |-> 0]

Init ==
  /\ buf = << >> /\ wire = << >> /\ over = FALSE
  /\ rd = 0 /\ pc = "idle" /\ got = << >> /\ out = NoMessage /\ len = 0
  /\ sent = << >> /\ begins = <<0>> /\ delivered = << >> /\ status = "intact"

-----------------------------------------------------------------------------
(* send_message: encode, then send_all *)
send_message ==
  /\ buf = << >> /\ Len(sent) < MaxSends
  /\ \E m \in Messages :
       /\ buf' = encode(m)
       /\ sent' = Append(sent, m)
       /\ begins' = Append(begins, begins[Len(begins)] + Len(encode(m)))
  /\ UNCHANGED <<wire, over, receiver>>

(* Mutant: ::send is called once and not in a loop. *)
MutantSendChunk ==
  /\ ~over
  /\ \E n \in 1..Len(buf) : wire' = wire \o SubSeq(buf, 1, n)
  /\ buf' = << >>
  /\ UNCHANGED <<sent, begins, over, receiver>>

(* One round of send_all. *)
SendChunk ==
  /\ ~over
  /\ \E n \in 1..Len(buf) :
       /\ wire' = wire \o SubSeq(buf, 1, n)
       /\ buf' = SubSeq(buf, n + 1, Len(buf))
  /\ UNCHANGED <<sent, begins, over, receiver>>

(* ::send returns an error and send_message false. *)
SendFails ==
  /\ over /\ buf # << >>
  /\ buf' = << >>
  /\ UNCHANGED <<sent, begins, wire, over, receiver>>

(* Either end closes, or the connection breaks. *)
ConnectionEnds ==
  /\ ~over /\ over' = TRUE
  /\ \E k \in rd..Len(wire) : wire' = SubSeq(wire, 1, k)
  /\ UNCHANGED <<sender, receiver>>

-----------------------------------------------------------------------------
recv_message ==
  /\ pc = "idle" /\ pc' = "header"
  /\ UNCHANGED <<sender, wire, over, rd, got, out, len, delivered, status>>

(* What recv_all was asked for. *)
Wanted == IF pc = "header" THEN HEADER_SIZE ELSE len

(* Mutant: every ::recv asks for a whole buffer. *)
MutantRecvChunk ==
  /\ pc # "idle" /\ Len(got) < Wanted
  /\ \E n \in 1..Wanted :
       /\ n <= Len(wire) - rd
       /\ got' = got \o SubSeq(wire, rd + 1, rd + n)
       /\ rd' = rd + n
  /\ UNCHANGED <<sender, wire, over, pc, out, len, delivered, status>>

(* One round of recv_all. *)
RecvChunk ==
  /\ pc # "idle"
  /\ \E n \in 1..(Wanted - Len(got)) :
       /\ n <= Len(wire) - rd
       /\ got' = got \o SubSeq(wire, rd + 1, rd + n)
       /\ rd' = rd + n
  /\ UNCHANGED <<sender, wire, over, pc, out, len, delivered, status>>

(* recv_message returns; its locals die. *)
Return ==
  pc' = "idle" /\ got' = << >> /\ out' = NoMessage /\ len' = 0

(* Mutant: a connection that ends is taken for the end of the message. *)
MutantRecvFails ==
  /\ pc = "payload" /\ Len(got) < Wanted
  /\ over /\ rd = Len(wire)
  /\ Return
  /\ delivered' = Append(delivered, [type |-> out.type, id |-> out.id, payload |-> got])
  /\ UNCHANGED <<sender, wire, over, rd, status>>

(* ::recv returns 0 or an error inside recv_all: return false *)
RecvFails ==
  /\ pc # "idle" /\ Len(got) < Wanted
  /\ over /\ rd = Len(wire)
  /\ Return
  /\ status' = "ended"
  /\ UNCHANGED <<sender, wire, over, rd, delivered>>

ParseHeader ==
  /\ pc = "header" /\ Len(got) = HEADER_SIZE
  /\ ntohl(got, 5) <= MAX_PAYLOAD
  /\ pc' = "payload" /\ got' = << >>
  /\ out' = [type |-> got[1], id |-> ntohl(got, 1)]
  /\ len' = ntohl(got, 5)
  /\ UNCHANGED <<sender, wire, over, rd, delivered, status>>

(* payload_len > MAX_PAYLOAD: return false, and the payload stays on the   *)
(* wire                                                                    *)
RejectHeader ==
  /\ pc = "header" /\ Len(got) = HEADER_SIZE
  /\ ntohl(got, 5) > MAX_PAYLOAD
  /\ Return
  /\ status' = "lost"
  /\ UNCHANGED <<sender, wire, over, rd, delivered>>

Deliver ==
  /\ pc = "payload" /\ Len(got) = len
  /\ Return
  /\ delivered' = Append(delivered, [type |-> out.type, id |-> out.id, payload |-> got])
  /\ UNCHANGED <<sender, wire, over, rd, status>>

RecvStep == RecvChunk \/ RecvFails \/ ParseHeader \/ RejectHeader \/ Deliver

Next ==
  \/ send_message \/ SendChunk \/ SendFails \/ ConnectionEnds
  \/ recv_message \/ RecvStep

Spec == Init /\ [][Next]_vars

(* Threads inside a call go on, the network moves bytes, and the receiver  *)
(* keeps calling, as TaskServer::handle_connection does.                   *)
FairSpec ==
  Spec /\ WF_vars(SendChunk \/ SendFails) /\ WF_vars(recv_message \/ RecvStep)

-----------------------------------------------------------------------------
(***************************************************************************)
(* Correctness                                                             *)
(***************************************************************************)

(* The shape of the state; in particular recv_all never writes beyond the  *)
(* header array and the resized payload (protocol.h:176, 198), and what is *)
(* on the wire are bytes.                                                  *)
TypeOK ==
  /\ buf \in Seq(Byte) /\ wire \in Seq(Byte) /\ over \in BOOLEAN
  /\ rd \in 0..Len(wire) /\ pc \in {"idle", "header", "payload"}
  /\ got \in Seq(Byte) /\ len \in 0..MAX_PAYLOAD
  /\ out \in [type : Byte, id : 0..(WordSize - 1)]
  /\ pc # "idle" => Len(got) <= Wanted
  /\ \A n \in DOMAIN sent : sent[n] \in Messages
  /\ begins \in Seq(Nat) /\ Len(begins) = Len(sent) + 1
  /\ \A n \in DOMAIN delivered : delivered[n] \in AnyMessage
  /\ status \in {"intact", "lost", "ended"}

(* Where the frame that the receiver is waiting for begins. *)
Boundary == begins[Len(delivered) + 1]

(* The receiver stays in step with the sender (protocol.h:157-203), however *)
(* the stream was cut into chunks: until recv_message first returns false,  *)
(* it is where the frame of the next message begins, plus what it has read  *)
(* of that frame, and what it has parsed is that frame's header.            *)
InStep ==
  status = "intact" =>
    /\ Len(delivered) <= Len(sent)
    /\ pc \in {"idle", "header"} => rd = Boundary + Len(got)
    /\ pc = "payload" =>
         /\ Len(delivered) < Len(sent)
         /\ rd = Boundary + HEADER_SIZE + Len(got)
         /\ LET m == sent[Len(delivered) + 1]
            IN  out.type = m.type /\ out.id = m.id /\ len = payload_len(m)

Carried(m) == [m EXCEPT !.payload = SubSeq(@, 1, payload_len(m))]
Fits(m) == payload_len(m) <= MAX_PAYLOAD
Channel == INSTANCE MessageChannel

(* The framing implements a channel of messages (protocol.h:13-31): in     *)
(* order, each once, unaltered up to the 32-bit length of the payload,     *)
(* whatever the chunks and wherever the connection ends; a false leaves    *)
(* the receiver with nothing more, or, after an oversized frame, out of    *)
(* step.                                                                   *)
ImplementsChannel == Channel!Spec

(* A message is delivered in the end (protocol.h:142-144, "these loop      *)
(* until complete"), unless recv_message has returned false.               *)
EveryMessageArrives ==
  \A n \in 1..MaxSends :
    Len(sent) >= n ~> Len(delivered) >= n \/ status # "intact"
=============================================================================
