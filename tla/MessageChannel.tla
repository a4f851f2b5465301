--------------------------- MODULE MessageChannel ---------------------------
(***************************************************************************)
(* What the framing of include/protocol.h promises the caller of           *)
(* send_message at one end of a TCP connection and the caller of           *)
(* recv_message at the other: messages arrive in the order they were sent, *)
(* each one exactly once, as far as the connection lives and as long as    *)
(* none of them is too large for the receiver.                             *)
(***************************************************************************)
EXTENDS Integers, Sequences

CONSTANTS
  Messages,      \* what callers pass to send_message
  Carried(_),    \* what is put on the wire for a message
  Fits(_)        \* whether the receiver accepts it

VARIABLES
  sent,        \* the messages passed to send_message
  delivered,   \* the messages that recv_message has returned
  status       \* what the receiver has been told: see below

vars == <<sent, delivered, status>>

Init == sent = << >> /\ delivered = << >> /\ status = "intact"

Send ==
  /\ \E m \in Messages : sent' = Append(sent, m)
  /\ UNCHANGED <<delivered, status>>

Current == sent[Len(delivered) + 1]

Deliver ==
  /\ status = "intact"
  /\ Len(delivered) < Len(sent) /\ Fits(Current)
  /\ delivered' = Append(delivered, Carried(Current))
  /\ UNCHANGED <<sent, status>>

(* recv_message returns false on a message that is too large; where the    *)
(* next one begins is lost from now on.                                    *)
Refuse ==
  /\ status = "intact"
  /\ Len(delivered) < Len(sent) /\ ~Fits(Current)
  /\ status' = "lost"
  /\ UNCHANGED <<sent, delivered>>

(* A caller that goes on after that gets anything. *)
Noise ==
  /\ status = "lost"
  /\ Len(delivered') = Len(delivered) + 1
  /\ delivered' = Append(delivered, delivered'[Len(delivered')])
  /\ UNCHANGED <<sent, status>>

(* recv_message returns false because the connection has ended; nothing is *)
(* ever delivered after that.                                              *)
End == status' = "ended" /\ UNCHANGED <<sent, delivered>>

Next == Send \/ Deliver \/ Refuse \/ Noise \/ End

Spec == Init /\ [][Next]_vars
=============================================================================
