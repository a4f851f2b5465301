----------------------------- MODULE TaskClient -----------------------------
(***************************************************************************)
(* TaskClient (include/task_client.h): objects that one thread each uses,  *)
(* as nothing but next_id_ is protected against two.                       *)
(*                                                                         *)
(* fd_ is a connection or Unconnected, which is -1 or a socket whose       *)
(* ::connect has failed: calls on either fail alike.  Exceptions leave the *)
(* members as they are, so a client may go on calling after a failure;     *)
(* connect() does not look at fd_ either, and what it held before stays    *)
(* open for ever.                                                          *)
(***************************************************************************)
EXTENDS Connections

CONSTANTS
  Clients,
  MaxCalls    \* bound: MaxCalls[k] calls of submit and ping of client k

Unconnected == 0

VARIABLES
  fd_, next_id_, connected_,   \* of each client
  call,      \* call[k]: the message of the call that k is in
  kpc,       \* kpc[k]: where k is
  leaked     \* history: connections whose descriptor has been overwritten

client == <<fd_, next_id_, connected_, call, kpc, leaked>>

NoCall == [type |-> "NONE", id |-> 0, big |-> FALSE]

ClientInit ==
  /\ fd_ = [k \in Clients |-> Unconnected] /\ next_id_ = [k \in Clients |-> 1]
  /\ connected_ = [k \in Clients |-> FALSE]
  /\ call = [k \in Clients |-> NoCall] /\ kpc = [k \in Clients |-> "idle"]
  /\ leaked = {}

-----------------------------------------------------------------------------
(* fd_ = ::socket(...) *)
Overwrites(k, fd) ==
  /\ kpc[k] = "idle"
  /\ fd_' = [fd_ EXCEPT ![k] = fd]
  /\ leaked' = leaked \cup ({fd_[k]} \cap Conns)
  /\ UNCHANGED <<next_id_, call, kpc>>

connect(k) ==
  /\ listening # NoFd /\ made < MaxConns
  /\ Overwrites(k, made + 1)
  /\ made' = made + 1 /\ backlog' = Append(backlog, made + 1)
  /\ connected_' = [connected_ EXCEPT ![k] = TRUE]
  /\ UNCHANGED <<listening, toServer, toClient, clientClosed, serverClosed, broken, lost>>

(* ::socket or ::connect fails, be the server there or not, and the        *)
(* exception leaves connected_ as it was.                                  *)
ConnectThrows(k) ==
  /\ Overwrites(k, Unconnected)
  /\ UNCHANGED <<net, connected_>>

disconnect(k) ==
  /\ kpc[k] = "idle" /\ (connected_[k] \/ fd_[k] # Unconnected)
  /\ clientClosed' = clientClosed \cup ({fd_[k]} \cap Conns) /\ lost' = lost \ {fd_[k]}
  /\ broken' = broken \ {fd_[k]}
  /\ toClient' = [c \in Conns |-> IF c = fd_[k] THEN << >> ELSE toClient[c]]
  /\ fd_' = [fd_ EXCEPT ![k] = Unconnected]
  /\ connected_' = [connected_ EXCEPT ![k] = FALSE]
  /\ UNCHANGED <<listening, backlog, made, toServer, serverClosed, next_id_, call, kpc,
                 leaked>>

-----------------------------------------------------------------------------
(***************************************************************************)
(* submit(payload) and ping(), which differ in the type only               *)
(***************************************************************************)
Call(k, type, big) ==
  /\ kpc[k] = "idle" /\ connected_[k] /\ next_id_[k] <= MaxCalls[k]
  /\ call' = [call EXCEPT ![k] = [type |-> type, id |-> next_id_[k], big |-> big]]
  /\ next_id_' = [next_id_ EXCEPT ![k] = @ + 1]
  /\ kpc' = [kpc EXCEPT ![k] = "send"]
  /\ UNCHANGED <<net, fd_, connected_, leaked>>

submit(k) == \E big \in BOOLEAN : Call(k, "REQUEST", big)
ping(k) == Call(k, "PING", FALSE)

InCall(k, from, to) ==
  /\ kpc[k] = from /\ kpc' = [kpc EXCEPT ![k] = to]
  /\ call' = IF to = "idle" THEN [call EXCEPT ![k] = NoCall] ELSE call
  /\ UNCHANGED <<listening, backlog, made, clientClosed, serverClosed, broken,
                 fd_, next_id_, connected_, leaked>>

(* Mutant: ping does not wait for the PONG. *)
MutantSend(k) ==
  /\ InCall(k, "send", IF call[k].type = "PING" THEN "idle" ELSE "recv")
  /\ fd_[k] # Unconnected
  /\ IF ServerGone(fd_[k]) THEN UNCHANGED toServer
     ELSE toServer' = [toServer EXCEPT ![fd_[k]] = Append(@, call[k])]
  /\ UNCHANGED <<toClient, lost>>

(* send_message: it arrives, or is lost without an error *)
Send(k) ==
  /\ InCall(k, "send", "recv")
  /\ fd_[k] # Unconnected
  /\ IF ServerGone(fd_[k]) THEN UNCHANGED toServer
     ELSE toServer' = [toServer EXCEPT ![fd_[k]] = Append(@, call[k])]
  /\ UNCHANGED <<toClient, lost>>

SendThrows(k) ==
  /\ InCall(k, "send", "idle")
  /\ fd_[k] = Unconnected \/ ServerGone(fd_[k])
  /\ UNCHANGED <<toServer, toClient, lost>>

(* recv_message returns true, and so does the call; nobody looks at the id *)
Answer(k) ==
  /\ InCall(k, "recv", "idle")
  /\ fd_[k] \notin lost
  /\ toClient[fd_[k]] # << >> /\ ~Head(toClient[fd_[k]]).big
  /\ toClient' = [toClient EXCEPT ![fd_[k]] = Tail(@)]
  /\ UNCHANGED <<toServer, lost>>

(* The response is larger than MAX_PAYLOAD: recv_message returns false and *)
(* leaves the payload to be read as the next header.                       *)
AnswerTooLarge(k) ==
  /\ InCall(k, "recv", "idle")
  /\ fd_[k] \notin lost
  /\ toClient[fd_[k]] # << >> /\ Head(toClient[fd_[k]]).big
  /\ lost' = lost \cup {fd_[k]}
  /\ UNCHANGED <<toServer, toClient>>

(* The connection has ended: throw *)
ReceiveThrows(k) ==
  /\ InCall(k, "recv", "idle")
  /\ toClient[fd_[k]] = << >> /\ ServerGone(fd_[k])
  /\ UNCHANGED <<toServer, toClient, lost>>

(* Out of step, recv_message returns anything, or nothing yet. *)
Noise(k) ==
  /\ InCall(k, "recv", "idle")
  /\ fd_[k] \in lost
  /\ UNCHANGED <<toServer, toClient, lost>>

CallStep(k) ==
  Send(k) \/ SendThrows(k) \/ Answer(k) \/ AnswerTooLarge(k) \/ ReceiveThrows(k)

ClientNext ==
  \E k \in Clients :
    \/ connect(k) \/ ConnectThrows(k) \/ disconnect(k)
    \/ submit(k) \/ ping(k) \/ CallStep(k) \/ Noise(k)
=============================================================================
