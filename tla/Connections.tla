---------------------------- MODULE Connections ----------------------------
(***************************************************************************)
(* The TCP connections between TaskClients and a TaskServer, as far as     *)
(* their calls of ::connect, ::accept, ::close, send_message and           *)
(* recv_message go.  A direction of a connection is a queue of messages:   *)
(* what the framing of include/protocol.h provides (module Protocol), up   *)
(* to the first time a receiver meets a message that is too large, which   *)
(* leaves it in the middle of the payload.                                 *)
(***************************************************************************)
EXTENDS Integers, Sequences, FiniteSets, Functions

CONSTANTS
  MaxConns,   \* bound: connections ever made
  MaxStarts   \* bound: calls of TaskServer::start

Conns == 1..MaxConns
NoFd == -1

VARIABLES
  listening,    \* the descriptor of the open listening socket, or NoFd
  backlog,      \* connections made and not accepted
  made,         \* number of connections made
  toServer, toClient,           \* messages on their way on each connection
  clientClosed, serverClosed,   \* connections closed by either end
  broken,       \* connections that the network has dropped and nobody has closed
  lost          \* connections whose client is inside an oversized payload

net == <<listening, backlog, made, toServer, toClient, clientClosed, serverClosed,
         broken, lost>>

NetInit ==
  /\ listening = NoFd /\ backlog = << >> /\ made = 0
  /\ toServer = [c \in Conns |-> << >>] /\ toClient = [c \in Conns |-> << >>]
  /\ clientClosed = {} /\ serverClosed = {} /\ broken = {} /\ lost = {}

(* Whether ::send to, and the end of ::recv from, the other end can fail. *)
ServerGone(c) == c \in serverClosed \cup broken
ClientGone(c) == c \in clientClosed \cup broken

(* The network gives up on a connection that both ends have open; what was *)
(* on its way is lost.                                                     *)
Break(c) ==
  /\ c \in (1..made) \ (broken \cup clientClosed \cup serverClosed)
  /\ broken' = broken \cup {c}
  /\ toServer' = [toServer EXCEPT ![c] = << >>]
  /\ toClient' = [toClient EXCEPT ![c] = << >>]
  /\ UNCHANGED <<listening, backlog, made, clientClosed, serverClosed, lost>>
=============================================================================
