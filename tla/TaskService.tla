---------------------------- MODULE TaskService ----------------------------
(***************************************************************************)
(* A TaskServer, its TaskClients and the connections between them.         *)
(***************************************************************************)
EXTENDS TaskServer, TaskClient

ASSUME TaskServiceAssumption ==
  /\ MaxConns \in Nat /\ MaxStarts \in Nat
  /\ MaxCalls \in [Clients -> Nat]
  /\ Capacity \in Nat \ {0} /\ EmptyFn \notin Conns
  /\ IsFiniteSet(Workers) /\ IsFiniteSet(Clients)

vars == <<net, server, client>>

Init == NetInit /\ ServerInit /\ ClientInit

(* Somebody is in a call on connection c, or serves it.  A connection that *)
(* breaks at another time shows it at the next call, as if it broke then.  *)
InUse(c) ==
  \/ \E k \in Clients : fd_[k] = c /\ kpc[k] # "idle"
  \/ \E w \in Workers : wfd[w] = c

Next ==
  /\ ~terminated
  /\ \/ ServerNext /\ UNCHANGED client
     \/ ClientNext /\ UNCHANGED server
     \/ (\E c \in Conns : InUse(c) /\ Break(c)) /\ UNCHANGED <<server, client>>

Spec == Init /\ [][Next]_vars

(* Threads inside the server or inside a call go on, and whoever owns a    *)
(* TaskClient disconnects or destroys it when it has no more calls to      *)
(* make.  Nobody has to stop the server.                                   *)
FairSpec ==
  /\ Spec
  /\ WF_vars(~terminated /\ StopStep /\ UNCHANGED client)
  /\ WF_vars(~terminated /\ AcceptStep /\ UNCHANGED client)
  /\ \A w \in Workers : WF_vars(~terminated /\ WorkerStep(w) /\ UNCHANGED client)
  /\ \A k \in Clients :
       WF_vars(~terminated /\ (CallStep(k) \/ disconnect(k)) /\ UNCHANGED server)

-----------------------------------------------------------------------------
(***************************************************************************)
(* Correctness                                                             *)
(***************************************************************************)
Message == [type : {"NONE", "REQUEST", "RESPONSE", "ERROR", "PING", "PONG"},
            id : Nat, big : BOOLEAN]

(* The shape of the state; in particular the gauge conn_active_            *)
(* (task_server.h:150) never goes below zero, and a connection never holds *)
(* more than one message each way, unless its client has gone on calling   *)
(* after an oversized answer had put it out of step.                       *)
TypeOK ==
  /\ listening \in {NoFd} \cup 1..MaxStarts /\ made \in 0..MaxConns
  /\ \A n \in DOMAIN backlog : backlog[n] \in Conns
  /\ \A c \in Conns :
       /\ \A q \in {toServer[c], toClient[c]} : \A n \in DOMAIN q : q[n] \in Message
       /\ Len(toServer[c]) <= 1 \/ c \in lost \cup clientClosed
       /\ Len(toClient[c]) <= 1 \/ c \in lost
  /\ clientClosed \cup serverClosed \cup broken \cup lost \subseteq 1..made
  /\ running_ \in BOOLEAN /\ server_fd_ \in {NoFd} \cup 1..MaxStarts
  /\ conn_accepted_ \in 0..made /\ conn_active_ \in 0..made
  /\ Len(tasks) <= Capacity /\ \A n \in DOMAIN tasks : tasks[n] \in Conns \cup {EmptyFn}
  /\ taken \in 0..made /\ slot \in [Workers -> 0..taken]
  /\ main \in {"down", "up", "exchange", "close", "join", "draining", "destroyed"}
  /\ apc \in {"none", "load_running", "load_fd", "accept", "count_accepted",
              "count_active", "enqueue", "retry", "exited"}
  /\ sfd \in {NoFd} \cup 1..MaxStarts /\ afd \in {0} \cup Conns
  /\ wpc \in [Workers -> {"idle", "empty", "loop", "recv", "pong", "handle", "respond",
                          "close", "uncount"}]
  /\ wfd \in [Workers -> {0} \cup Conns] /\ wmsg \in [Workers -> Message]
  /\ terminated \in BOOLEAN /\ dropped \subseteq 1..made
  /\ fd_ \in [Clients -> {Unconnected} \cup Conns]
  /\ next_id_ \in [Clients -> Nat] /\ connected_ \in [Clients -> BOOLEAN]
  /\ call \in [Clients -> Message] /\ kpc \in [Clients -> {"idle", "send", "recv"}]
  /\ leaked \subseteq 1..made

(* Where the server has connection c. *)
Places(c) ==
  {<<"backlog", n>> : n \in {i \in DOMAIN backlog : backlog[i] = c}}
  \cup {<<"accepted", n>> : n \in {afd} \cap {c}}
  \cup {<<"queued", n>> : n \in {i \in DOMAIN tasks : tasks[i] = c}}
  \cup {<<"served", w>> : w \in {v \in Workers : wfd[v] = c}}
  \cup {<<"closed", n>> : n \in serverClosed \cap {c}}
  \cup {<<"dropped", n>> : n \in dropped \cap {c}}

(* The connections that the server has accepted and not closed, and the    *)
(* one of them that the gauge does not count yet.                          *)
Held ==
  {c \in 1..made : \/ c = afd \/ c \in dropped
                   \/ \E n \in DOMAIN tasks : tasks[n] = c
                   \/ \E w \in Workers : wfd[w] = c}
Uncounted == {c \in Held : c = afd /\ apc \in {"count_accepted", "count_active"}}

(* A connection is in one place from the kernel's backlog to its close     *)
(* (task_server.h:136-151): never served twice, closed twice, or forgotten *)
(* by anybody but a pool that has refused it.  conn_active_ counts those   *)
(* accepted and not closed, but for the one between its accept and line    *)
(* 145, and those between their close and line 150.  So when the           *)
(* destructor has returned (task_server.h:90), every connection ever made  *)
(* has been closed, and the gauge is back at zero.                         *)
OneOwner ==
  /\ \A c \in 1..made : Cardinality(Places(c)) = 1
  /\ conn_active_ = Cardinality(Held) - Cardinality(Uncounted)
                    + Cardinality({w \in Workers : wpc[w] = "uncount"})
  /\ main = "destroyed" => 1..made \subseteq serverClosed /\ conn_active_ = 0

(* The process dies, or a connection is forgotten, only after more         *)
(* connections have been accepted than the pool has room for               *)
(* (task_server.h:147): whatever handlers throw, clients send or the       *)
(* network drops.  They need not have been there at the same time, since   *)
(* one slow dequeue is enough for a refusal.                               *)
SurvivesWithinCapacity == terminated \/ dropped # {} => conn_accepted_ > Capacity

(* A call returns the answer to its own request (task_client.h:111-124,    *)
(* 136-138), although neither submit nor ping looks at the id, and         *)
(* whatever failed before on that connection; unless an oversized response *)
(* has put the client out of step.                                         *)
AnswersMatch ==
  [][\A k \in Clients : Answer(k) =>
       LET m == Head(toClient[fd_[k]])
       IN  m.id = call[k].id /\ (m.type = "PONG" <=> call[k].type = "PING")]_vars

(* A socket that connect() has overwritten, and one that is out of step,   *)
(* may occupy a worker for ever.                                           *)
Stuck == leaked \cup lost # {}

(* submit and ping return (task_client.h:101, 131), also when more clients *)
(* are connected than there are workers (task_server.h:156), because they  *)
(* disconnect in the end; they have no timeout of their own.  That is,     *)
(* nobody waits for an answer for ever.                                    *)
CallReturns ==
  \A k \in Clients : []<>(kpc[k] # "recv" \/ Stuck \/ terminated)

(* stop() returns (task_server.h:83), whatever the clients do: the caller  *)
(* is outside it again and again, and leaves it only by its return.        *)
StopReturns == []<>(main \notin {"exchange", "close", "join"} \/ terminated)

(* The destructor returns once the clients have disconnected. *)
DestructorEnds == []<>(main # "draining" \/ Stuck \/ terminated)

(* The server can be taken down at any moment (task_server.h:74-90), with  *)
(* connections in the backlog, just accepted, queued and being served.     *)
ShutdownEnds == StopReturns /\ DestructorEnds
=============================================================================
