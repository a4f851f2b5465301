----------------------------- MODULE TaskServer -----------------------------
(***************************************************************************)
(* TaskServer (include/task_server.h): the thread of the caller, which     *)
(* starts, stops and destroys the server, the accept thread, and the       *)
(* workers of pool_, one of which has a connection for as long as it       *)
(* lives.  requests_total_, request_errors_ and request_latency_, which    *)
(* nothing reads back, are left out.                                       *)
(*                                                                         *)
(* pool_ is a queue of Capacity connections that idle workers take from.   *)
(* A worker inside try_dequeue keeps the slot it reads from until it has   *)
(* released it (BoundedFifo).  enqueue, when refused, has emptied the task *)
(* at its first attempt and then throws, or queues the empty function,     *)
(* which ends the process when a worker calls it (ThreadPoolV2,            *)
(* RetryKeepsTask).                                                        *)
(***************************************************************************)
EXTENDS Connections

CONSTANTS
  Workers,    \* the threads of pool_
  Capacity,   \* 1024
  EmptyFn     \* a moved-from std::function

VARIABLES
  running_, server_fd_,
  conn_accepted_, conn_active_,   \* metrics: connections accepted, and open
  tasks,        \* the queue of pool_
  taken,        \* number of tasks taken out of it
  slot,         \* slot[w]: the task, by number, whose slot w still holds, or 0
  main,         \* where the caller is
  starts,       \* number of calls of start
  apc,          \* where the accept thread is
  sfd, afd,     \* its locals sfd and client_fd
  wpc,          \* wpc[w]: where worker w is
  wfd, wmsg,    \* its connection, and the message it has received or prepared
  terminated,   \* std::terminate has ended the process
  dropped       \* history: connections whose task was emptied by a refused attempt

counters == <<conn_accepted_, conn_active_>>
slots == <<taken, slot>>
accepting == <<apc, sfd, afd>>
working == <<wpc, wfd, wmsg>>
server == <<running_, server_fd_, counters, tasks, slots, main, starts, accepting, working,
            terminated, dropped>>

None == [type |-> "NONE", id |-> 0, big |-> FALSE]

ServerInit ==
  /\ running_ = FALSE /\ server_fd_ = NoFd
  /\ conn_accepted_ = 0 /\ conn_active_ = 0
  /\ tasks = << >> /\ taken = 0 /\ slot = [w \in Workers |-> 0]
  /\ main = "down" /\ starts = 0
  /\ apc = "none" /\ sfd = NoFd /\ afd = 0
  /\ wpc = [w \in Workers |-> "idle"]
  /\ wfd = [w \in Workers |-> 0] /\ wmsg = [w \in Workers |-> None]
  /\ terminated = FALSE /\ dropped = {}

-----------------------------------------------------------------------------
(***************************************************************************)
(* start(), stop() and the destructor                                      *)
(***************************************************************************)

(* socket, bind and listen.  When it throws, nothing has changed. *)
setup_socket(fd) == listening' = fd

(* Nobody acts on server_fd_ before there is an accept thread. *)
start ==
  /\ main = "down" /\ starts < MaxStarts
  /\ starts' = starts + 1
  /\ setup_socket(starts + 1) /\ server_fd_' = starts + 1
  /\ running_' = TRUE
  /\ main' = "up" /\ apc' = "load_running"
  /\ UNCHANGED <<backlog, made, toServer, toClient, clientClosed, serverClosed, broken,
                 lost, counters, tasks, slots, sfd, afd, working, terminated, dropped>>

MainOnly(from, to) ==
  /\ main = from /\ main' = to
  /\ UNCHANGED <<counters, tasks, slots, starts, accepting, working, terminated,
                 dropped>>

stop ==
  /\ MainOnly("up", "exchange")
  /\ running_' = FALSE
  /\ UNCHANGED <<net, server_fd_>>

StopExchanges ==
  /\ MainOnly("exchange", "close")
  /\ server_fd_' = NoFd
  /\ UNCHANGED <<net, running_>>

(* Mutant: the socket is not shut down, and accept goes on waiting. *)
MutantStopCloses == MainOnly("close", "join") /\ UNCHANGED <<net, running_, server_fd_>>

(* shutdown and close: a blocked accept returns, and the connections that  *)
(* were not accepted are reset                                             *)
StopCloses ==
  /\ MainOnly("close", "join")
  /\ listening' = NoFd /\ backlog' = << >>
  /\ serverClosed' = serverClosed \cup Range(backlog) /\ broken' = broken \ Range(backlog)
  /\ UNCHANGED <<made, toServer, toClient, clientClosed, lost, running_, server_fd_>>

StopJoins ==
  /\ apc = "exited"
  /\ MainOnly("join", "down")
  /\ UNCHANGED <<net, running_, server_fd_>>

(* ~TaskServer() of a running server is stop() and this: pool_ is          *)
(* destroyed, and its destructor waits until the queue has been drained.   *)
Destroy ==
  /\ MainOnly("down", "draining")
  /\ UNCHANGED <<net, running_, server_fd_>>

Destroyed ==
  /\ tasks = << >> /\ \A w \in Workers : wpc[w] = "idle"
  /\ MainOnly("draining", "destroyed")
  /\ UNCHANGED <<net, running_, server_fd_>>

StopStep == StopExchanges \/ StopCloses \/ StopJoins \/ Destroyed

-----------------------------------------------------------------------------
(***************************************************************************)
(* accept_loop()                                                           *)
(***************************************************************************)
AcceptorOnly(from, to) ==
  /\ apc = from /\ apc' = to
  /\ UNCHANGED <<running_, server_fd_, main, starts, slots, working>>

AcceptorLoads(from, to) ==
  /\ AcceptorOnly(from, to)
  /\ UNCHANGED <<net, conn_accepted_, conn_active_, tasks, afd, terminated, dropped>>

LoadRunning ==
  /\ AcceptorLoads("load_running", IF running_ THEN "load_fd" ELSE "exited")
  /\ UNCHANGED sfd

LoadFd ==
  /\ AcceptorLoads("load_fd", IF server_fd_ = NoFd THEN "exited" ELSE "accept")
  /\ sfd' = server_fd_

(* accept() returns the connection at the head of the backlog, also when   *)
(* its client has closed it already.                                       *)
Accept ==
  /\ sfd = listening /\ backlog # << >>
  /\ AcceptorOnly("accept", "count_accepted")
  /\ afd' = Head(backlog) /\ backlog' = Tail(backlog) /\ sfd' = NoFd
  /\ UNCHANGED <<listening, made, toServer, toClient, clientClosed, serverClosed, broken,
                 lost, counters, tasks, terminated, dropped>>

CountAccepted ==
  /\ AcceptorOnly("count_accepted", "count_active")
  /\ conn_accepted_' = conn_accepted_ + 1
  /\ UNCHANGED <<net, conn_active_, tasks, sfd, afd, terminated, dropped>>

(* Mutant: conn_active_ is not counted up. *)
MutantCountActive ==
  /\ AcceptorOnly("count_active", "enqueue")
  /\ UNCHANGED <<net, counters, tasks, sfd, afd, terminated, dropped>>

CountActive ==
  /\ AcceptorOnly("count_active", "enqueue")
  /\ conn_active_' = conn_active_ + 1
  /\ UNCHANGED <<net, conn_accepted_, tasks, sfd, afd, terminated, dropped>>

(* It returns -1: the socket has been shut down or closed, or a connection *)
(* has been given up before it was accepted (ECONNABORTED).                *)
AcceptFails ==
  /\ AcceptorOnly("accept", IF running_ THEN "load_running" ELSE "exited") /\ sfd' = NoFd
  /\ \/ sfd # listening /\ UNCHANGED <<backlog, serverClosed, broken>>
     \/ /\ sfd = listening /\ backlog # << >> /\ ClientGone(Head(backlog))
        /\ backlog' = Tail(backlog)
        /\ serverClosed' = serverClosed \cup {Head(backlog)}
        /\ broken' = broken \ {Head(backlog)}
  /\ UNCHANGED <<listening, made, toServer, toClient, clientClosed, lost,
                 conn_accepted_, conn_active_, tasks, afd, terminated, dropped>>

(* Mutant: the queue counts as full with one place left. *)
MutantFull == Len(tasks) + 1 >= Capacity

(* try_enqueue refuses: the ring is full, or a worker inside try_dequeue   *)
(* still holds the slot that the next task needs, a lap after its own.     *)
Full ==
  \/ Len(tasks) >= Capacity
  \/ \E w \in Workers : slot[w] # 0 /\ slot[w] + Capacity = taken + Len(tasks) + 1

(* The task is gone. *)
EnqueueRefused ==
  /\ Full
  /\ AcceptorOnly("enqueue", "retry")
  /\ dropped' = dropped \cup {afd} /\ afd' = 0
  /\ UNCHANGED <<net, conn_accepted_, conn_active_, tasks, sfd, terminated>>

Enqueue ==
  /\ ~Full
  /\ AcceptorOnly("enqueue", "load_running")
  /\ tasks' = Append(tasks, afd) /\ afd' = 0
  /\ UNCHANGED <<net, conn_accepted_, conn_active_, sfd, terminated, dropped>>

EnqueueRetries ==
  /\ ~Full
  /\ AcceptorOnly("retry", "load_running")
  /\ tasks' = Append(tasks, EmptyFn)
  /\ UNCHANGED <<net, conn_accepted_, conn_active_, sfd, afd, terminated, dropped>>

(* It throws, and nothing in this thread catches it. *)
EnqueueThrows ==
  /\ AcceptorOnly("retry", "exited")
  /\ terminated' = TRUE
  /\ UNCHANGED <<net, conn_accepted_, conn_active_, tasks, sfd, afd, dropped>>

AcceptStep ==
  \/ LoadRunning \/ LoadFd \/ Accept \/ AcceptFails \/ CountAccepted \/ CountActive
  \/ EnqueueRefused \/ Enqueue \/ EnqueueRetries \/ EnqueueThrows

-----------------------------------------------------------------------------
(***************************************************************************)
(* A worker, and handle_connection()                                       *)
(***************************************************************************)
Worker(w, from, to) ==
  /\ slot[w] = 0
  /\ wpc[w] = from /\ wpc' = [wpc EXCEPT ![w] = to]
  /\ UNCHANGED <<running_, server_fd_, conn_accepted_, main, starts, slots, accepting,
                 dropped>>

(* What a worker never touches of the network. *)
netElse == <<listening, backlog, made, clientClosed, lost>>

(* try_dequeue claims the head of the queue. *)
Take(w, to) ==
  /\ tasks # << >> /\ tasks' = Tail(tasks)
  /\ wpc[w] = "idle" /\ wpc' = [wpc EXCEPT ![w] = to]
  /\ taken' = taken + 1 /\ slot' = [slot EXCEPT ![w] = taken + 1]
  /\ UNCHANGED <<net, running_, server_fd_, counters, main, starts, accepting, wmsg,
                 terminated, dropped>>

TakeConnection(w) ==
  /\ Take(w, "loop") /\ Head(tasks) # EmptyFn
  /\ wfd' = [wfd EXCEPT ![w] = Head(tasks)]

TakeEmptyFn(w) ==
  /\ Take(w, "empty") /\ Head(tasks) = EmptyFn
  /\ UNCHANGED wfd

(* It has moved the task out, and returns. *)
ReleaseSlot(w) ==
  /\ slot[w] # 0 /\ slot' = [slot EXCEPT ![w] = 0]
  /\ UNCHANGED <<net, running_, server_fd_, counters, tasks, taken, main, starts,
                 accepting, working, terminated, dropped>>

(* std::bad_function_call in a worker *)
CallEmptyFn(w) ==
  /\ Worker(w, "empty", "idle")
  /\ terminated' = TRUE
  /\ UNCHANGED <<net, conn_active_, tasks, wfd, wmsg>>

LoopTest(w) ==
  /\ Worker(w, "loop", IF running_ THEN "recv" ELSE "close")
  /\ UNCHANGED <<net, conn_active_, tasks, wfd, wmsg, terminated>>

(* recv_message returns true, and the type is one the server serves. *)
Served(m) == ~m.big /\ m.type \in {"REQUEST", "PING"}

ReceiveRequest(w) ==
  LET m == Head(toServer[wfd[w]])
  IN  /\ wpc[w] = "recv" /\ toServer[wfd[w]] # << >> /\ Served(m)
      /\ Worker(w, "recv", IF m.type = "PING" THEN "pong" ELSE "handle")
      /\ toServer' = [toServer EXCEPT ![wfd[w]] = Tail(@)]
      /\ wmsg' = [wmsg EXCEPT ![w] = m]
      /\ UNCHANGED <<netElse, toClient, serverClosed, broken, conn_active_, tasks, wfd,
                     terminated>>

(* recv_message returns false, or the type is none of the two: break *)
ReceiveEnds(w) ==
  /\ Worker(w, "recv", "close")
  /\ \/ toServer[wfd[w]] = << >> /\ ClientGone(wfd[w])
     \/ toServer[wfd[w]] # << >> /\ ~Served(Head(toServer[wfd[w]]))
  /\ UNCHANGED <<net, conn_active_, tasks, wfd, wmsg, terminated>>

(* send_message to the client: it arrives, or is lost without an error *)
Sends(w, m) ==
  IF ClientGone(wfd[w]) THEN UNCHANGED toClient
  ELSE toClient' = [toClient EXCEPT ![wfd[w]] = Append(@, m)]

(* What send_message returns is ignored for a PONG. *)
SendPong(w) ==
  /\ Worker(w, "pong", "loop")
  /\ Sends(w, [wmsg[w] EXCEPT !.type = "PONG"])
  /\ wmsg' = [wmsg EXCEPT ![w] = None]
  /\ UNCHANGED <<netElse, toServer, serverClosed, broken, conn_active_, tasks, wfd,
                 terminated>>

(* handler_ returns a result of any size, or throws. *)
Results(m) == {[m EXCEPT !.type = "RESPONSE"], [m EXCEPT !.type = "RESPONSE", !.big = TRUE],
               [m EXCEPT !.type = "ERROR"]}

(* Mutant: what the handler throws is not caught, and ends the task. *)
MutantHandle(w) ==
  \E r \in Results(wmsg[w]) :
    /\ Worker(w, "handle", IF r.type = "ERROR" THEN "idle" ELSE "respond")
    /\ wmsg' = [wmsg EXCEPT ![w] = IF r.type = "ERROR" THEN None ELSE r]
    /\ wfd' = [wfd EXCEPT ![w] = IF r.type = "ERROR" THEN 0 ELSE @]
    /\ UNCHANGED <<net, conn_active_, tasks, terminated>>

Handle(w) ==
  \E r \in Results(wmsg[w]) :
    /\ Worker(w, "handle", "respond")
    /\ wmsg' = [wmsg EXCEPT ![w] = r]
    /\ UNCHANGED <<net, conn_active_, tasks, wfd, terminated>>

Respond(w) ==
  /\ Worker(w, "respond", "loop")
  /\ Sends(w, wmsg[w])
  /\ wmsg' = [wmsg EXCEPT ![w] = None]
  /\ UNCHANGED <<netElse, toServer, serverClosed, broken, conn_active_, tasks, wfd,
                 terminated>>

RespondFails(w) ==
  /\ Worker(w, "respond", "close") /\ ClientGone(wfd[w])
  /\ wmsg' = [wmsg EXCEPT ![w] = None]
  /\ UNCHANGED <<net, conn_active_, tasks, wfd, terminated>>

(* Mutant: the descriptor is not closed. *)
MutantCloseConnection(w) ==
  /\ Worker(w, "close", "uncount")
  /\ wfd' = [wfd EXCEPT ![w] = 0]
  /\ UNCHANGED <<net, conn_active_, tasks, wmsg, terminated>>

CloseConnection(w) ==
  /\ Worker(w, "close", "uncount")
  /\ serverClosed' = serverClosed \cup {wfd[w]}
  /\ toServer' = [toServer EXCEPT ![wfd[w]] = << >>] /\ broken' = broken \ {wfd[w]}
  /\ wfd' = [wfd EXCEPT ![w] = 0]
  /\ UNCHANGED <<netElse, toClient, conn_active_, tasks, wmsg, terminated>>

Uncount(w) ==
  /\ Worker(w, "uncount", "idle")
  /\ conn_active_' = conn_active_ - 1
  /\ UNCHANGED <<net, tasks, wfd, wmsg, terminated>>

WorkerStep(w) ==
  \/ TakeConnection(w) \/ TakeEmptyFn(w) \/ ReleaseSlot(w) \/ CallEmptyFn(w) \/ LoopTest(w)
  \/ ReceiveRequest(w) \/ ReceiveEnds(w) \/ SendPong(w)
  \/ Handle(w) \/ Respond(w) \/ RespondFails(w) \/ CloseConnection(w) \/ Uncount(w)

ServerNext ==
  start \/ stop \/ Destroy \/ StopStep \/ AcceptStep \/ \E w \in Workers : WorkerStep(w)
=============================================================================
