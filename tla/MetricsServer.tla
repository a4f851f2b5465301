--------------------------- MODULE MetricsServer ---------------------------
(***************************************************************************)
(* MetricsServer (include/metrics_server.h): the thread of its owner,      *)
(* which starts and stops it, the thread that serves one connection after  *)
(* the other, and the peers that connect, over the metrics that they ask   *)
(* for (module Histogram).                                                 *)
(*                                                                         *)
(* server_fd_ is a plain int that stop() writes while serve_loop reads it: *)
(* the loop gets the old value or the new one.  recv is called once, and   *)
(* what it returns is all that the server sees of a request.               *)
(***************************************************************************)
EXTENDS Histogram

CONSTANTS
  Server,      \* serve_loop's thread, one of the callers of serialize
  MaxPeers,    \* bound: connections
  Loads,       \* bound: how many calls of observe together with how many connections
  MaxStarts    \* bound: calls of start

ASSUME MetricsServerAssumption ==
  /\ Server \in Scrapers /\ MaxPeers \in Nat /\ MaxStarts \in Nat
  /\ Loads \subseteq Nat \X Nat

Peers == 1..MaxPeers
NoFd == -1

VARIABLES
  running_, server_fd_,
  main,        \* where the owner is
  starts,      \* number of calls of start
  spc,         \* where serve_loop is; "none" when thread_ is not joinable
  sfd, cfd,    \* the descriptor it has read, and client_fd
  response,    \* what it is going to send, or "none"
  listening,   \* the descriptor of the open listening socket, or NoFd
  backlog,     \* connections made and not accepted
  peer,        \* peer[c]: connection c, as the server and its peer see it
  killed       \* SIGPIPE has ended the process

owner == <<main, starts>>
serving == <<spc, sfd, cfd, response>>
vars == <<metrics, running_, server_fd_, owner, serving, listening, backlog, peer, killed>>

(* Whether a connection is new, open, answered or done; the request that   *)
(* has arrived and not been read, of which "part" is too short to tell the *)
(* path; whether the server has read it; whether the peer has closed or    *)
(* reset its end; and the observations that had finished when it asked.    *)
New == [state |-> "new", request |-> "none", read |-> FALSE, fin |-> FALSE, rst |-> FALSE,
        before |-> 0]
Done == [New EXCEPT !.state = "done"]
Requests == {"part", "metrics", "health", "other"}

Init ==
  /\ HistogramInit
  /\ running_ = FALSE /\ server_fd_ = NoFd
  /\ main = "idle" /\ starts = 0
  /\ spc = "none" /\ sfd = NoFd /\ cfd = 0 /\ response = "none"
  /\ listening = NoFd /\ backlog = << >>
  /\ peer = [c \in Peers |-> New] /\ killed = FALSE

-----------------------------------------------------------------------------
(***************************************************************************)
(* start() and stop(); the destructor is stop() if running_                *)
(***************************************************************************)
(* socket, bind and listen, on a port that nobody listens on *)
setup_socket(fd) == listening = NoFd /\ listening' = fd /\ server_fd_' = fd

start ==
  /\ main = "idle" /\ spc = "none" /\ starts < MaxStarts
  /\ starts' = starts + 1 /\ running_' = TRUE
  /\ setup_socket(starts + 1)
  /\ spc' = "loop"
  /\ UNCHANGED <<metrics, main, sfd, cfd, response, backlog, peer, killed>>

(* Mutant: running_ is set last, as TaskServer does. *)
MutantStartThrows ==
  /\ main = "idle" /\ spc = "none" /\ starts < MaxStarts
  /\ starts' = starts + 1
  /\ \/ UNCHANGED <<server_fd_, listening>>
     \/ setup_socket(starts + 1)
  /\ UNCHANGED <<metrics, running_, main, serving, backlog, peer, killed>>

(* setup_socket throws, or std::thread does. *)
StartThrows ==
  /\ main = "idle" /\ spc = "none" /\ starts < MaxStarts
  /\ starts' = starts + 1 /\ running_' = TRUE
  /\ \/ UNCHANGED <<server_fd_, listening>>
     \/ setup_socket(starts + 1)
  /\ UNCHANGED <<metrics, main, serving, backlog, peer, killed>>

OwnerOnly(from, to) ==
  /\ main = from /\ main' = to
  /\ UNCHANGED <<metrics, starts, sfd, cfd, response, killed>>

stop ==
  /\ running_ /\ OwnerOnly("idle", IF server_fd_ = NoFd THEN "join" ELSE "close")
  /\ running_' = FALSE
  /\ UNCHANGED <<server_fd_, spc, listening, backlog, peer>>

(* Mutant: the socket stays open, and accept goes on waiting. *)
MutantStopCloses ==
  /\ OwnerOnly("close", "forget")
  /\ UNCHANGED <<running_, server_fd_, spc, listening, backlog, peer>>

(* shutdown and close: a blocked accept returns, and the connections that  *)
(* were not accepted are reset                                             *)
StopCloses ==
  /\ OwnerOnly("close", "forget")
  /\ listening' = NoFd /\ backlog' = << >>
  /\ peer' = [c \in Peers |-> IF c \in ToSet(backlog) THEN Done ELSE peer[c]]
  /\ UNCHANGED <<running_, server_fd_, spc>>

StopForgets ==
  /\ OwnerOnly("forget", "join")
  /\ server_fd_' = NoFd
  /\ UNCHANGED <<running_, spc, listening, backlog, peer>>

StopJoins ==
  /\ spc \in {"none", "exited"} /\ OwnerOnly("join", "idle")
  /\ spc' = "none"
  /\ UNCHANGED <<running_, server_fd_, listening, backlog, peer>>

StopStep == StopCloses \/ StopForgets \/ StopJoins

-----------------------------------------------------------------------------
(***************************************************************************)
(* serve_loop() and handle_connection()                                    *)
(***************************************************************************)
Serve(from, to) ==
  /\ spc = from /\ spc' = to
  /\ UNCHANGED <<running_, server_fd_, owner, listening>>

LoadRunning ==
  /\ Serve("loop", IF running_ THEN "load_fd" ELSE "exited")
  /\ UNCHANGED <<metrics, sfd, cfd, response, backlog, peer, killed>>

LoadFd ==
  /\ Serve("load_fd", "accept")
  /\ sfd' = server_fd_
  /\ UNCHANGED <<metrics, cfd, response, backlog, peer, killed>>

Accept ==
  /\ Serve("accept", "recv")
  /\ sfd = listening /\ backlog # << >>
  /\ cfd' = Head(backlog) /\ backlog' = Tail(backlog) /\ sfd' = NoFd
  /\ UNCHANGED <<metrics, response, peer, killed>>

(* It returns -1: the socket has been closed, or the connection was reset  *)
(* before it was accepted (ECONNABORTED).                                  *)
AcceptFails ==
  /\ Serve("accept", IF running_ THEN "loop" ELSE "exited")
  /\ \/ (sfd = NoFd \/ sfd # listening) /\ UNCHANGED <<backlog, peer>>
     \/ /\ sfd = listening /\ backlog # << >> /\ peer[Head(backlog)].rst
        /\ backlog' = Tail(backlog)
        /\ peer' = [peer EXCEPT ![Head(backlog)] = Done]
  /\ sfd' = NoFd
  /\ UNCHANGED <<metrics, cfd, response, killed>>

Here == peer[cfd]

(* One recv.  What is too short for the path matches neither endpoint. *)
Receive ==
  /\ spc = "recv" /\ Here.request # "none" /\ ~Here.rst
  /\ response' = CASE Here.request = "metrics" -> "page"
                    [] Here.request = "health" -> "ok"
                    [] OTHER -> "404"
  /\ Serve("recv", IF response' = "page" THEN "lock" ELSE "send")
  /\ peer' = [peer EXCEPT ![cfd].request = "none", ![cfd].read = TRUE]
  /\ UNCHANGED <<metrics, sfd, cfd, backlog, killed>>

(* Mutant: n = 0 is taken for an empty segment, and recv called again. *)
MutantReceiveAgain ==
  /\ spc = "recv" /\ Here.rst
  /\ Serve("recv", "close")
  /\ UNCHANGED <<metrics, sfd, cfd, response, backlog, peer, killed>>

(* n <= 0 *)
ReceiveEnds ==
  /\ spc = "recv" /\ (Here.rst \/ (Here.request = "none" /\ Here.fin))
  /\ Serve("recv", "close")
  /\ UNCHANGED <<metrics, sfd, cfd, response, backlog, peer, killed>>

Lock ==
  /\ Serve("lock", "serialize") /\ Scrape(Server)
  /\ UNCHANGED <<sfd, cfd, response, backlog, peer, killed>>

Serialize ==
  /\ Serve("serialize", IF Len(page[Server]) = SumLine THEN "send" ELSE "serialize")
  /\ ScrapeStep(Server)
  /\ UNCHANGED <<sfd, cfd, response, backlog, peer, killed>>

(* What send returns is ignored.  It is called without MSG_NOSIGNAL: a     *)
(* peer that has closed its end and then reset the connection kills.       *)
Send ==
  /\ spc = "send" /\ Serve("send", "close")
  /\ killed' = (Here.fin /\ Here.rst)
  /\ peer' = IF Here.rst THEN peer ELSE [peer EXCEPT ![cfd].state = "answered"]
  /\ response' = "none"
  /\ IF response = "page" THEN Discard(Server) ELSE UNCHANGED metrics
  /\ UNCHANGED <<sfd, cfd, backlog>>

(* ::close resets a connection with unread data, and then the answer may   *)
(* be lost.                                                                *)
Close ==
  /\ spc = "close" /\ Serve("close", "loop")
  /\ peer' = [peer EXCEPT ![cfd] = Done] /\ cfd' = 0
  /\ UNCHANGED <<metrics, sfd, response, backlog, killed>>

ServeStep ==
  \/ LoadRunning \/ LoadFd \/ Accept \/ AcceptFails \/ Receive \/ ReceiveEnds
  \/ Serialize \/ Send \/ Close

-----------------------------------------------------------------------------
(***************************************************************************)
(* The peers, which are outside of the program                             *)
(***************************************************************************)
PeerOnly == UNCHANGED <<metrics, running_, server_fd_, owner, serving, listening, killed>>

Bounded(observes, peers) == \E l \in Loads : observes <= l[1] /\ peers <= l[2]
connections == Cardinality({c \in Peers : peer[c] # New})

Connect(c) ==
  /\ listening # NoFd /\ c = connections + 1 /\ Bounded(begun, c)
  /\ peer' = [peer EXCEPT ![c].state = "open"] /\ backlog' = Append(backlog, c)
  /\ PeerOnly

Waiting(c) == peer[c].state = "open" /\ ~peer[c].fin /\ ~peer[c].rst

Ask(c) ==
  /\ Waiting(c) /\ ~peer[c].read /\ peer[c].request \in {"none", "part"}
  /\ \E r \in Requests \ {peer[c].request} :
       peer' = [peer EXCEPT ![c].request = r, ![c].before = Len(log)]
  /\ UNCHANGED backlog /\ PeerOnly

(* The peer has connected and sent nothing. *)
Silent(c) == ~peer[c].read /\ peer[c].request = "none"

HangUp(c) ==
  /\ Waiting(c)
  /\ peer' = [peer EXCEPT ![c].fin = TRUE]
  /\ UNCHANGED backlog /\ PeerOnly

Reset(c) ==
  /\ peer[c].state = "open" /\ ~peer[c].rst
  /\ peer' = [peer EXCEPT ![c].rst = TRUE]
  /\ UNCHANGED backlog /\ PeerOnly

-----------------------------------------------------------------------------
serverVars == <<running_, server_fd_, owner, serving, listening, backlog, peer, killed>>

(* Threads that observe, and those that call serialize themselves. *)
Others ==
  /\ \/ \E t \in Observers : Observe(t) /\ Bounded(begun + 1, connections)
     \/ \E t \in Observers : ObserveStep(t)
     \/ \E s \in Scrapers \ {Server} : Scrape(s) \/ ScrapeStep(s) \/ Discard(s)
  /\ UNCHANGED serverVars

Next ==
  /\ ~killed
  /\ \/ start \/ StartThrows \/ stop \/ StopStep \/ ServeStep \/ Lock \/ Others
     \/ \E c \in Peers : Connect(c) \/ Ask(c) \/ HangUp(c) \/ Reset(c)

Spec == Init /\ [][Next]_vars

(* Threads go on; a peer that has connected asks or leaves, and after that *)
(* may wait for ever.  The mutex is free between two calls of serialize by *)
(* others, which are seconds apart (examples/server.cpp:76-79), so the     *)
(* server gets it.                                                         *)
FairSpec ==
  /\ Spec
  /\ WF_vars(~killed /\ StopStep) /\ WF_vars(~killed /\ ServeStep)
  /\ SF_vars(~killed /\ Lock)
  /\ \A s \in Scrapers \ {Server} :
       WF_vars(~killed /\ ScrapeStep(s) /\ UNCHANGED serverVars)
  /\ \A c \in Peers : WF_vars(~killed /\ Silent(c) /\ (Ask(c) \/ HangUp(c)))

-----------------------------------------------------------------------------
(***************************************************************************)
(* Correctness                                                             *)
(***************************************************************************)

(* The shape of the state; cfd is a connection exactly while one is served.*)
TypeOK ==
  /\ HistogramTypeOK
  /\ running_ \in BOOLEAN /\ killed \in BOOLEAN
  /\ {server_fd_, sfd, listening} \subseteq {NoFd} \cup 1..MaxStarts
  /\ main \in {"idle", "close", "forget", "join"} /\ starts \in 0..MaxStarts
  /\ spc \in {"none", "loop", "load_fd", "accept", "recv", "lock", "serialize", "send",
              "close", "exited"}
  /\ response \in {"none", "page", "ok", "404"}
  /\ ToSet(backlog) \subseteq Peers
  /\ IF spc \in {"recv", "lock", "serialize", "send", "close"}
     THEN cfd \in Peers ELSE cfd = 0
  /\ peer \in [Peers -> [state : {"new", "open", "answered", "done"},
                        request : Requests \cup {"none"}, read : BOOLEAN,
                        fin : BOOLEAN, rst : BOOLEAN, before : Nat]]

(* The destructor skips stop() when running_ is false                      *)
(* (metrics_server.h:91-93).  Then there is no thread left that            *)
(* std::thread's destructor would terminate the program for, and no open   *)
(* socket, also after start() has thrown halfway.                          *)
StoppedIsClean ==
  main = "idle" /\ ~running_ => spc = "none" /\ listening = NoFd /\ server_fd_ = NoFd

(* Every connection made is waiting, being served or closed                *)
(* (metrics_server.h:144-145): none is forgotten, whatever the peer does.  *)
NoConnectionForgotten ==
  \A c \in Peers : peer[c].state \in {"open", "answered"} =>
    Cardinality({n \in DOMAIN backlog : backlog[n] = c}) + (IF cfd = c THEN 1 ELSE 0) = 1

(* Neither the owner nor a peer makes the server leave a thread, a socket  *)
(* or a connection behind (metrics_server.h:73-93, 144-145).               *)
NothingLeftBehind == StoppedIsClean /\ NoConnectionForgotten

(* The page that a peer is sent counts everything that had been observed  *)
(* when it asked (metrics_server.h:158-171), and a page is complete.       *)
PageIsFresh ==
  spc = "send" /\ response = "page" =>
    /\ Len(page[Server]) = CountLine
    /\ page[Server][CountLine] \in Here.before .. Len(log)
    /\ page[Server][Inf] >= Here.before

(* stop() returns (metrics_server.h:86) although it waits for the peer     *)
(* that is being served, as peers do not stay silent for ever.             *)
StopReturns == main = "close" ~> main = "idle" \/ killed

(* A request that arrives in one piece is answered (metrics_server.h:152,  *)
(* 171), in spite of the peers that come before it, as long as its own     *)
(* peer waits and the server is not stopped.                               *)
RequestAnswered ==
  \A c \in Peers :
    peer[c].request \in {"metrics", "health", "other"} /\ Waiting(c) /\ spc # "none"
      ~> peer[c].state = "answered" \/ peer[c].fin \/ peer[c].rst \/ ~running_ \/ killed
=============================================================================
