-------------------------- MODULE TaskServiceProofs --------------------------
(***************************************************************************)
(* Proofs about TaskService, for every number of workers, clients,         *)
(* connections, calls and restarts, and every capacity of the pool.        *)
(***************************************************************************)
EXTENDS TaskService, CountingLemmas

-----------------------------------------------------------------------------
(***************************************************************************)
(* The inductive invariant                                                 *)
(***************************************************************************)

(* The queues are sequences. *)
QueuesInv ==
  /\ backlog \in Seq(Conns) /\ tasks \in Seq(Conns \cup {EmptyFn})
  /\ toServer \in [Conns -> Seq(Message)] /\ toClient \in [Conns -> Seq(Message)]
  /\ starts \in 0..MaxStarts

(* Nobody can connect once stop() has closed the socket. *)
ListenInv ==
  /\ listening = NoFd => backlog = << >>
  /\ main \in {"join", "down", "draining", "destroyed"} => listening = NoFd

(* Once stop() has joined there is no accept thread, and it holds a        *)
(* connection exactly from its accept to its enqueue.                      *)
AcceptorInv ==
  /\ main \in {"down", "draining", "destroyed"} => apc \in {"none", "exited"}
  /\ apc \in {"count_accepted", "count_active", "enqueue"} <=> afd # 0

WorkerStates ==
  {"idle", "empty", "loop", "recv", "pong", "handle", "respond", "close", "uncount"}

(* A worker has a connection exactly while it serves it. *)
WorkerInv == \A w \in Workers : wpc[w] \in {"idle", "empty", "uncount"} <=> wfd[w] = 0

(* The destructor leaves no worker and no task behind. *)
EndInv ==
  main = "destroyed" =>
    dropped = {} /\ tasks = << >> /\ \A w \in Workers : wpc[w] = "idle"

LifeInv == ListenInv /\ AcceptorInv /\ WorkerInv /\ EndInv

Holds(q, c) == \E n \in 1..Len(q) : q[n] = c
InHand(c) == \E w \in Workers : wfd[w] = c

Spots == {"backlog", "accepted", "queued", "served", "closed", "dropped"}
At(c, spot) ==
  \/ spot = "backlog" /\ Holds(backlog, c)
  \/ spot = "accepted" /\ afd = c
  \/ spot = "queued" /\ Holds(tasks, c)
  \/ spot = "served" /\ InHand(c)
  \/ spot = "closed" /\ c \in serverClosed
  \/ spot = "dropped" /\ c \in dropped

(* A connection is in one spot, there once, and in none before it is made. *)
OneSpot ==
  \A c \in Conns :
    IF c <= made THEN \E spot \in Spots : \A s \in Spots : At(c, s) <=> s = spot
                 ELSE \A s \in Spots : ~At(c, s)
Once(q) == \A i, j \in 1..Len(q) : q[i] = q[j] /\ q[i] \in Conns => i = j
OnceInHand == \A v, w \in Workers : wfd[v] = wfd[w] /\ wfd[v] # 0 => v = w

PlaceInv == OneSpot /\ Once(backlog) /\ Once(tasks) /\ OnceInHand

(* conn_active_ counts the connections accepted and not closed, but for    *)
(* the one that the accept thread has still to count, and those that a     *)
(* worker has still to count out.                                          *)
OpenSpots == {"accepted", "queued", "served", "dropped"}
Open == {c \in Conns : \E s \in OpenSpots : At(c, s)}
NotYet == IF apc \in {"count_accepted", "count_active"} THEN 1 ELSE 0
Uncounting == {w \in Workers : wpc[w] = "uncount"}
ActiveInv ==
  /\ conn_active_ = Cardinality(Open) + Cardinality(Uncounting) - NotYet
  /\ conn_active_ + (IF apc = "count_active" THEN 1 ELSE 0) <= conn_accepted_

(* What has been queued, or is about to be, has been accepted; a task is   *)
(* dropped only after a lap of the queue, and stays behind as an empty     *)
(* function, in the queue or with a worker.                                *)
JustAccepted == IF apc = "count_accepted" THEN 1 ELSE 0
Pending == IF apc \in {"count_active", "enqueue", "retry"} THEN 1 ELSE 0
Calling == \E w \in Workers : wpc[w] = "empty"
DropInv ==
  /\ conn_accepted_ + Len(backlog) + JustAccepted <= made
  /\ taken + Len(tasks) + Pending <= conn_accepted_
  /\ dropped # {} => conn_accepted_ > Capacity
  /\ dropped # {} <=> terminated \/ apc = "retry" \/ Holds(tasks, EmptyFn) \/ Calling

(* Every client has a connection of its own, which it has not closed. *)
ClientInv ==
  /\ \A k \in Clients : fd_[k] = Unconnected \/ fd_[k] \in (1..made) \ clientClosed
  /\ \A j, k \in Clients : fd_[j] = fd_[k] /\ fd_[j] # Unconnected => j = k
  /\ \A k \in Clients : kpc[k] = "recv" => fd_[k] # Unconnected
  /\ \A k \in Clients : kpc[k] # "idle" => call[k].type \in {"REQUEST", "PING"}

Waits(k, c) == kpc[k] = "recv" /\ fd_[k] = c

(* Nobody reads what is sent on c, or nobody waits for it. *)
Gone(c) == c \in lost \cup clientClosed \cup serverClosed \cup broken
Deaf(c) == c \in lost \cup clientClosed \cup broken

(* Of a call there is one trace between the client's send and its receive: *)
(* the request on its way, the worker that has it, or the answer.          *)
RequestOk(c) ==
  /\ Len(toServer[c]) <= 1 \/ c \in lost \cup clientClosed
  /\ (~Gone(c) /\ toServer[c] # << >>) =>
       /\ toClient[c] = << >>
       /\ \E k \in Clients : Waits(k, c) /\ Head(toServer[c]) = call[k]

WorkOk(w) ==
  (wpc[w] \in {"pong", "handle", "respond"} /\ ~Deaf(wfd[w])) =>
    /\ toServer[wfd[w]] = << >> /\ toClient[wfd[w]] = << >>
    /\ wpc[w] = "respond" => wmsg[w].type # "PONG"
    /\ \E k \in Clients : /\ Waits(k, wfd[w]) /\ wmsg[w].id = call[k].id
                          /\ wpc[w] = "pong" <=> call[k].type = "PING"

AnswerOk(c) ==
  c \notin lost =>
    /\ Len(toClient[c]) <= 1
    /\ toClient[c] # << >> =>
         \E k \in Clients :
           /\ Waits(k, c) /\ Head(toClient[c]).id = call[k].id
           /\ Head(toClient[c]).type = "PONG" <=> call[k].type = "PING"

MailInv ==
  /\ \A c \in Conns : RequestOk(c) /\ AnswerOk(c)
  /\ \A w \in Workers : WorkOk(w)

IInv ==
  /\ TypeOK /\ QueuesInv /\ LifeInv /\ PlaceInv /\ ActiveInv /\ DropInv
  /\ ClientInv /\ MailInv

-----------------------------------------------------------------------------
(***************************************************************************)
(* Connections and their spots                                             *)
(***************************************************************************)
places == <<backlog, made, afd, tasks, wfd, serverClosed, dropped>>

(* The steps that move a connection, or a task of the pool. *)
Moves ==
  \/ StopCloses \/ Accept \/ AcceptFails \/ EnqueueRefused \/ Enqueue \/ EnqueueRetries
  \/ \E w \in Workers : TakeConnection(w) \/ TakeEmptyFn(w) \/ CloseConnection(w)
  \/ \E k \in Clients : connect(k) /\ UNCHANGED server

(* All the other steps leave the connections where they are. *)
LEMMA QuietPlaces ==
  ASSUME [Next]_vars
  PROVE  Moves \/ UNCHANGED places
<1>1. CASE UNCHANGED vars
  BY <1>1 DEF vars, net, server, accepting, working, places
<1>2. CASE start \/ stop \/ StopExchanges \/ StopJoins \/ Destroy \/ Destroyed
  BY <1>2 DEF start, stop, StopExchanges, StopJoins, Destroy, Destroyed, MainOnly, net,
              accepting, working, places
<1>3. CASE LoadRunning \/ LoadFd
  BY <1>3 DEF LoadRunning, LoadFd, AcceptorLoads, AcceptorOnly, net, working, places
<1>4. CASE EnqueueThrows \/ CountAccepted \/ CountActive
  BY <1>4 DEF EnqueueThrows, CountAccepted, CountActive, AcceptorOnly, net, working, places
<1>5. ASSUME NEW w \in Workers, \/ ReleaseSlot(w) \/ CallEmptyFn(w) \/ LoopTest(w)
                                \/ ReceiveEnds(w) \/ Handle(w) \/ RespondFails(w) \/ Uncount(w)
      PROVE  UNCHANGED places
  BY <1>5 DEF ReleaseSlot, CallEmptyFn, LoopTest, ReceiveEnds, Handle, RespondFails, Uncount,
              Worker, net, accepting, working, places
<1>6. ASSUME NEW w \in Workers, ReceiveRequest(w) \/ SendPong(w) \/ Respond(w)
      PROVE  UNCHANGED places
  BY <1>6 DEF ReceiveRequest, SendPong, Respond, Worker, netElse, accepting, places
<1>7. ASSUME NEW k \in Clients, UNCHANGED server,
             ConnectThrows(k) \/ disconnect(k) \/ submit(k) \/ ping(k)
      PROVE  UNCHANGED places
  BY <1>7 DEF ConnectThrows, disconnect, submit, ping, Call, net, server, accepting,
              working, places
<1>8. ASSUME NEW k \in Clients, UNCHANGED server, CallStep(k) \/ Noise(k)
      PROVE  UNCHANGED places
  BY <1>8 DEF CallStep, Send, SendThrows, Answer, AnswerTooLarge, ReceiveThrows, Noise,
              InCall, server, accepting, working, places
<1>9. ASSUME NEW c \in Conns, UNCHANGED server, Break(c) PROVE UNCHANGED places
  BY <1>9 DEF Break, server, accepting, working, places
<1>10. QED
  BY <1>1, <1>2, <1>3, <1>4, <1>5, <1>6, <1>7, <1>8, <1>9
  DEF Next, ServerNext, StopStep, AcceptStep, WorkerStep, ClientNext, Moves

(* What a queue holds when it grows and when its head is taken. *)
LEMMA HoldsAppend ==
  ASSUME NEW T, NEW q \in Seq(T), NEW e \in T
  PROVE  /\ Append(q, e) \in Seq(T) /\ Len(Append(q, e)) = Len(q) + 1
         /\ \A c : Holds(Append(q, e), c) <=> Holds(q, c) \/ c = e
         /\ Once(q) /\ ~Holds(q, e) => Once(Append(q, e))
         /\ Once(q) /\ e \notin Conns => Once(Append(q, e))
<1>1. /\ Append(q, e) \in Seq(T) /\ Len(Append(q, e)) = Len(q) + 1 /\ Len(q) \in Nat
      /\ \A i \in 1..Len(q) : Append(q, e)[i] = q[i]
      /\ Append(q, e)[Len(q) + 1] = e
  BY AppendProperties, LenProperties
<1> DEFINE a == Append(q, e)
<1>2. ASSUME NEW c PROVE Holds(a, c) <=> Holds(q, c) \/ c = e
  BY ElementsAppend DEF Holds
<1> HIDE DEF a
<1>3. ASSUME Once(q), ~Holds(q, e) \/ e \notin Conns PROVE Once(a)
  <2> SUFFICES ASSUME NEW i \in 1..Len(a), NEW j \in 1..Len(a), a[i] = a[j], a[i] \in Conns
               PROVE  i = j
    BY DEF Once
  <2>1. (i \in 1..Len(q) \/ i = Len(q) + 1) /\ (j \in 1..Len(q) \/ j = Len(q) + 1)
    BY <1>1 DEF a
  <2>2. /\ \A n \in 1..Len(q) : a[n] = q[n]
        /\ a[Len(q) + 1] = e
    BY <1>1 DEF a
  <2>3. CASE i \in 1..Len(q) /\ j \in 1..Len(q)
    BY <1>3, <2>2, <2>3 DEF Once
  <2>4. CASE i = Len(q) + 1 /\ j \in 1..Len(q)
    BY <1>3, <2>2, <2>4 DEF Holds
  <2>5. CASE i \in 1..Len(q) /\ j = Len(q) + 1
    BY <1>3, <2>2, <2>5 DEF Holds
  <2>6. QED  BY <2>1, <2>3, <2>4, <2>5
<1>4. QED  BY <1>1, <1>2, <1>3 DEF a

\* Taking the head of a duplicate-free queue removes that element and no
\* other.
LEMMA HoldsTail ==
  ASSUME NEW T, NEW q \in Seq(T), q # << >>
  PROVE  /\ Tail(q) \in Seq(T) /\ Len(Tail(q)) = Len(q) - 1 /\ Head(q) \in T
         /\ Len(q) \in Nat /\ Len(q) >= 1 /\ Holds(q, Head(q))
         /\ \A c : Holds(q, c) <=> Holds(Tail(q), c) \/ c = Head(q)
         /\ Once(q) => Once(Tail(q))
         /\ Once(q) /\ Head(q) \in Conns => ~Holds(Tail(q), Head(q))
<1>1. /\ Tail(q) \in Seq(T) /\ Len(Tail(q)) = Len(q) - 1 /\ Len(q) \in Nat
      /\ Head(q) \in T /\ Head(q) = q[1] /\ Len(q) # 0
      /\ \A i \in 1..Len(Tail(q)) : Tail(q)[i] = q[i + 1]
  BY HeadTailProperties, LenProperties, EmptySeq
<1> DEFINE t == Tail(q)
           h == Head(q)
<1>2. ASSUME NEW c PROVE Holds(q, c) <=> Holds(t, c) \/ c = h
  BY ElementsTail DEF Holds
<1> HIDE DEF t, h
<1>3. \A i \in 1..Len(t) : /\ t[i] = q[i + 1] /\ i + 1 \in 1..Len(q) /\ i + 1 # 1
                           /\ i \in Nat
  BY <1>1 DEF t
<1>4. ASSUME Once(q) PROVE Once(t)
  <2> SUFFICES ASSUME NEW i \in 1..Len(t), NEW j \in 1..Len(t), t[i] = t[j], t[i] \in Conns
               PROVE  i = j
    BY DEF Once
  <2>1. q[i + 1] = q[j + 1] /\ q[i + 1] \in Conns
    BY <1>3
  <2>2. i + 1 = j + 1
    BY <1>3, <1>4, <2>1 DEF Once
  <2>3. QED  BY <1>3, <2>2
<1>5. 1 \in 1..Len(q) /\ q[1] = h
  BY <1>1 DEF h
<1>6. ASSUME Once(q), h \in Conns, Holds(t, h) PROVE FALSE
  <2>1. PICK i \in 1..Len(t) : t[i] = h
    BY <1>6 DEF Holds
  <2>2. q[i + 1] = q[1] /\ q[i + 1] \in Conns /\ i + 1 \in 1..Len(q) /\ i + 1 # 1
    BY <1>3, <1>5, <1>6, <2>1
  <2>3. QED  BY <1>5, <1>6, <2>2 DEF Once
<1>7. Holds(q, h)
  BY <1>5 DEF Holds
<1>8. QED  BY <1>1, <1>2, <1>4, <1>6, <1>7 DEF t, h

(* The empty queue holds nothing. *)
LEMMA HoldsNothing == (\A c : ~Holds(<< >>, c)) /\ Once(<< >>)
<1>1. Len(<< >>) = 0 /\ \A i \in 1..0 : FALSE
  OBVIOUS
<1>2. QED  BY <1>1 DEF Holds, Once

(* The spots, one by one. *)
LEMMA AtSpot ==
  \A c : /\ At(c, "backlog") <=> Holds(backlog, c)
         /\ At(c, "accepted") <=> afd = c
         /\ At(c, "queued") <=> Holds(tasks, c)
         /\ At(c, "served") <=> InHand(c)
         /\ At(c, "closed") <=> c \in serverClosed
         /\ At(c, "dropped") <=> c \in dropped
  BY DEF At

(* A connection in one spot is in no other, and it has been made. *)
LEMMA OnlySpot ==
  ASSUME OneSpot, NEW c \in Conns, NEW s \in Spots, At(c, s)
  PROVE  c <= made /\ \A t \in Spots : At(c, t) <=> t = s
<1>1. CASE c <= made
  <2>1. PICK spot \in Spots : \A t \in Spots : At(c, t) <=> t = spot
    BY <1>1 DEF OneSpot
  <2>2. QED  BY <1>1, <2>1
<1>2. CASE ~(c <= made)
  BY <1>2 DEF OneSpot
<1>3. QED  BY <1>1, <1>2

(* Connections that change their spot together keep to one spot each. *)
LEMMA Relocate ==
  ASSUME OneSpot, made' = made, NEW H, NEW spot \in Spots,
         \A c \in Conns : c \in H => c <= made,
         \A c \in Conns : \A s \in Spots :
           At(c, s)' <=> IF c \in H THEN s = spot ELSE At(c, s)
  PROVE  OneSpot'
<1> SUFFICES ASSUME NEW c \in Conns
             PROVE  IF c <= made THEN \E p \in Spots : \A s \in Spots : At(c, s)' <=> s = p
                                 ELSE \A s \in Spots : ~At(c, s)'
  BY DEF OneSpot
<1>1. CASE c \in H
  <2>1. c <= made /\ \A s \in Spots : At(c, s)' <=> s = spot
    BY <1>1
  <2>2. QED  BY <2>1
<1>2. CASE c \notin H
  <2>1. \A s \in Spots : At(c, s)' <=> At(c, s)
    BY <1>2
  <2>2. QED  BY <2>1 DEF OneSpot
<1>3. QED  BY <1>1, <1>2

(* One connection moves: the gauge has to follow it. *)
LEMMA MoveOne ==
  ASSUME OneSpot, made' = made, NEW h \in Conns, NEW from \in Spots, NEW to \in Spots,
         At(h, from),
         \A c \in Conns : \A s \in Spots : At(c, s)' <=> IF c = h THEN s = to ELSE At(c, s)
  PROVE  /\ OneSpot' /\ Cardinality(Open) \in Nat
         /\ (from \in OpenSpots <=> to \in OpenSpots) =>
              Cardinality(Open') = Cardinality(Open)
         /\ (from \notin OpenSpots /\ to \in OpenSpots) =>
              Cardinality(Open') = Cardinality(Open) + 1
         /\ (from \in OpenSpots /\ to \notin OpenSpots) =>
              Cardinality(Open') = Cardinality(Open) - 1
<1>1. h <= made /\ \A s \in Spots : At(h, s) <=> s = from
  BY OnlySpot
<1>2. OneSpot'
  <2> DEFINE H == {h}
  <2>1. \A c \in Conns : \A s \in Spots :
          At(c, s)' <=> IF c \in H THEN s = to ELSE At(c, s)
    OBVIOUS
  <2>2. \A c \in Conns : c \in H => c <= made
    BY <1>1
  <2> HIDE DEF H
  <2>3. QED  BY <2>1, <2>2, Relocate
<1>3. OpenSpots \subseteq Spots
  BY DEF OpenSpots, Spots
<1>4. /\ h \in Open <=> from \in OpenSpots
      /\ h \in Open' <=> to \in OpenSpots
  BY <1>1, <1>3 DEF Open
<1>5. \A c \in Conns \ {h} : c \in Open <=> c \in Open'
  BY <1>3 DEF Open
<1>6. IsFiniteSet(Conns)
  BY FS_Interval, TaskServiceAssumption DEF Conns
<1>7. Open \in SUBSET Conns /\ Open' \in SUBSET Conns
  BY DEF Open
<1>8. QED  BY <1>2, <1>4, <1>5, <1>6, <1>7, CountUpdate

(* Accept takes the head of the backlog. *)
LEMMA AcceptPlaces ==
  ASSUME QueuesInv, LifeInv, PlaceInv, Accept
  PROVE  PlaceInv' /\ Cardinality(Open') = Cardinality(Open) + 1
<1> DEFINE h == Head(backlog)
<1>1. /\ backlog # << >> /\ backlog' = Tail(backlog) /\ afd' = h /\ apc = "accept"
      /\ UNCHANGED <<made, tasks, wfd, serverClosed, dropped>>
  BY DEF Accept, AcceptorOnly, working
<1>2. /\ h \in Conns /\ Holds(backlog, h) /\ Once(backlog') /\ ~Holds(backlog', h)
      /\ \A c : Holds(backlog, c) <=> Holds(backlog', c) \/ c = h
  BY <1>1, HoldsTail DEF QueuesInv, PlaceInv
<1> HIDE DEF h
<1>3. afd = 0 /\ \A c \in Conns : c # 0
  BY <1>1 DEF LifeInv, AcceptorInv, Conns
<1>4. At(h, "backlog") /\ "backlog" \in Spots /\ "accepted" \in Spots
  BY <1>2, AtSpot DEF Spots
<1>5. \A s \in Spots : At(h, s) <=> s = "backlog"
  BY <1>2, <1>4, OnlySpot DEF PlaceInv
<1>6. ASSUME NEW c \in Conns, NEW s \in Spots
      PROVE  At(c, s)' <=> IF c = h THEN s = "accepted" ELSE At(c, s)
  <2>1. /\ s = "backlog" => (At(c, s)' <=> Holds(backlog', c))
        /\ s = "accepted" => (At(c, s)' <=> c = h)
        /\ s \notin {"backlog", "accepted"} => (At(c, s)' <=> At(c, s))
    BY <1>1 DEF At, InHand
  <2>2. /\ s = "backlog" => (At(c, s) <=> Holds(backlog, c))
        /\ s = "accepted" => ~At(c, s)
    BY <1>3 DEF At
  <2>3. QED  BY <1>2, <1>5, <2>1, <2>2
<1>7. OneSpot' /\ Cardinality(Open') = Cardinality(Open) + 1
  BY <1>1, <1>2, <1>4, <1>6, MoveOne DEF PlaceInv, OpenSpots
<1>9. (Once(tasks) /\ OnceInHand)'
  BY <1>1 DEF PlaceInv, OnceInHand, Once
<1>10. QED  BY <1>2, <1>7, <1>9 DEF PlaceInv

(* A full pool drops the connection, and enqueue throws or retries. *)
LEMMA RefusedPlaces ==
  ASSUME TypeOK, LifeInv, PlaceInv, EnqueueRefused
  PROVE  PlaceInv' /\ Cardinality(Open') = Cardinality(Open)
<1> DEFINE h == afd
<1>1. /\ dropped' = dropped \cup {h} /\ afd' = 0 /\ apc = "enqueue"
      /\ UNCHANGED <<made, backlog, tasks, wfd, serverClosed>>
  BY DEF EnqueueRefused, AcceptorOnly, working, net
<1>2. h \in Conns /\ \A c \in Conns : c # 0
  BY <1>1 DEF LifeInv, AcceptorInv, TypeOK, Conns
<1>4. At(h, "accepted") /\ "accepted" \in Spots /\ "dropped" \in Spots
  BY AtSpot DEF Spots
<1>5. \A s \in Spots : At(h, s) <=> s = "accepted"
  BY <1>2, <1>4, OnlySpot DEF PlaceInv
<1>6. ASSUME NEW c \in Conns, NEW s \in Spots
      PROVE  At(c, s)' <=> IF c = h THEN s = "dropped" ELSE At(c, s)
  <2>1. /\ s = "accepted" => ~At(c, s)'
        /\ s = "dropped" => (At(c, s)' <=> c \in dropped \/ c = h)
        /\ s \notin {"dropped", "accepted"} => (At(c, s)' <=> At(c, s))
    BY <1>1, <1>2 DEF At, InHand
  <2>2. /\ s = "accepted" => (At(c, s) <=> c = h)
        /\ s = "dropped" => (At(c, s) <=> c \in dropped)
    BY DEF At
  <2>3. QED  BY <1>5, <2>1, <2>2
<1> HIDE DEF h
<1>7. OneSpot' /\ Cardinality(Open') = Cardinality(Open)
  BY <1>1, <1>2, <1>4, <1>6, MoveOne DEF PlaceInv, OpenSpots
<1>9. (Once(backlog) /\ Once(tasks) /\ OnceInHand)'
  BY <1>1 DEF PlaceInv, OnceInHand, Once
<1>10. QED  BY <1>7, <1>9 DEF PlaceInv

(* The pool queues the connection. *)
LEMMA EnqueuePlaces ==
  ASSUME TypeOK, QueuesInv, LifeInv, PlaceInv, Enqueue
  PROVE  PlaceInv' /\ Cardinality(Open') = Cardinality(Open)
<1> DEFINE h == afd
<1>1. /\ tasks' = Append(tasks, h) /\ afd' = 0 /\ apc = "enqueue"
      /\ UNCHANGED <<made, backlog, dropped, wfd, serverClosed>>
  BY DEF Enqueue, AcceptorOnly, working, net
<1>2. h \in Conns /\ h \in Conns \cup {EmptyFn} /\ \A c \in Conns : c # 0
  BY <1>1 DEF LifeInv, AcceptorInv, TypeOK, Conns
<1>4. At(h, "accepted") /\ "accepted" \in Spots /\ "queued" \in Spots
  BY AtSpot DEF Spots
<1>5. \A s \in Spots : At(h, s) <=> s = "accepted"
  BY <1>2, <1>4, OnlySpot DEF PlaceInv
<1>6. ~Holds(tasks, h)
  BY <1>4, <1>5, AtSpot
<1>7. Once(tasks') /\ \A c : Holds(tasks', c) <=> Holds(tasks, c) \/ c = h
  BY <1>1, <1>2, <1>6, HoldsAppend DEF QueuesInv, PlaceInv
<1>8. ASSUME NEW c \in Conns, NEW s \in Spots
      PROVE  At(c, s)' <=> IF c = h THEN s = "queued" ELSE At(c, s)
  <2>1. /\ s = "accepted" => ~At(c, s)'
        /\ s = "queued" => (At(c, s)' <=> Holds(tasks', c))
        /\ s \notin {"queued", "accepted"} => (At(c, s)' <=> At(c, s))
    BY <1>1, <1>2 DEF At, InHand
  <2>2. /\ s = "accepted" => (At(c, s) <=> c = h)
        /\ s = "queued" => (At(c, s) <=> Holds(tasks, c))
    BY DEF At
  <2>3. QED  BY <1>5, <1>7, <2>1, <2>2
<1> HIDE DEF h
<1>9. OneSpot' /\ Cardinality(Open') = Cardinality(Open)
  BY <1>1, <1>2, <1>4, <1>8, MoveOne DEF PlaceInv, OpenSpots
<1>11. (Once(backlog) /\ OnceInHand)'
  BY <1>1 DEF PlaceInv, OnceInHand, Once
<1>12. QED  BY <1>7, <1>9, <1>11 DEF PlaceInv

(* Nothing moves. *)
LEMMA SamePlaces ==
  ASSUME PlaceInv, made' = made,
         \A c \in Conns : \A s \in Spots : At(c, s)' <=> At(c, s),
         Once(backlog'), Once(tasks'), wfd' = wfd
  PROVE  PlaceInv' /\ Cardinality(Open') = Cardinality(Open)
<1>1. OneSpot'
  <2> SUFFICES ASSUME NEW c \in Conns
               PROVE  IF c <= made THEN \E p \in Spots : \A s \in Spots : At(c, s)' <=> s = p
                                   ELSE \A s \in Spots : ~At(c, s)'
    BY DEF OneSpot
  <2>1. \A s \in Spots : At(c, s)' <=> At(c, s)
    OBVIOUS
  <2>2. QED  BY <2>1 DEF PlaceInv, OneSpot
<1>2. Open' = Open
  <2>1. OpenSpots \subseteq Spots
    BY DEF OpenSpots, Spots
  <2>2. QED  BY <2>1 DEF Open
<1>3. OnceInHand'
  BY DEF PlaceInv, OnceInHand
<1>4. QED  BY <1>1, <1>2, <1>3 DEF PlaceInv

(* The empty function that a retry queues, and a worker takes, is no       *)
(* connection.                                                             *)
LEMMA EmptyFnPlaces ==
  ASSUME QueuesInv, PlaceInv,
         EnqueueRetries \/ \E w \in Workers : TakeEmptyFn(w)
  PROVE  PlaceInv' /\ Cardinality(Open') = Cardinality(Open)
<1>0. /\ EmptyFn \in Conns \cup {EmptyFn} /\ EmptyFn \notin Conns
      /\ \A c \in Conns : c # EmptyFn
  BY TaskServiceAssumption
<1>1. UNCHANGED <<backlog, made, afd, wfd, serverClosed, dropped>>
  BY DEF EnqueueRetries, TakeEmptyFn, Take, AcceptorOnly, net, accepting, working
<1>2. Once(tasks') /\ \A c \in Conns : Holds(tasks', c) <=> Holds(tasks, c)
  <2>1. CASE EnqueueRetries
    BY <1>0, <2>1, HoldsAppend DEF EnqueueRetries, QueuesInv, PlaceInv
  <2>2. CASE \E w \in Workers : TakeEmptyFn(w)
    <3>1. tasks # << >> /\ Head(tasks) = EmptyFn /\ tasks' = Tail(tasks)
      BY <2>2 DEF TakeEmptyFn, Take
    <3>2. Once(tasks') /\ \A c : Holds(tasks, c) <=> Holds(tasks', c) \/ c = EmptyFn
      BY <3>1, HoldsTail DEF QueuesInv, PlaceInv
    <3>3. QED  BY <1>0, <3>2
  <2>3. QED  BY <2>1, <2>2
<1>3. \A c \in Conns : \A s \in Spots : At(c, s)' <=> At(c, s)
  BY <1>1, <1>2 DEF At, InHand
<1>4. Once(backlog')
  BY <1>1 DEF PlaceInv
<1>5. QED  BY <1>1, <1>2, <1>3, <1>4, SamePlaces

(* A worker takes the connection at the head of the queue. *)
LEMMA TakePlaces ==
  ASSUME TypeOK, QueuesInv, LifeInv, PlaceInv, NEW w \in Workers, TakeConnection(w)
  PROVE  PlaceInv' /\ Cardinality(Open') = Cardinality(Open)
<1> DEFINE h == Head(tasks)
<1>1. /\ tasks # << >> /\ h # EmptyFn /\ tasks' = Tail(tasks) /\ wpc[w] = "idle"
      /\ wfd' = [wfd EXCEPT ![w] = h] /\ wfd \in [Workers -> {0} \cup Conns]
      /\ UNCHANGED <<made, backlog, afd, serverClosed, dropped>>
  BY DEF TakeConnection, Take, accepting, net, TypeOK
<1>2. /\ h \in Conns /\ Holds(tasks, h) /\ Once(tasks') /\ ~Holds(tasks', h)
      /\ \A c : Holds(tasks, c) <=> Holds(tasks', c) \/ c = h
  <2>1. h \in Conns
    BY <1>1, HoldsTail DEF QueuesInv
  <2>2. QED  BY <1>1, <2>1, HoldsTail DEF QueuesInv, PlaceInv
<1> HIDE DEF h
<1>3. wfd[w] = 0 /\ \A c \in Conns : c # 0
  BY <1>1 DEF LifeInv, WorkerInv, Conns
<1>4. wfd'[w] = h /\ \A v \in Workers \ {w} : wfd'[v] = wfd[v]
  BY <1>1
<1>5. \A c \in Conns : InHand(c)' <=> InHand(c) \/ c = h
  BY <1>3, <1>4 DEF InHand
<1>6. At(h, "queued") /\ "queued" \in Spots /\ "served" \in Spots
  BY <1>2, AtSpot DEF Spots
<1>7. \A s \in Spots : At(h, s) <=> s = "queued"
  BY <1>2, <1>6, OnlySpot DEF PlaceInv
<1>8. ASSUME NEW c \in Conns, NEW s \in Spots
      PROVE  At(c, s)' <=> IF c = h THEN s = "served" ELSE At(c, s)
  <2>1. /\ s = "queued" => (At(c, s)' <=> Holds(tasks', c))
        /\ s = "served" => (At(c, s)' <=> InHand(c)')
        /\ s \notin {"queued", "served"} => (At(c, s)' <=> At(c, s))
    BY <1>1 DEF At
  <2>2. /\ s = "queued" => (At(c, s) <=> Holds(tasks, c))
        /\ s = "served" => (At(c, s) <=> InHand(c))
    BY DEF At
  <2>3. QED  BY <1>2, <1>5, <1>7, <2>1, <2>2
<1>9. OneSpot' /\ Cardinality(Open') = Cardinality(Open)
  BY <1>1, <1>2, <1>6, <1>8, MoveOne DEF PlaceInv, OpenSpots
<1>11. ~InHand(h)
  BY <1>6, <1>7, AtSpot
<1>12. OnceInHand'
  <2>1. \A v \in Workers : wfd[v] # h
    BY <1>11 DEF InHand
  <2>2. QED  BY <1>4, <2>1 DEF PlaceInv, OnceInHand
<1>13. Once(backlog')
  BY <1>1 DEF PlaceInv
<1>14. QED  BY <1>2, <1>9, <1>12, <1>13 DEF PlaceInv

(* A worker closes its connection, and the gauge goes down. *)
LEMMA ClosePlaces ==
  ASSUME TypeOK, LifeInv, PlaceInv, NEW w \in Workers, CloseConnection(w)
  PROVE  PlaceInv' /\ Cardinality(Open') = Cardinality(Open) - 1
<1> DEFINE h == wfd[w]
<1>1. /\ serverClosed' = serverClosed \cup {h} /\ wpc[w] = "close"
      /\ wfd' = [wfd EXCEPT ![w] = 0] /\ wfd \in [Workers -> {0} \cup Conns]
      /\ UNCHANGED <<made, backlog, afd, tasks, dropped>>
  BY DEF CloseConnection, Worker, accepting, netElse, TypeOK
<1>2. h \in Conns /\ \A c \in Conns : c # 0
  <2>1. h # 0 /\ h \in {0} \cup Conns
    BY <1>1 DEF LifeInv, WorkerInv
  <2>2. QED  BY <2>1 DEF Conns
<1>3. wfd'[w] = 0 /\ \A v \in Workers \ {w} : wfd'[v] = wfd[v] /\ wfd[v] # h
  <2>1. wfd'[w] = 0 /\ \A v \in Workers \ {w} : wfd'[v] = wfd[v]
    BY <1>1
  <2>2. \A v \in Workers \ {w} : wfd[v] # h
    BY <1>2 DEF PlaceInv, OnceInHand
  <2>3. QED  BY <2>1, <2>2
<1>4. InHand(h)
  BY DEF InHand
<1>h. wfd[w] = h
  OBVIOUS
<1> HIDE DEF h
<1>5. \A c \in Conns : InHand(c)' <=> InHand(c) /\ c # h
  BY <1>2, <1>3, <1>h DEF InHand
<1>6. At(h, "served") /\ "served" \in Spots /\ "closed" \in Spots
  BY <1>4, AtSpot DEF Spots
<1>7. \A s \in Spots : At(h, s) <=> s = "served"
  BY <1>2, <1>6, OnlySpot DEF PlaceInv
<1>8. ASSUME NEW c \in Conns, NEW s \in Spots
      PROVE  At(c, s)' <=> IF c = h THEN s = "closed" ELSE At(c, s)
  <2>1. /\ s = "closed" => (At(c, s)' <=> c \in serverClosed \/ c = h)
        /\ s = "served" => (At(c, s)' <=> InHand(c)')
        /\ s \notin {"closed", "served"} => (At(c, s)' <=> At(c, s))
    BY <1>1 DEF At
  <2>2. /\ s = "closed" => (At(c, s) <=> c \in serverClosed)
        /\ s = "served" => (At(c, s) <=> InHand(c))
    BY DEF At
  <2>3. QED  BY <1>5, <1>7, <2>1, <2>2
<1>9. OneSpot' /\ Cardinality(Open') = Cardinality(Open) - 1
  BY <1>1, <1>2, <1>6, <1>8, MoveOne DEF PlaceInv, OpenSpots
<1>11. OnceInHand'
  BY <1>3 DEF PlaceInv, OnceInHand
<1>12. (Once(backlog) /\ Once(tasks))'
  BY <1>1 DEF PlaceInv, Once
<1>13. QED  BY <1>9, <1>11, <1>12 DEF PlaceInv

(* A connection that its client has given up may never be accepted. *)
LEMMA AcceptFailsPlaces ==
  ASSUME QueuesInv, PlaceInv, AcceptFails
  PROVE  PlaceInv' /\ Cardinality(Open') = Cardinality(Open)
<1>1. UNCHANGED <<made, afd, tasks, wfd, dropped>>
  BY DEF AcceptFails, AcceptorOnly, working
<1>2. CASE UNCHANGED <<backlog, serverClosed, broken>>
  <2>1. \A c \in Conns : \A s \in Spots : At(c, s)' <=> At(c, s)
    BY <1>1, <1>2 DEF At, InHand
  <2>2. Once(backlog') /\ Once(tasks')
    BY <1>1, <1>2 DEF PlaceInv
  <2>3. QED  BY <1>1, <2>1, <2>2, SamePlaces
<1>3. CASE /\ backlog # << >> /\ backlog' = Tail(backlog)
           /\ serverClosed' = serverClosed \cup {Head(backlog)}
  <2> DEFINE h == Head(backlog)
  <2>1. /\ h \in Conns /\ Holds(backlog, h) /\ Once(backlog') /\ ~Holds(backlog', h)
        /\ \A c : Holds(backlog, c) <=> Holds(backlog', c) \/ c = h
    BY <1>3, HoldsTail DEF QueuesInv, PlaceInv
  <2>2. serverClosed' = serverClosed \cup {h}
    BY <1>3
  <2> HIDE DEF h
  <2>3. At(h, "backlog") /\ "backlog" \in Spots /\ "closed" \in Spots
    BY <2>1, AtSpot DEF Spots
  <2>4. \A s \in Spots : At(h, s) <=> s = "backlog"
    BY <2>1, <2>3, OnlySpot DEF PlaceInv
  <2>5. ASSUME NEW c \in Conns, NEW s \in Spots
        PROVE  At(c, s)' <=> IF c = h THEN s = "closed" ELSE At(c, s)
    <3>1. /\ s = "backlog" => (At(c, s)' <=> Holds(backlog', c))
          /\ s = "closed" => (At(c, s)' <=> c \in serverClosed \/ c = h)
          /\ s \notin {"backlog", "closed"} => (At(c, s)' <=> At(c, s))
      BY <1>1, <2>2 DEF At, InHand
    <3>2. /\ s = "backlog" => (At(c, s) <=> Holds(backlog, c))
          /\ s = "closed" => (At(c, s) <=> c \in serverClosed)
      BY DEF At
    <3>3. QED  BY <2>1, <2>4, <3>1, <3>2
  <2>6. OneSpot' /\ Cardinality(Open') = Cardinality(Open)
    BY <1>1, <2>1, <2>3, <2>5, MoveOne DEF PlaceInv, OpenSpots
    <2>8. (Once(tasks) /\ OnceInHand)'
    BY <1>1 DEF PlaceInv, OnceInHand, Once
  <2>9. QED  BY <2>1, <2>6, <2>8 DEF PlaceInv
<1>4. QED  BY <1>2, <1>3 DEF AcceptFails

(* What is in a queue is what it holds. *)
LEMMA RangeHolds ==
  ASSUME NEW T, NEW q \in Seq(T)
  PROVE  \A c : c \in Range(q) <=> Holds(q, c)
<1>1. DOMAIN q = 1..Len(q)
  BY LenProperties
<1>2. QED  BY <1>1 DEF Range, Holds

(* Closing the listening socket resets what was not accepted. *)
LEMMA StopClosesPlaces ==
  ASSUME QueuesInv, PlaceInv, StopCloses
  PROVE  PlaceInv' /\ Cardinality(Open') = Cardinality(Open)
<1> DEFINE H == Range(backlog)
<1>1. /\ backlog' = << >> /\ serverClosed' = serverClosed \cup H
      /\ UNCHANGED <<made, afd, tasks, wfd, dropped>>
  BY DEF StopCloses, MainOnly, accepting, working, counters
<1>2. \A c : c \in H <=> Holds(backlog, c)
  BY RangeHolds DEF QueuesInv
<1>3. Once(backlog') /\ \A c : ~Holds(backlog', c)
  BY <1>1, HoldsNothing
<1> HIDE DEF H
<1>4. "backlog" \in Spots /\ "closed" \in Spots
  BY DEF Spots
<1>5. ASSUME NEW c \in Conns, c \in H
      PROVE  c <= made /\ \A s \in Spots : At(c, s) <=> s = "backlog"
  <2>1. At(c, "backlog")
    BY <1>2, <1>5, AtSpot
  <2>2. QED  BY <1>4, <2>1, OnlySpot DEF PlaceInv
<1>6. ASSUME NEW c \in Conns, NEW s \in Spots
      PROVE  At(c, s)' <=> IF c \in H THEN s = "closed" ELSE At(c, s)
  <2>1. /\ s = "backlog" => ~At(c, s)'
        /\ s = "closed" => (At(c, s)' <=> c \in serverClosed \/ c \in H)
        /\ s \notin {"backlog", "closed"} => (At(c, s)' <=> At(c, s))
    BY <1>1, <1>3 DEF At, InHand
  <2>2. /\ s = "backlog" => (At(c, s) <=> c \in H)
        /\ s = "closed" => (At(c, s) <=> c \in serverClosed)
    BY <1>2 DEF At
  <2>3. QED  BY <1>5, <2>1, <2>2
<1>7. OneSpot'
  <2>1. \A c \in Conns : c \in H => c <= made
    BY <1>5
  <2>2. \A c \in Conns : \A s \in Spots :
          At(c, s)' <=> IF c \in H THEN s = "closed" ELSE At(c, s)
    BY <1>6
  <2>3. OneSpot /\ made' = made
    BY <1>1 DEF PlaceInv
  <2>4. QED  BY <1>4, <2>1, <2>2, <2>3, Relocate
<1>8. Open' = Open
  <2>1. OpenSpots \subseteq Spots /\ "backlog" \notin OpenSpots /\ "closed" \notin OpenSpots
    BY DEF OpenSpots, Spots
  <2>2. \A c \in Conns : (\E s \in OpenSpots : At(c, s)') <=> (\E s \in OpenSpots : At(c, s))
    BY <1>5, <1>6, <2>1
  <2>3. QED  BY <2>2 DEF Open
<1>9. (Once(tasks) /\ OnceInHand)'
  BY <1>1 DEF PlaceInv, OnceInHand, Once
<1>10. QED  BY <1>3, <1>7, <1>8, <1>9 DEF PlaceInv

(* A new connection goes to the end of the backlog. *)
LEMMA ConnectPlaces ==
  ASSUME TypeOK, QueuesInv, PlaceInv, NEW k \in Clients, connect(k), UNCHANGED server
  PROVE  PlaceInv' /\ Cardinality(Open') = Cardinality(Open)
<1> DEFINE h == made + 1
<1>1. /\ made \in Nat /\ h \in Conns /\ ~(h <= made) /\ made' = h
      /\ backlog' = Append(backlog, h)
      /\ UNCHANGED <<afd, tasks, wfd, serverClosed, dropped>>
  <2>1. made' = h /\ backlog' = Append(backlog, h) /\ made < MaxConns
        /\ UNCHANGED <<afd, tasks, wfd, serverClosed, dropped>>
    BY DEF connect, server, counters, accepting, working
  <2>2. made \in Nat /\ h \in Conns
    BY <2>1, TaskServiceAssumption DEF TypeOK, Conns
  <2>3. QED  BY <2>1, <2>2
<1>2. \A s \in Spots : ~At(h, s)
  BY <1>1 DEF PlaceInv, OneSpot
<1>h. \A c \in Conns : c <= h <=> c <= made \/ c = h
  BY <1>1 DEF Conns
<1> HIDE DEF h
<1>3. "backlog" \in Spots
  BY DEF Spots
<1>4. ~Holds(backlog, h)
  BY <1>2, <1>3, AtSpot
<1>5. Once(backlog') /\ \A c : Holds(backlog', c) <=> Holds(backlog, c) \/ c = h
  BY <1>1, <1>4, HoldsAppend DEF QueuesInv, PlaceInv
<1>6. ASSUME NEW c \in Conns, NEW s \in Spots
      PROVE  At(c, s)' <=> IF c = h THEN s = "backlog" ELSE At(c, s)
  <2>1. /\ s = "backlog" => (At(c, s)' <=> Holds(backlog', c))
        /\ s # "backlog" => (At(c, s)' <=> At(c, s))
    BY <1>1 DEF At, InHand
  <2>2. s = "backlog" => (At(c, s) <=> Holds(backlog, c))
    BY DEF At
  <2>3. QED  BY <1>2, <1>5, <2>1, <2>2
<1>7. OneSpot'
  <2> SUFFICES ASSUME NEW c \in Conns
               PROVE  IF c <= made' THEN \E p \in Spots : \A s \in Spots : At(c, s)' <=> s = p
                                    ELSE \A s \in Spots : ~At(c, s)'
    BY DEF OneSpot
  <2>1. CASE c = h
    <3>1. \A s \in Spots : At(c, s)' <=> s = "backlog"
      BY <1>6, <2>1
    <3>2. c <= made'
      BY <1>1, <1>h, <2>1
    <3>3. QED  BY <1>3, <3>1, <3>2
  <2>2. CASE c # h
    <3>1. \A s \in Spots : At(c, s)' <=> At(c, s)
      BY <1>6, <2>2
    <3>2. c <= made' <=> c <= made
      BY <1>1, <1>h, <2>2
    <3>3. QED  BY <3>1, <3>2 DEF PlaceInv, OneSpot
  <2>3. QED  BY <2>1, <2>2
<1>8. Open' = Open
  <2>1. OpenSpots \subseteq Spots /\ "backlog" \notin OpenSpots
    BY DEF OpenSpots, Spots
  <2>2. \A c \in Conns : (\E s \in OpenSpots : At(c, s)') <=> (\E s \in OpenSpots : At(c, s))
    BY <1>2, <1>6, <2>1
  <2>3. QED  BY <2>2 DEF Open
<1>9. (Once(tasks) /\ OnceInHand)'
  BY <1>1 DEF PlaceInv, OnceInHand, Once
<1>10. QED  BY <1>5, <1>7, <1>8, <1>9 DEF PlaceInv

(* Every step leaves every connection in one place.  Accept opens one, and *)
(* CloseConnection closes one.                                             *)
LEMMA PlaceStep ==
  ASSUME TypeOK, QueuesInv, LifeInv, PlaceInv, [Next]_vars
  PROVE  /\ PlaceInv'
         /\ Accept => Cardinality(Open') = Cardinality(Open) + 1
         /\ \A w \in Workers :
              CloseConnection(w) => Cardinality(Open') = Cardinality(Open) - 1
         /\ \/ Accept \/ \E w \in Workers : CloseConnection(w)
            \/ Cardinality(Open') = Cardinality(Open)
<1>1. ASSUME UNCHANGED places PROVE PlaceInv' /\ Cardinality(Open') = Cardinality(Open)
  <2>1. UNCHANGED <<backlog, made, afd, tasks, wfd, serverClosed, dropped>>
    BY <1>1 DEF places
  <2>2. \A c \in Conns : \A s \in Spots : At(c, s)' <=> At(c, s)
    BY <2>1 DEF At, InHand
  <2>3. Once(backlog') /\ Once(tasks')
    BY <2>1 DEF PlaceInv
  <2>4. QED  BY <2>1, <2>2, <2>3, SamePlaces
<1>2. ASSUME \/ StopCloses \/ AcceptFails \/ EnqueueRefused \/ Enqueue \/ EnqueueRetries
             \/ \E w \in Workers : TakeConnection(w) \/ TakeEmptyFn(w)
             \/ \E k \in Clients : connect(k) /\ UNCHANGED server
      PROVE  PlaceInv' /\ Cardinality(Open') = Cardinality(Open)
  BY <1>2, RefusedPlaces, EnqueuePlaces, EmptyFnPlaces, TakePlaces, AcceptFailsPlaces,
     StopClosesPlaces, ConnectPlaces
<1>3. QED  BY <1>1, <1>2, AcceptPlaces, ClosePlaces, QuietPlaces DEF Moves

-----------------------------------------------------------------------------
(***************************************************************************)
(* Start, stop, threads and tasks                                          *)
(***************************************************************************)

(* The steps of the acceptor, of the workers and of the clients leave the  *)
(* life of the server to its owner.                                        *)
LEMMA NotTheOwner ==
  ASSUME \/ AcceptStep \/ \E w \in Workers : WorkerStep(w)
         \/ (\E k \in Clients : connect(k) \/ ConnectThrows(k) \/ disconnect(k) \/ submit(k)
                                \/ ping(k) \/ CallStep(k) \/ Noise(k)) /\ UNCHANGED server
         \/ (\E c \in Conns : Break(c)) /\ UNCHANGED server
  PROVE  main' = main /\ listening' = listening /\ UNCHANGED <<starts, running_, server_fd_>>
<1>1. ASSUME AcceptStep PROVE UNCHANGED <<main, listening, starts, running_, server_fd_>>
  BY <1>1 DEF AcceptStep, LoadRunning, LoadFd, AcceptorLoads, Accept, AcceptFails,
              CountAccepted, CountActive, EnqueueRefused, Enqueue, EnqueueRetries,
              EnqueueThrows, AcceptorOnly, net
<1>2. ASSUME NEW w \in Workers, WorkerStep(w)
      PROVE  UNCHANGED <<main, listening, starts, running_, server_fd_>>
  BY <1>2 DEF WorkerStep, TakeConnection, TakeEmptyFn, Take, ReleaseSlot, CallEmptyFn,
              LoopTest, ReceiveRequest, ReceiveEnds, SendPong, Handle, Respond, RespondFails,
              CloseConnection, Uncount, Worker, netElse, net
<1>3. ASSUME NEW k \in Clients, UNCHANGED server,
             connect(k) \/ ConnectThrows(k) \/ disconnect(k) \/ submit(k) \/ ping(k)
      PROVE  UNCHANGED <<main, listening, starts, running_, server_fd_>>
  BY <1>3 DEF connect, ConnectThrows, disconnect, submit, ping, Call, net, server
<1>4. ASSUME NEW k \in Clients, UNCHANGED server, CallStep(k) \/ Noise(k)
      PROVE  UNCHANGED <<main, listening, starts, running_, server_fd_>>
  BY <1>4 DEF CallStep, Send, SendThrows, Answer, AnswerTooLarge, ReceiveThrows, Noise,
              InCall, server
<1>5. ASSUME NEW c \in Conns, UNCHANGED server, Break(c)
      PROVE  UNCHANGED <<main, listening, starts, running_, server_fd_>>
  BY <1>5 DEF Break, server
<1>6. QED  BY <1>1, <1>2, <1>3, <1>4, <1>5

\* Every step keeps the backlog empty without a listening socket, and the
\* socket closed once stop() joins.
LEMMA ListenStep ==
  ASSUME TypeOK, QueuesInv, ListenInv, [Next]_vars
  PROVE  ListenInv'
<1>1. CASE start
  <2>1. listening' = starts + 1 /\ main' = "up" /\ starts \in 0..MaxStarts
    BY <1>1 DEF start, setup_socket, QueuesInv
  <2>2. listening' # NoFd
    BY <2>1, TaskServiceAssumption DEF NoFd
  <2>3. QED  BY <2>1, <2>2 DEF ListenInv
<1>2. CASE stop \/ StopExchanges \/ StopJoins \/ Destroy \/ Destroyed
  BY <1>2 DEF stop, StopExchanges, StopJoins, Destroy, Destroyed, MainOnly, net, ListenInv
<1>3. CASE StopCloses
  BY <1>3 DEF StopCloses, ListenInv
<1>4. ASSUME main' = main, listening' = listening,
             backlog = << >> => backlog' = << >> \/ listening # NoFd
      PROVE  ListenInv'
  BY <1>4 DEF ListenInv
<1>5. CASE AcceptStep
  <2>1. backlog' = backlog \/ backlog # << >>
    BY <1>5 DEF AcceptStep, LoadRunning, LoadFd, AcceptorLoads, Accept, AcceptFails,
                CountAccepted, CountActive, EnqueueRefused, Enqueue, EnqueueRetries,
                EnqueueThrows, net
  <2>2. QED  BY <1>4, <1>5, <2>1, NotTheOwner
<1>6. ASSUME NEW w \in Workers, WorkerStep(w) PROVE ListenInv'
  <2>1. backlog' = backlog
    BY <1>6 DEF WorkerStep, TakeConnection, TakeEmptyFn, Take, ReleaseSlot, CallEmptyFn,
                LoopTest, ReceiveRequest, ReceiveEnds, SendPong, Handle, Respond,
                RespondFails, CloseConnection, Uncount, netElse, net
  <2>2. QED  BY <1>4, <1>6, <2>1, NotTheOwner
<1>7. ASSUME NEW k \in Clients, UNCHANGED server,
             connect(k) \/ ConnectThrows(k) \/ disconnect(k) \/ submit(k) \/ ping(k)
      PROVE  ListenInv'
  <2>1. backlog' = backlog \/ listening # NoFd
    BY <1>7 DEF connect, ConnectThrows, disconnect, submit, ping, Call, net
  <2>2. QED  BY <1>4, <1>7, <2>1, NotTheOwner
<1>8. ASSUME NEW k \in Clients, UNCHANGED server, CallStep(k) \/ Noise(k)
      PROVE  ListenInv'
  <2>1. backlog' = backlog
    BY <1>8 DEF CallStep, Send, SendThrows, Answer, AnswerTooLarge, ReceiveThrows, Noise,
                InCall
  <2>2. QED  BY <1>4, <1>8, <2>1, NotTheOwner
<1>9. ASSUME NEW c \in Conns, UNCHANGED server, Break(c) PROVE ListenInv'
  <2>1. backlog' = backlog
    BY <1>9 DEF Break
  <2>2. QED  BY <1>4, <1>9, <2>1, NotTheOwner
<1>10. CASE UNCHANGED vars
  BY <1>10 DEF vars, net, server, ListenInv
<1>11. QED
  BY <1>1, <1>2, <1>3, <1>5, <1>6, <1>7, <1>8, <1>9, <1>10
  DEF Next, ServerNext, StopStep, ClientNext

\* No accept thread is left once stop() has joined, and it holds a connection
\* exactly from its accept to its enqueue.
LEMMA AcceptorStep ==
  ASSUME QueuesInv, AcceptorInv, [Next]_vars
  PROVE  AcceptorInv'
<1>1. CASE start
  BY <1>1 DEF start, AcceptorInv
<1>2. CASE stop \/ StopExchanges \/ StopCloses \/ StopJoins \/ Destroy \/ Destroyed
  BY <1>2 DEF stop, StopExchanges, StopCloses, StopJoins, Destroy, Destroyed, MainOnly,
              accepting, AcceptorInv
<1>3. CASE LoadRunning \/ LoadFd \/ AcceptFails
  BY <1>3 DEF LoadRunning, LoadFd, AcceptorLoads, AcceptFails, AcceptorOnly, AcceptorInv
<1>4. CASE Accept
  <2>1. Head(backlog) \in Conns
    BY <1>4, HoldsTail DEF Accept, QueuesInv
  <2>2. Head(backlog) # 0
    BY <2>1 DEF Conns
  <2>3. QED  BY <1>4, <2>2 DEF Accept, AcceptorOnly, AcceptorInv
<1>5. CASE \/ CountAccepted \/ CountActive
           \/ EnqueueRefused \/ Enqueue \/ EnqueueRetries \/ EnqueueThrows
  BY <1>5 DEF CountAccepted, CountActive, EnqueueRefused, Enqueue, EnqueueRetries,
              EnqueueThrows, AcceptorOnly, AcceptorInv
<1>6. ASSUME UNCHANGED <<main, apc, afd>> PROVE AcceptorInv'
  BY <1>6 DEF AcceptorInv
<1>7. ASSUME NEW w \in Workers, WorkerStep(w) PROVE UNCHANGED <<main, apc, afd>>
  BY <1>7 DEF WorkerStep, TakeConnection, TakeEmptyFn, Take, ReleaseSlot, CallEmptyFn,
              LoopTest, ReceiveRequest, ReceiveEnds, SendPong, Handle, Respond, RespondFails,
              CloseConnection, Uncount, Worker, accepting
<1>8. CASE UNCHANGED server
  BY <1>6, <1>8 DEF server, accepting
<1>9. QED
  BY <1>1, <1>2, <1>3, <1>4, <1>5, <1>6, <1>7, <1>8
  DEF Next, ServerNext, StopStep, AcceptStep, vars

(* What a step of a worker does to the workers. *)
LEMMA WorkerMoves ==
  ASSUME TypeOK, NEW w \in Workers, NEW from, NEW to, Worker(w, from, to)
  PROVE  wpc[w] = from /\ wpc'[w] = to /\ \A v \in Workers \ {w} : wpc'[v] = wpc[v]
  BY DEF TypeOK, Worker

(* What taking a task does to them. *)
LEMMA TakeMoves ==
  ASSUME TypeOK, NEW w \in Workers, NEW to, Take(w, to)
  PROVE  wpc[w] = "idle" /\ wpc'[w] = to /\ \A v \in Workers \ {w} : wpc'[v] = wpc[v]
  BY DEF TypeOK, Take

\* Only the two steps of an empty function move workers to and from "empty",
\* and only the two that end a connection to and from "uncount".
LEMMA MarkedSteps ==
  ASSUME TypeOK, NEW w \in Workers, WorkerStep(w)
  PROVE  /\ \/ TakeEmptyFn(w) \/ CallEmptyFn(w)
            \/ \A v \in Workers : wpc'[v] = "empty" <=> wpc[v] = "empty"
         /\ \/ CloseConnection(w) \/ Uncount(w)
            \/ \A v \in Workers : wpc'[v] = "uncount" <=> wpc[v] = "uncount"
<1>1. ASSUME NEW from, NEW to, Worker(w, from, to), NEW at, from # at, to # at
      PROVE  \A v \in Workers : wpc'[v] = at <=> wpc[v] = at
  BY <1>1, WorkerMoves
<1>2. CASE TakeConnection(w) \/ TakeEmptyFn(w)
  BY <1>2, TakeMoves DEF TakeConnection, TakeEmptyFn
<1>3. CASE ReleaseSlot(w)
  BY <1>3 DEF ReleaseSlot, working
<1>4. CASE LoopTest(w) \/ ReceiveRequest(w) \/ ReceiveEnds(w) \/ SendPong(w) \/ Handle(w)
           \/ Respond(w) \/ RespondFails(w)
  <2>1. PICK from \in {"loop", "recv", "pong", "handle", "respond"},
             to \in {"loop", "recv", "pong", "handle", "respond", "close"} :
          Worker(w, from, to)
    BY <1>4 DEF LoopTest, ReceiveRequest, ReceiveEnds, SendPong, Handle, Respond,
                RespondFails
  <2>2. QED  BY <1>1, <2>1
<1>5. CASE CallEmptyFn(w)
  BY <1>1, <1>5 DEF CallEmptyFn
<1>6. CASE CloseConnection(w)
  BY <1>1, <1>6 DEF CloseConnection
<1>7. CASE Uncount(w)
  BY <1>1, <1>7 DEF Uncount
<1>8. QED  BY <1>2, <1>3, <1>4, <1>5, <1>6, <1>7 DEF WorkerStep

\* A worker has a connection exactly while it serves it.
LEMMA WorkersStep ==
  ASSUME TypeOK, QueuesInv, WorkerInv, [Next]_vars
  PROVE  WorkerInv'
<1>1. ASSUME UNCHANGED <<wpc, wfd>> PROVE WorkerInv'
  BY <1>1 DEF WorkerInv
<1>2. ASSUME NEW w \in Workers, NEW from, NEW to, Worker(w, from, to), wfd' = wfd,
             from \in {"idle", "empty", "uncount"} <=> to \in {"idle", "empty", "uncount"}
      PROVE  WorkerInv'
  <2>1. wpc[w] = from /\ wpc'[w] = to /\ \A v \in Workers \ {w} : wpc'[v] = wpc[v]
    BY <1>2, WorkerMoves
  <2>2. QED  BY <1>2, <2>1 DEF WorkerInv
<1>3. ASSUME NEW w \in Workers, TakeConnection(w) PROVE WorkerInv'
  <2>1. Head(tasks) \in Conns
    BY <1>3, HoldsTail DEF TakeConnection, Take, QueuesInv
  <2>2. wpc'[w] = "loop" /\ \A v \in Workers \ {w} : wpc'[v] = wpc[v]
    BY <1>3, TakeMoves DEF TakeConnection
  <2>3. wfd'[w] = Head(tasks) /\ \A v \in Workers \ {w} : wfd'[v] = wfd[v]
    BY <1>3 DEF TakeConnection, TypeOK
  <2>4. Head(tasks) # 0
    BY <2>1 DEF Conns
  <2>5. QED  BY <2>2, <2>3, <2>4 DEF WorkerInv
<1>4. ASSUME NEW w \in Workers, CloseConnection(w) PROVE WorkerInv'
  <2>1. wpc'[w] = "uncount" /\ \A v \in Workers \ {w} : wpc'[v] = wpc[v]
    BY <1>4, WorkerMoves DEF CloseConnection
  <2>2. wfd'[w] = 0 /\ \A v \in Workers \ {w} : wfd'[v] = wfd[v]
    BY <1>4 DEF CloseConnection, TypeOK
  <2>3. QED  BY <2>1, <2>2 DEF WorkerInv
<1>5. ASSUME NEW w \in Workers, TakeEmptyFn(w) PROVE WorkerInv'
  <2>1. /\ wpc[w] = "idle" /\ wpc'[w] = "empty" /\ wfd' = wfd
        /\ \A v \in Workers \ {w} : wpc'[v] = wpc[v]
    BY <1>5, TakeMoves DEF TakeEmptyFn
  <2>2. QED  BY <2>1 DEF WorkerInv
<1>6. ASSUME NEW w \in Workers, LoopTest(w) \/ ReceiveEnds(w) \/ Handle(w) \/ RespondFails(w)
                                \/ CallEmptyFn(w) \/ Uncount(w)
      PROVE  WorkerInv'
  BY <1>2, <1>6 DEF LoopTest, ReceiveEnds, Handle, RespondFails, CallEmptyFn, Uncount
<1>7. ASSUME NEW w \in Workers, ReceiveRequest(w) \/ SendPong(w) \/ Respond(w)
      PROVE  WorkerInv'
  BY <1>2, <1>7 DEF ReceiveRequest, SendPong, Respond
<1>8. CASE UNCHANGED server
  BY <1>1, <1>8 DEF server, working
<1>9. CASE start \/ stop \/ Destroy \/ StopStep
  BY <1>1, <1>9 DEF start, stop, Destroy, StopStep, StopExchanges, StopCloses, StopJoins,
                    Destroyed, MainOnly, working
<1>10. CASE AcceptStep
  BY <1>1, <1>10 DEF AcceptStep, LoadRunning, LoadFd, AcceptorLoads, Accept, AcceptFails,
                     CountAccepted, CountActive, EnqueueRefused, Enqueue, EnqueueRetries,
                     EnqueueThrows, AcceptorOnly, working
<1>r. ASSUME NEW w \in Workers, ReleaseSlot(w) PROVE WorkerInv'
  BY <1>1, <1>r DEF ReleaseSlot, working
<1>11. QED
  BY <1>3, <1>4, <1>5, <1>6, <1>7, <1>8, <1>9, <1>10, <1>r
  DEF Next, ServerNext, WorkerStep, vars

\* The destructor leaves no worker and no task behind.
LEMMA EndStep ==
  ASSUME AcceptorInv, EndInv, DropInv, [Next]_vars
  PROVE  EndInv'
<1>1. CASE Destroyed
  <2>1. /\ tasks = << >> /\ main = "draining" /\ \A w \in Workers : wpc[w] = "idle"
        /\ UNCHANGED <<tasks, wpc, dropped, terminated, apc>>
    BY <1>1 DEF Destroyed, MainOnly, accepting, working
  <2>2. ~Holds(tasks, EmptyFn) /\ apc # "retry" /\ ~Calling
    BY <2>1, HoldsNothing DEF AcceptorInv, Calling
  <2>3. terminated # TRUE
    BY <1>1 DEF Next, vars, Destroyed, MainOnly, server
  <2>4. dropped = {}
    BY <2>2, <2>3 DEF DropInv
  <2>5. QED  BY <2>1, <2>4 DEF EndInv
<1>2. CASE start \/ stop \/ StopExchanges \/ StopCloses \/ StopJoins \/ Destroy
  BY <1>2 DEF start, stop, StopExchanges, StopCloses, StopJoins, Destroy, MainOnly, EndInv
<1>3. ASSUME main' = main, main # "destroyed" PROVE EndInv'
  BY <1>3 DEF EndInv
<1>4. CASE AcceptStep
  <2>1. apc \notin {"none", "exited"}
    BY <1>4 DEF AcceptStep, LoadRunning, LoadFd, AcceptorLoads, Accept, AcceptFails,
                CountAccepted, CountActive, EnqueueRefused, Enqueue, EnqueueRetries,
                EnqueueThrows, AcceptorOnly
  <2>2. main # "destroyed"
    BY <2>1 DEF AcceptorInv
  <2>3. main' = main
    BY <1>4, NotTheOwner
  <2>4. QED  BY <1>3, <2>2, <2>3
<1>r. ASSUME NEW w \in Workers, ReleaseSlot(w) PROVE EndInv'
  BY <1>r DEF ReleaseSlot, working, EndInv
<1>5. ASSUME NEW w \in Workers, WorkerStep(w), ~ReleaseSlot(w) PROVE EndInv'
  <2>1. tasks # << >> \/ wpc[w] # "idle"
    BY <1>5 DEF WorkerStep, TakeConnection, TakeEmptyFn, Take, CallEmptyFn, LoopTest,
                ReceiveRequest, ReceiveEnds, SendPong, Handle, Respond, RespondFails,
                CloseConnection, Uncount, Worker
  <2>2. main # "destroyed"
    BY <2>1 DEF EndInv
  <2>3. main' = main
    BY <1>5, NotTheOwner
  <2>4. QED  BY <1>3, <2>2, <2>3
<1>6. CASE UNCHANGED server
  BY <1>6 DEF server, working, EndInv
<1>7. QED
  BY <1>1, <1>2, <1>4, <1>r, <1>5, <1>6 DEF Next, ServerNext, StopStep, vars

(* The steps that do not touch what DropInv counts. *)
LEMMA QuietDrops ==
  ASSUME DropInv, made' = made, conn_accepted_' = conn_accepted_, taken' = taken,
         tasks' = tasks, dropped' = dropped, terminated' = terminated,
         \A w \in Workers : wpc'[w] = "empty" <=> wpc[w] = "empty",
         Len(backlog) \in Nat, Len(backlog') \in Nat, Len(backlog') <= Len(backlog),
         conn_accepted_ \in Nat, made \in Nat,
         \/ apc' = apc
         \/ {apc, apc'} \cap {"count_accepted", "count_active", "enqueue", "retry"} = {}
  PROVE  DropInv'
<1>1. Pending' = Pending /\ JustAccepted' = JustAccepted /\ JustAccepted \in Nat
  BY DEF Pending, JustAccepted
<1>2. conn_accepted_ + Len(backlog') + JustAccepted <= made
  BY <1>1 DEF DropInv
<1>3. (apc' = "retry" <=> apc = "retry") /\ (Calling' <=> Calling)
  BY DEF Calling
<1>4. QED  BY <1>1, <1>2, <1>3 DEF DropInv

(* A task is dropped only when the pool is full, or a slot of it still     *)
(* held, and the process ends only because of a dropped task.              *)
LEMMA DropStep ==
  ASSUME TypeOK, QueuesInv, AcceptorInv, DropInv, [Next]_vars
  PROVE  DropInv'
<1>t. /\ made \in Nat /\ conn_accepted_ \in Nat /\ Len(backlog) \in Nat /\ Len(tasks) \in Nat
      /\ Capacity \in Nat /\ EmptyFn \notin Conns /\ taken \in Nat
      /\ slot \in [Workers -> 0..taken]
      /\ backlog \in Seq(Conns) /\ tasks \in Seq(Conns \cup {EmptyFn})
  <2>1. backlog \in Seq(Conns) /\ tasks \in Seq(Conns \cup {EmptyFn})
    BY DEF QueuesInv
  <2>2. Len(backlog) \in Nat /\ Len(tasks) \in Nat
    BY <2>1, LenProperties
  <2>3. made \in Nat /\ conn_accepted_ \in Nat /\ taken \in Nat /\ slot \in [Workers -> 0..taken]
    BY DEF TypeOK
  <2>4. QED  BY <2>1, <2>2, <2>3, TaskServiceAssumption
<1>d. /\ conn_accepted_ + Len(backlog) + JustAccepted <= made
      /\ taken + Len(tasks) + Pending <= conn_accepted_
      /\ dropped # {} => conn_accepted_ > Capacity
      /\ dropped # {} <=> terminated \/ apc = "retry" \/ Holds(tasks, EmptyFn) \/ Calling
  BY DEF DropInv
<1> DEFINE dropVars == <<made, conn_accepted_, taken, tasks, dropped, terminated>>
<1>1. CASE start
  <2>1. /\ apc' = "load_running" /\ apc \in {"none", "exited"}
        /\ UNCHANGED <<backlog, wpc, dropVars>>
    BY <1>1 DEF start, counters, slots, working, AcceptorInv
  <2>2. QED  BY <1>t, <2>1, QuietDrops
<1>2. CASE stop \/ StopExchanges \/ StopJoins \/ Destroy \/ Destroyed
  <2>1. UNCHANGED <<apc, backlog, wpc, dropVars>>
    BY <1>2 DEF stop, StopExchanges, StopJoins, Destroy, Destroyed, MainOnly, net, counters,
                slots, accepting, working
  <2>2. QED  BY <1>t, <2>1, QuietDrops
<1>3. CASE StopCloses
  <2>1. UNCHANGED <<apc, wpc, dropVars>> /\ backlog' = << >>
    BY <1>3 DEF StopCloses, MainOnly, counters, slots, accepting, working
  <2>2. Len(backlog') = 0
    BY <2>1
  <2>3. QED  BY <1>t, <2>1, <2>2, QuietDrops
<1>4. CASE LoadRunning \/ LoadFd
  <2>1. /\ UNCHANGED <<backlog, wpc, dropVars>>
        /\ apc \in {"load_running", "load_fd"} /\ apc' \in {"load_fd", "accept", "exited"}
    BY <1>4 DEF LoadRunning, LoadFd, AcceptorLoads, AcceptorOnly, net, slots, working
  <2>2. QED  BY <1>t, <2>1, QuietDrops
<1>5. CASE AcceptFails
  <2>1. /\ UNCHANGED <<wpc, dropVars>> /\ apc = "accept" /\ apc' \in {"load_running", "exited"}
        /\ backlog' = backlog \/ (backlog # << >> /\ backlog' = Tail(backlog))
    BY <1>5 DEF AcceptFails, AcceptorOnly, slots, working
  <2>2. Len(backlog') \in Nat /\ Len(backlog') <= Len(backlog)
    BY <1>t, <2>1, HoldsTail
  <2>3. QED  BY <1>t, <2>1, <2>2, QuietDrops
<1>6. CASE Accept
  <2>1. /\ backlog # << >> /\ backlog' = Tail(backlog) /\ apc = "accept"
        /\ apc' = "count_accepted" /\ UNCHANGED <<wpc, dropVars>>
    BY <1>6 DEF Accept, AcceptorOnly, counters, slots, working
  <2>2. Len(backlog') = Len(backlog) - 1
    BY <1>t, <2>1, HoldsTail
  <2>3. Pending = 0 /\ Pending' = 0 /\ JustAccepted = 0 /\ JustAccepted' = 1
    BY <2>1 DEF Pending, JustAccepted
  <2>4. conn_accepted_' + Len(backlog') + JustAccepted' <= made'
    BY <1>t, <1>d, <2>1, <2>2, <2>3
  <2>5. QED  BY <1>d, <2>1, <2>3, <2>4 DEF DropInv, Calling
<1>c. CASE CountAccepted
  <2>1. /\ conn_accepted_' = conn_accepted_ + 1 /\ apc = "count_accepted"
        /\ apc' = "count_active"
        /\ UNCHANGED <<made, backlog, tasks, taken, dropped, terminated, wpc>>
    BY <1>c DEF CountAccepted, AcceptorOnly, net, slots, working
  <2>2. Pending = 0 /\ Pending' = 1 /\ JustAccepted = 1 /\ JustAccepted' = 0
    BY <2>1 DEF Pending, JustAccepted
  <2>3. /\ conn_accepted_' + Len(backlog') + JustAccepted' <= made'
        /\ taken' + Len(tasks') + Pending' <= conn_accepted_'
        /\ dropped' # {} => conn_accepted_' > Capacity
    BY <1>t, <1>d, <2>1, <2>2
  <2>4. QED  BY <1>d, <2>1, <2>3 DEF DropInv, Calling
<1>a. CASE CountActive
  <2>1. /\ apc = "count_active" /\ apc' = "enqueue" /\ UNCHANGED <<backlog, wpc, dropVars>>
    BY <1>a DEF CountActive, AcceptorOnly, net, slots, working
  <2>2. Pending' = Pending /\ JustAccepted' = JustAccepted
    BY <2>1 DEF Pending, JustAccepted
  <2>3. QED  BY <1>d, <2>1, <2>2 DEF DropInv, Calling
<1>7. CASE EnqueueRefused
  <2>1. /\ dropped' = dropped \cup {afd} /\ Full /\ apc = "enqueue" /\ apc' = "retry"
        /\ UNCHANGED <<made, tasks, taken, backlog, conn_accepted_, terminated>>
    BY <1>7 DEF EnqueueRefused, AcceptorOnly, net, slots
  <2>2. Pending = 1 /\ Pending' = 1 /\ JustAccepted = 0 /\ JustAccepted' = 0
    BY <2>1 DEF Pending, JustAccepted
  <2>3. Capacity <= taken + Len(tasks)
    <3>1. CASE Len(tasks) >= Capacity
      BY <1>t, <3>1
    <3>2. ASSUME NEW w \in Workers, slot[w] # 0, slot[w] + Capacity = taken + Len(tasks) + 1
          PROVE  Capacity <= taken + Len(tasks)
      <4>1. slot[w] \in Nat
        BY <1>t
      <4>2. QED  BY <1>t, <3>2, <4>1
    <3>3. QED  BY <2>1, <3>1, <3>2 DEF Full
  <2>4. conn_accepted_' > Capacity
    BY <1>t, <1>d, <2>1, <2>2, <2>3
  <2>5. QED  BY <1>d, <2>1, <2>2, <2>4 DEF DropInv
<1>8. CASE Enqueue
  <2>1. /\ tasks' = Append(tasks, afd) /\ apc = "enqueue" /\ apc' = "load_running"
        /\ UNCHANGED <<made, dropped, taken, backlog, conn_accepted_, terminated, wpc>>
    BY <1>8 DEF Enqueue, AcceptorOnly, net, slots, working
  <2>2. afd \in Conns /\ afd \in Conns \cup {EmptyFn} /\ afd # EmptyFn
    BY <1>t, <2>1 DEF AcceptorInv, TypeOK
  <2>3. Len(tasks') = Len(tasks) + 1 /\ (Holds(tasks', EmptyFn) <=> Holds(tasks, EmptyFn))
    BY <1>t, <2>1, <2>2, HoldsAppend
  <2>4. Pending = 1 /\ Pending' = 0 /\ JustAccepted' = JustAccepted
    BY <2>1 DEF Pending, JustAccepted
  <2>5. taken' + Len(tasks') + Pending' <= conn_accepted_'
    BY <1>t, <1>d, <2>1, <2>3, <2>4
  <2>6. QED  BY <1>d, <2>1, <2>3, <2>4, <2>5 DEF DropInv, Calling
<1>9. CASE EnqueueRetries
  <2>1. /\ tasks' = Append(tasks, EmptyFn) /\ apc = "retry" /\ apc' = "load_running"
        /\ UNCHANGED <<made, dropped, taken, backlog, conn_accepted_, terminated>>
    BY <1>9 DEF EnqueueRetries, AcceptorOnly, net, slots
  <2>2. Len(tasks') = Len(tasks) + 1 /\ Holds(tasks', EmptyFn)
    BY <1>t, <2>1, HoldsAppend
  <2>3. Pending = 1 /\ Pending' = 0 /\ JustAccepted' = JustAccepted
    BY <2>1 DEF Pending, JustAccepted
  <2>4. taken' + Len(tasks') + Pending' <= conn_accepted_'
    BY <1>t, <1>d, <2>1, <2>2, <2>3
  <2>5. QED  BY <1>d, <2>1, <2>2, <2>3, <2>4 DEF DropInv
<1>10. CASE EnqueueThrows
  <2>1. /\ apc = "retry" /\ apc' = "exited" /\ terminated' = TRUE
        /\ UNCHANGED <<made, dropped, taken, backlog, conn_accepted_, tasks>>
    BY <1>10 DEF EnqueueThrows, AcceptorOnly, net, slots
  <2>2. Pending = 1 /\ Pending' = 0 /\ JustAccepted' = JustAccepted
    BY <2>1 DEF Pending, JustAccepted
  <2>3. taken' + Len(tasks') + Pending' <= conn_accepted_'
    BY <1>t, <1>d, <2>1, <2>2
  <2>4. QED  BY <1>d, <2>1, <2>2, <2>3 DEF DropInv
<1>11. ASSUME NEW w \in Workers, TakeConnection(w) \/ TakeEmptyFn(w) PROVE DropInv'
  <2>1. PICK to : Take(w, to)
    BY <1>11 DEF TakeConnection, TakeEmptyFn
  <2>2. /\ tasks # << >> /\ tasks' = Tail(tasks) /\ taken' = taken + 1
        /\ UNCHANGED <<made, dropped, backlog, conn_accepted_, apc, terminated>>
    BY <2>1 DEF Take, accepting, net, counters
  <2>3. /\ Len(tasks') = Len(tasks) - 1
        /\ Holds(tasks, EmptyFn) <=> Holds(tasks', EmptyFn) \/ EmptyFn = Head(tasks)
    BY <1>t, <2>2, HoldsTail
  <2>4. Pending' = Pending /\ JustAccepted' = JustAccepted /\ Pending \in Nat
    BY <2>2 DEF Pending, JustAccepted
  <2>5. taken' + Len(tasks') + Pending' <= conn_accepted_'
    BY <1>t, <1>d, <2>2, <2>3, <2>4
  <2>6. Holds(tasks', EmptyFn) \/ Calling' <=> Holds(tasks, EmptyFn) \/ Calling
    <3>1. CASE TakeConnection(w)
      <4>1. WorkerStep(w) /\ ~TakeEmptyFn(w) /\ ~CallEmptyFn(w) /\ Head(tasks) # EmptyFn
        BY <2>2, <3>1 DEF WorkerStep, TakeConnection, TakeEmptyFn, CallEmptyFn, Worker, slots
      <4>2. QED  BY <2>3, <4>1, MarkedSteps DEF Calling
    <3>2. CASE TakeEmptyFn(w)
      BY <2>3, <3>2, TakeMoves DEF TakeEmptyFn, Calling
    <3>3. QED  BY <1>11, <3>1, <3>2
  <2>7. QED  BY <1>d, <2>2, <2>4, <2>5, <2>6 DEF DropInv
<1>e. ASSUME NEW w \in Workers, CallEmptyFn(w) PROVE DropInv'
  <2>1. /\ wpc[w] = "empty" /\ terminated' = TRUE
        /\ UNCHANGED <<made, dropped, backlog, conn_accepted_, apc, tasks, taken>>
    BY <1>e DEF CallEmptyFn, Worker, net, accepting, slots
  <2>2. dropped # {}
    BY <1>d, <2>1 DEF Calling
  <2>3. Pending' = Pending /\ JustAccepted' = JustAccepted
    BY <2>1 DEF Pending, JustAccepted
  <2>4. QED  BY <1>d, <2>1, <2>2, <2>3 DEF DropInv
<1>12. ASSUME NEW w \in Workers, WorkerStep(w),
              ~(TakeConnection(w) \/ TakeEmptyFn(w) \/ CallEmptyFn(w))
       PROVE  DropInv'
  <2>1. UNCHANGED <<apc, backlog, dropVars>>
    BY <1>12 DEF WorkerStep, ReleaseSlot, LoopTest, ReceiveRequest, ReceiveEnds, SendPong,
                 Handle, Respond, RespondFails, CloseConnection, Uncount, Worker, accepting,
                 netElse, net, counters, slots
  <2>2. \A v \in Workers : wpc'[v] = "empty" <=> wpc[v] = "empty"
    BY <1>12, MarkedSteps
  <2>3. QED  BY <1>t, <2>1, <2>2, QuietDrops
<1>13. ASSUME NEW k \in Clients, connect(k), UNCHANGED server PROVE DropInv'
  <2>1. /\ made' = made + 1 /\ backlog' = Append(backlog, made + 1) /\ made + 1 \in Conns
        /\ UNCHANGED <<apc, tasks, taken, dropped, conn_accepted_, terminated, wpc>>
    BY <1>13, <1>t, TaskServiceAssumption DEF connect, server, counters, slots, accepting,
                                              working, Conns
  <2>2. Len(backlog') = Len(backlog) + 1
    BY <1>t, <2>1, HoldsAppend
  <2>3. Pending' = Pending /\ JustAccepted' = JustAccepted /\ JustAccepted \in Nat
    BY <2>1 DEF Pending, JustAccepted
  <2>4. conn_accepted_' + Len(backlog') + JustAccepted' <= made'
    BY <1>t, <1>d, <2>1, <2>2, <2>3
  <2>5. QED  BY <1>d, <2>1, <2>3, <2>4 DEF DropInv, Calling
<1>14. ASSUME UNCHANGED <<server, backlog, made>> PROVE DropInv'
  <2>1. UNCHANGED <<apc, backlog, wpc, dropVars>>
    BY <1>14 DEF server, counters, slots, accepting, working
  <2>2. QED  BY <1>t, <2>1, QuietDrops
<1>15. ASSUME NEW k \in Clients,
             ConnectThrows(k) \/ disconnect(k) \/ submit(k) \/ ping(k) \/ CallStep(k) \/ Noise(k)
       PROVE  UNCHANGED <<backlog, made>>
  BY <1>15 DEF ConnectThrows, disconnect, submit, ping, Call, CallStep, Send, SendThrows,
               Answer, AnswerTooLarge, ReceiveThrows, Noise, InCall, net
<1>16. ASSUME NEW c \in Conns, Break(c) PROVE UNCHANGED <<backlog, made>>
  BY <1>16 DEF Break
<1>17. CASE UNCHANGED vars
  BY <1>14, <1>17 DEF vars, net
<1>18. QED
  BY <1>1, <1>2, <1>3, <1>4, <1>5, <1>6, <1>c, <1>a, <1>7, <1>8, <1>9, <1>10, <1>11, <1>e,
     <1>12, <1>13, <1>14, <1>15, <1>16, <1>17
  DEF Next, ServerNext, StopStep, AcceptStep, ClientNext

-----------------------------------------------------------------------------
(***************************************************************************)
(* The gauge                                                               *)
(***************************************************************************)

(* Five steps touch the gauge, or what it has still to count. *)
LEMMA QuietGauge ==
  ASSUME TypeOK, AcceptorInv, [Next]_vars, ~Accept, ~CountAccepted, ~CountActive,
         \A w \in Workers : ~CloseConnection(w) /\ ~Uncount(w)
  PROVE  /\ UNCHANGED <<conn_active_, conn_accepted_, Uncounting>>
         /\ \/ apc' = apc
            \/ {apc, apc'} \cap {"count_accepted", "count_active"} = {}
<1>1. CASE UNCHANGED server
  BY <1>1 DEF server, counters, accepting, working, Uncounting
<1>2. CASE start \/ stop \/ Destroy \/ StopStep
  BY <1>2 DEF start, stop, Destroy, StopStep, StopExchanges, StopCloses, StopJoins, Destroyed,
              MainOnly, counters, accepting, working, Uncounting, AcceptorInv
<1>3. CASE AcceptStep
  BY <1>3 DEF AcceptStep, LoadRunning, LoadFd, AcceptorLoads, AcceptFails, EnqueueRefused,
              Enqueue, EnqueueRetries, EnqueueThrows, AcceptorOnly, working, Uncounting
<1>4. ASSUME NEW w \in Workers, WorkerStep(w)
      PROVE  UNCHANGED <<conn_active_, conn_accepted_, apc, Uncounting>>
  <2>1. UNCHANGED <<conn_active_, conn_accepted_, apc>>
    BY <1>4 DEF WorkerStep, TakeConnection, TakeEmptyFn, Take, ReleaseSlot, CallEmptyFn,
                LoopTest, ReceiveRequest, ReceiveEnds, SendPong, Handle, Respond,
                RespondFails, Worker, accepting, counters
  <2>2. \A v \in Workers : wpc'[v] = "uncount" <=> wpc[v] = "uncount"
    BY <1>4, MarkedSteps
  <2>3. QED  BY <2>1, <2>2 DEF Uncounting
<1>5. QED  BY <1>1, <1>2, <1>3, <1>4 DEF Next, ServerNext, vars

\* conn_active_ counts what is open, up to the threads in between.
LEMMA ActiveStep ==
  ASSUME TypeOK, QueuesInv, LifeInv, PlaceInv, ActiveInv, [Next]_vars
  PROVE  ActiveInv'
<1> DEFINE open == Cardinality(Open)
           out == Cardinality(Uncounting)
<1>t. /\ conn_active_ \in Nat /\ conn_accepted_ \in Nat /\ open \in Nat /\ out \in Nat
      /\ IsFiniteSet(Workers) /\ Uncounting \in SUBSET Workers
      /\ Uncounting' \in SUBSET Workers
  <2>1. conn_active_ \in Nat /\ conn_accepted_ \in Nat
    BY DEF TypeOK
  <2>2. IsFiniteSet(Conns) /\ IsFiniteSet(Workers)
    BY FS_Interval, TaskServiceAssumption DEF Conns
  <2>3. /\ Open \in SUBSET Conns /\ Uncounting \in SUBSET Workers
        /\ Uncounting' \in SUBSET Workers
    BY DEF Open, Uncounting
  <2>4. IsFiniteSet(Open) /\ IsFiniteSet(Uncounting)
    BY <2>2, <2>3, FS_Subset
  <2>5. QED  BY <2>1, <2>2, <2>3, <2>4, FS_CardinalityType
<1>a. /\ conn_active_ = open + out - NotYet
      /\ conn_active_ + (IF apc = "count_active" THEN 1 ELSE 0) <= conn_accepted_
  BY DEF ActiveInv
<1>p. /\ Accept => open' = open + 1
      /\ \A w \in Workers : CloseConnection(w) => open' = open - 1
      /\ Accept \/ (\E w \in Workers : CloseConnection(w)) \/ open' = open
  BY PlaceStep
<1>g. ASSUME conn_active_' = open' + out' - NotYet',
             conn_active_' + (IF apc' = "count_active" THEN 1 ELSE 0) <= conn_accepted_'
      PROVE  ActiveInv'
  BY <1>g DEF ActiveInv
<1>1. CASE Accept
  <2>1. /\ apc = "accept" /\ apc' = "count_accepted" /\ UNCHANGED <<counters, wpc>>
    BY <1>1 DEF Accept, AcceptorOnly, working
  <2>2. UNCHANGED <<conn_active_, conn_accepted_>> /\ out' = out
    BY <2>1 DEF counters, Uncounting
  <2>3. NotYet = 0 /\ NotYet' = 1 /\ open' = open + 1
    BY <1>1, <1>p, <2>1 DEF NotYet
  <2> HIDE DEF open, out
  <2>4. QED  BY <1>t, <1>a, <1>g, <2>1, <2>2, <2>3
<1>2. CASE CountAccepted
  <2>1. /\ apc = "count_accepted" /\ apc' = "count_active"
        /\ conn_accepted_' = conn_accepted_ + 1 /\ UNCHANGED <<conn_active_, wpc>>
    BY <1>2 DEF CountAccepted, AcceptorOnly, working
  <2>2. NotYet' = NotYet /\ out' = out
    BY <2>1 DEF NotYet, Uncounting
  <2>3. ~Accept /\ \A w \in Workers : ~CloseConnection(w)
    BY <2>1 DEF Accept, AcceptorOnly, CloseConnection, Worker, accepting
  <2>4. open' = open
    BY <1>p, <2>3
  <2> HIDE DEF open, out
  <2>5. QED  BY <1>t, <1>a, <1>g, <2>1, <2>2, <2>4
<1>3. CASE CountActive
  <2>1. /\ apc = "count_active" /\ apc' = "enqueue"
        /\ conn_active_' = conn_active_ + 1 /\ UNCHANGED <<conn_accepted_, wpc>>
    BY <1>3 DEF CountActive, AcceptorOnly, working
  <2>2. NotYet = 1 /\ NotYet' = 0 /\ out' = out
    BY <2>1 DEF NotYet, Uncounting
  <2>3. ~Accept /\ \A w \in Workers : ~CloseConnection(w)
    BY <2>1 DEF Accept, AcceptorOnly, CloseConnection, Worker, accepting
  <2>4. open' = open
    BY <1>p, <2>3
  <2> HIDE DEF open, out
  <2>5. QED  BY <1>t, <1>a, <1>g, <2>1, <2>2, <2>4
<1>4. ASSUME NEW w \in Workers, CloseConnection(w) PROVE ActiveInv'
  <2>1. UNCHANGED <<conn_active_, conn_accepted_, apc>>
    BY <1>4 DEF CloseConnection, Worker, accepting
  <2>2. /\ wpc[w] = "close" /\ wpc'[w] = "uncount"
        /\ \A v \in Workers \ {w} : wpc'[v] = wpc[v]
    BY <1>4, WorkerMoves DEF CloseConnection
  <2>3. /\ w \notin Uncounting /\ w \in Uncounting'
        /\ \A v \in Workers \ {w} : v \in Uncounting <=> v \in Uncounting'
    BY <2>2 DEF Uncounting
  <2>4. out' = out + 1
    BY <1>t, <2>3, CountUpdate
  <2>5. NotYet' = NotYet /\ open' = open - 1
    BY <1>4, <1>p, <2>1 DEF NotYet
  <2>6. NotYet \in Nat
    BY DEF NotYet
  <2> HIDE DEF open, out
  <2>7. QED  BY <1>t, <1>a, <1>g, <2>1, <2>4, <2>5, <2>6
<1>5. ASSUME NEW w \in Workers, Uncount(w) PROVE ActiveInv'
  <2>1. conn_active_' = conn_active_ - 1 /\ UNCHANGED <<conn_accepted_, apc>>
    BY <1>5 DEF Uncount, Worker, accepting
  <2>2. /\ wpc[w] = "uncount" /\ wpc'[w] = "idle"
        /\ \A v \in Workers \ {w} : wpc'[v] = wpc[v]
    BY <1>5, WorkerMoves DEF Uncount
  <2>3. /\ w \in Uncounting /\ w \notin Uncounting'
        /\ \A v \in Workers \ {w} : v \in Uncounting <=> v \in Uncounting'
    BY <2>2 DEF Uncounting
  <2>4. out' = out - 1
    BY <1>t, <2>3, CountUpdate
  <2>5. ~Accept /\ \A v \in Workers : ~CloseConnection(v)
    BY <1>t, <2>1 DEF Accept, AcceptorOnly, CloseConnection, counters
  <2>6. NotYet' = NotYet /\ open' = open
    BY <1>p, <2>1, <2>5 DEF NotYet
  <2>7. NotYet \in Nat
    BY DEF NotYet
  <2> HIDE DEF open, out
  <2>8. QED  BY <1>t, <1>a, <1>g, <2>1, <2>4, <2>6, <2>7
<1>6. CASE /\ ~Accept /\ ~CountAccepted /\ ~CountActive
           /\ \A w \in Workers : ~CloseConnection(w) /\ ~Uncount(w)
  <2>1. /\ UNCHANGED <<conn_active_, conn_accepted_, Uncounting>>
        /\ apc' = apc \/ {apc, apc'} \cap {"count_accepted", "count_active"} = {}
    BY <1>6, QuietGauge DEF LifeInv
  <2>2. NotYet' = NotYet /\ out' = out /\ (apc' = "count_active" <=> apc = "count_active")
    BY <2>1 DEF NotYet
  <2>3. open' = open
    BY <1>6, <1>p
  <2> HIDE DEF open, out
  <2>4. QED  BY <1>a, <1>g, <2>1, <2>2, <2>3
<1>7. QED  BY <1>1, <1>2, <1>3, <1>4, <1>5, <1>6

-----------------------------------------------------------------------------
(***************************************************************************)
(* Clients and messages                                                    *)
(***************************************************************************)

(* A server's step, and one of the network, leave the clients alone. *)
LEMMA ServerSteps ==
  ASSUME ServerNext
  PROVE  UNCHANGED <<made, clientClosed, lost>>
<1>1. CASE start \/ stop \/ Destroy \/ StopStep
  BY <1>1 DEF start, stop, Destroy, StopStep, StopExchanges, StopCloses, StopJoins,
              Destroyed, net
<1>2. CASE AcceptStep
  BY <1>2 DEF AcceptStep, LoadRunning, LoadFd, AcceptorLoads, Accept, AcceptFails,
              CountAccepted, CountActive, EnqueueRefused, Enqueue, EnqueueRetries,
              EnqueueThrows, net
<1>3. ASSUME NEW w \in Workers, WorkerStep(w) PROVE UNCHANGED <<made, clientClosed, lost>>
  BY <1>3 DEF WorkerStep, TakeConnection, TakeEmptyFn, Take, ReleaseSlot, CallEmptyFn,
              LoopTest, ReceiveRequest, ReceiveEnds, SendPong, Handle, Respond, RespondFails,
              CloseConnection, Uncount, netElse, net
<1>4. QED  BY <1>1, <1>2, <1>3 DEF ServerNext

(* A client's next connection is new, and its own. *)
LEMMA ClientStep ==
  ASSUME TypeOK, ClientInv, [Next]_vars
  PROVE  ClientInv'
<1>t. /\ fd_ \in [Clients -> {0} \cup Conns] /\ kpc \in [Clients -> {"idle", "send", "recv"}]
      /\ call \in [Clients -> Message] /\ made \in Nat /\ Unconnected = 0
  BY DEF TypeOK, Unconnected
<1>k. /\ \A k \in Clients : fd_[k] = 0 \/ fd_[k] \in (1..made) \ clientClosed
      /\ \A j, k \in Clients : fd_[j] = fd_[k] /\ fd_[j] # 0 => j = k
      /\ \A k \in Clients : kpc[k] = "recv" => fd_[k] # 0
      /\ \A k \in Clients : kpc[k] # "idle" => call[k].type \in {"REQUEST", "PING"}
  BY <1>t DEF ClientInv
<1>1. ASSUME UNCHANGED <<made, clientClosed, client>> PROVE ClientInv'
  BY <1>1 DEF ClientInv, client
<1>2. ASSUME NEW k \in Clients, connect(k) PROVE ClientInv'
  <2>1. /\ made' = made + 1 /\ fd_' = [fd_ EXCEPT ![k] = made + 1]
        /\ UNCHANGED <<kpc, call, clientClosed>> /\ kpc[k] = "idle"
    BY <1>2 DEF connect, Overwrites
  <2>2. fd_'[k] = made + 1 /\ \A j \in Clients \ {k} : fd_'[j] = fd_[j]
    BY <1>t, <2>1
  <2>3. clientClosed \subseteq 1..made
    BY DEF TypeOK
  <2>4. \A j \in Clients : fd_'[j] = 0 \/ fd_'[j] \in (1..made') \ clientClosed'
    BY <1>t, <1>k, <2>1, <2>2, <2>3
  <2>5. \A j \in Clients \ {k} : fd_'[j] # made + 1
    BY <1>t, <1>k, <2>2
  <2>6. \A i, j \in Clients : fd_'[i] = fd_'[j] /\ fd_'[i] # 0 => i = j
    BY <1>k, <2>2, <2>5
  <2>7. \A j \in Clients : kpc'[j] = "recv" => fd_'[j] # 0
    BY <1>k, <2>1, <2>2
  <2>8. QED  BY <1>t, <1>k, <2>1, <2>4, <2>6, <2>7 DEF ClientInv, Unconnected
<1>3. ASSUME NEW k \in Clients, ConnectThrows(k) \/ disconnect(k) PROVE ClientInv'
  <2>1. /\ made' = made /\ fd_' = [fd_ EXCEPT ![k] = 0]
        /\ UNCHANGED <<kpc, call>> /\ kpc[k] = "idle"
        /\ \A c \in clientClosed' : c \in clientClosed \/ c = fd_[k]
    BY <1>3 DEF ConnectThrows, disconnect, Overwrites, net, Unconnected
  <2>2. fd_'[k] = 0 /\ \A j \in Clients \ {k} : fd_'[j] = fd_[j]
    BY <1>t, <2>1
  <2>3. \A j \in Clients \ {k} : fd_[j] # 0 => fd_[j] # fd_[k]
    BY <1>k
  <2>4. \A j \in Clients : fd_'[j] = 0 \/ fd_'[j] \in (1..made') \ clientClosed'
    BY <1>k, <2>1, <2>2, <2>3
  <2>5. \A i, j \in Clients : fd_'[i] = fd_'[j] /\ fd_'[i] # 0 => i = j
    BY <1>k, <2>2
  <2>6. \A j \in Clients : kpc'[j] = "recv" => fd_'[j] # 0
    BY <1>k, <2>1, <2>2
  <2>7. QED  BY <1>t, <1>k, <2>1, <2>4, <2>5, <2>6 DEF ClientInv, Unconnected
<1>4. ASSUME NEW k \in Clients, submit(k) \/ ping(k) PROVE ClientInv'
  <2>1. PICK type \in {"REQUEST", "PING"}, big \in BOOLEAN : Call(k, type, big)
    BY <1>4 DEF submit, ping
  <2>2. /\ UNCHANGED <<made, clientClosed, fd_>> /\ kpc' = [kpc EXCEPT ![k] = "send"]
        /\ call' = [call EXCEPT ![k] = [type |-> type, id |-> next_id_[k], big |-> big]]
    BY <2>1 DEF Call, net
  <2>3. /\ kpc'[k] = "send" /\ call'[k].type = type
        /\ \A j \in Clients \ {k} : kpc'[j] = kpc[j] /\ call'[j] = call[j]
    BY <1>t, <2>2
  <2>4. /\ \A j \in Clients : kpc'[j] = "recv" => fd_'[j] # 0
        /\ \A j \in Clients : kpc'[j] # "idle" => call'[j].type \in {"REQUEST", "PING"}
    BY <1>k, <2>2, <2>3
  <2>5. QED  BY <1>t, <1>k, <2>2, <2>4 DEF ClientInv, Unconnected
<1>5. ASSUME NEW k \in Clients, CallStep(k) \/ Noise(k) PROVE ClientInv'
  <2>1. PICK from, to : InCall(k, from, to) /\ (to = "recv" => fd_[k] # 0)
                        /\ from \in {"send", "recv"} /\ to \in {"idle", "recv"}
    <3>1. CASE Send(k)
      BY <3>1 DEF Send, Unconnected
    <3>2. CASE SendThrows(k) \/ Answer(k) \/ AnswerTooLarge(k) \/ ReceiveThrows(k) \/ Noise(k)
      BY <3>2 DEF SendThrows, Answer, AnswerTooLarge, ReceiveThrows, Noise
    <3>3. QED  BY <1>5, <3>1, <3>2 DEF CallStep
  <2>2. /\ UNCHANGED <<made, clientClosed, fd_>> /\ kpc[k] = from
        /\ kpc' = [kpc EXCEPT ![k] = to]
        /\ call' = IF to = "idle" THEN [call EXCEPT ![k] = NoCall] ELSE call
    BY <2>1 DEF InCall
  <2>3. /\ kpc'[k] = to /\ (to = "recv" => call'[k] = call[k])
        /\ \A j \in Clients \ {k} : kpc'[j] = kpc[j] /\ call'[j] = call[j]
    BY <1>t, <2>1, <2>2
  <2>4. /\ \A j \in Clients : kpc'[j] = "recv" => fd_'[j] # 0
        /\ \A j \in Clients : kpc'[j] # "idle" => call'[j].type \in {"REQUEST", "PING"}
    BY <1>k, <2>1, <2>2, <2>3
  <2>5. QED  BY <1>t, <1>k, <2>2, <2>4 DEF ClientInv, Unconnected
<1>6. ASSUME NEW c \in Conns, Break(c), UNCHANGED client PROVE ClientInv'
  BY <1>1, <1>6 DEF Break
<1>7. ASSUME ServerNext, UNCHANGED client PROVE ClientInv'
  BY <1>1, <1>7, ServerSteps
<1>8. CASE UNCHANGED vars
  BY <1>1, <1>8 DEF vars, net
<1>9. QED
  BY <1>2, <1>3, <1>4, <1>5, <1>6, <1>7, <1>8 DEF Next, ClientNext

(* A step leaves connection c alone, except that it may end it: whoever    *)
(* waited on it still waits, with the same call.                           *)
Untouched(c) ==
  /\ toServer'[c] = toServer[c] /\ toClient'[c] = toClient[c]
  /\ c \in lost <=> c \in lost'
  /\ c \in clientClosed <=> c \in clientClosed'
  /\ c \in serverClosed \cup broken => c \in serverClosed' \cup broken'
  /\ InHand(c) /\ c \in broken => c \in broken'
  /\ \A k \in Clients : kpc[k] = "recv" /\ fd_[k] = c =>
                          kpc'[k] = "recv" /\ fd_'[k] = c /\ call'[k] = call[k]

(* Its messages then are what they were. *)
LEMMA UntouchedRequest ==
  ASSUME NEW c, RequestOk(c), Untouched(c)
  PROVE  RequestOk(c)'
<1>1. /\ toServer'[c] = toServer[c] /\ toClient'[c] = toClient[c]
      /\ c \in lost \cup clientClosed => c \in lost' \cup clientClosed'
      /\ Gone(c) => Gone(c)'
  BY DEF Untouched, Gone
<1>2. Len(toServer'[c]) <= 1 \/ c \in lost' \cup clientClosed'
  BY <1>1 DEF RequestOk
<1>3. ASSUME ~Gone(c)', toServer'[c] # << >>
      PROVE  /\ toClient'[c] = << >>
             /\ \E k \in Clients : Waits(k, c)' /\ Head(toServer'[c]) = call'[k]
  <2>1. toClient[c] = << >> /\ \E k \in Clients : Waits(k, c) /\ Head(toServer[c]) = call[k]
    BY <1>1, <1>3 DEF RequestOk
  <2>2. PICK k \in Clients : Waits(k, c) /\ Head(toServer[c]) = call[k]
    BY <2>1
  <2>3. Waits(k, c)' /\ call'[k] = call[k]
    BY <2>2 DEF Untouched, Waits
  <2>4. QED  BY <1>1, <2>1, <2>2, <2>3
<1>4. QED  BY <1>2, <1>3 DEF RequestOk

\* A step that leaves a connection alone keeps what is known of its answers.
LEMMA UntouchedAnswer ==
  ASSUME NEW c, AnswerOk(c), Untouched(c)
  PROVE  AnswerOk(c)'
<1> SUFFICES ASSUME c \notin lost'
             PROVE  /\ Len(toClient'[c]) <= 1
                    /\ toClient'[c] # << >> =>
                         \E k \in Clients :
                           /\ Waits(k, c)' /\ Head(toClient'[c]).id = call'[k].id
                           /\ Head(toClient'[c]).type = "PONG" <=> call'[k].type = "PING"
  BY DEF AnswerOk
<1>1. toClient'[c] = toClient[c] /\ c \notin lost
  BY DEF Untouched
<1>2. Len(toClient'[c]) <= 1
  BY <1>1 DEF AnswerOk
<1>3. ASSUME toClient'[c] # << >>
      PROVE  \E k \in Clients :
               /\ Waits(k, c)' /\ Head(toClient'[c]).id = call'[k].id
               /\ Head(toClient'[c]).type = "PONG" <=> call'[k].type = "PING"
  <2>1. PICK k \in Clients :
          /\ Waits(k, c) /\ Head(toClient[c]).id = call[k].id
          /\ Head(toClient[c]).type = "PONG" <=> call[k].type = "PING"
    BY <1>1, <1>3 DEF AnswerOk
  <2>2. Waits(k, c)' /\ call'[k] = call[k]
    BY <2>1 DEF Untouched, Waits
  <2>3. QED  BY <1>1, <2>1, <2>2
<1>4. QED  BY <1>2, <1>3

\* A step that leaves a worker and its connection alone keeps what is known
\* of its work.
LEMMA UntouchedWork ==
  ASSUME NEW w \in Workers, WorkOk(w), Untouched(wfd[w]),
         wpc'[w] = wpc[w], wfd'[w] = wfd[w], wmsg'[w] = wmsg[w]
  PROVE  WorkOk(w)'
<1> DEFINE c == wfd[w]
<1>1. /\ toServer'[c] = toServer[c] /\ toClient'[c] = toClient[c]
      /\ c \in lost \cup clientClosed \cup broken => c \in lost' \cup clientClosed' \cup broken'
  BY DEF Untouched, InHand
<1>2. \A k \in Clients : kpc[k] = "recv" /\ fd_[k] = c =>
                           kpc'[k] = "recv" /\ fd_'[k] = c /\ call'[k] = call[k]
  BY DEF Untouched
<1> SUFFICES ASSUME wpc[w] \in {"pong", "handle", "respond"},
                    c \notin lost' \cup clientClosed' \cup broken'
             PROVE  /\ toServer'[c] = << >> /\ toClient'[c] = << >>
                    /\ wpc[w] = "respond" => wmsg[w].type # "PONG"
                    /\ \E k \in Clients :
                         /\ kpc'[k] = "recv" /\ fd_'[k] = c /\ wmsg[w].id = call'[k].id
                         /\ wpc[w] = "pong" <=> call'[k].type = "PING"
  BY DEF WorkOk, Waits, Deaf
<1>3. /\ toServer[c] = << >> /\ toClient[c] = << >>
      /\ wpc[w] = "respond" => wmsg[w].type # "PONG"
      /\ \E k \in Clients : /\ kpc[k] = "recv" /\ fd_[k] = c /\ wmsg[w].id = call[k].id
                            /\ wpc[w] = "pong" <=> call[k].type = "PING"
  BY <1>1 DEF WorkOk, Deaf, Waits
<1>4. QED  BY <1>1, <1>2, <1>3

(* A connection that a worker has is not closed and not in the backlog. *)
LEMMA ServedOpen ==
  ASSUME TypeOK, OneSpot, NEW w \in Workers, wfd[w] # 0
  PROVE  /\ wfd[w] \in Conns /\ wfd[w] \notin serverClosed /\ ~Holds(backlog, wfd[w])
<1> DEFINE c == wfd[w]
<1>1. c \in Conns
  BY DEF TypeOK
<1>2. At(c, "served")
  BY AtSpot DEF InHand
<1> HIDE DEF c
<1>3. \A t \in Spots : At(c, t) <=> t = "served"
  BY <1>1, <1>2, OnlySpot DEF Spots
<1>4. QED  BY <1>1, <1>3, AtSpot DEF Spots, c

(* Steps of anybody but a worker: one connection at most needs a look. *)
LEMMA MailAt ==
  ASSUME TypeOK, WorkerInv, MailInv, NEW h, UNCHANGED working,
         \A c \in Conns \ {h} : Untouched(c),
         h \in Conns => RequestOk(h)' /\ AnswerOk(h)',
         \A w \in Workers : wfd[w] = h /\ h \in Conns => WorkOk(w)'
  PROVE  MailInv'
<1>1. ASSUME NEW c \in Conns PROVE RequestOk(c)' /\ AnswerOk(c)'
  BY UntouchedRequest, UntouchedAnswer DEF MailInv
<1>2. ASSUME NEW w \in Workers PROVE WorkOk(w)'
  <2>1. wpc'[w] = wpc[w] /\ wfd'[w] = wfd[w] /\ wmsg'[w] = wmsg[w]
    BY DEF working
  <2>2. CASE wpc[w] \in {"idle", "empty", "uncount"}
    BY <2>1, <2>2 DEF WorkOk
  <2>3. CASE wpc[w] \notin {"idle", "empty", "uncount"}
    <3>1. wfd[w] \in Conns
      BY <2>3 DEF TypeOK, WorkerInv
    <3>2. WorkOk(w)
      BY DEF MailInv
    <3>3. QED  BY <2>1, <3>1, <3>2, UntouchedWork
  <2>4. QED  BY <2>2, <2>3
<1>3. QED  BY <1>1, <1>2 DEF MailInv

(* Steps of a worker: nobody else has its connection. *)
LEMMA MailOf ==
  ASSUME TypeOK, WorkerInv, OnceInHand, MailInv, NEW w \in Workers, NEW h, h = wfd[w],
         \A v \in Workers \ {w} : wpc'[v] = wpc[v] /\ wfd'[v] = wfd[v] /\ wmsg'[v] = wmsg[v],
         \A c \in Conns \ {h} : Untouched(c),
         h \in Conns => RequestOk(h)' /\ AnswerOk(h)',
         WorkOk(w)'
  PROVE  MailInv'
<1>1. ASSUME NEW c \in Conns PROVE RequestOk(c)' /\ AnswerOk(c)'
  BY UntouchedRequest, UntouchedAnswer DEF MailInv
<1>2. ASSUME NEW v \in Workers \ {w} PROVE WorkOk(v)'
  <2>1. wpc'[v] = wpc[v] /\ wfd'[v] = wfd[v] /\ wmsg'[v] = wmsg[v]
    OBVIOUS
  <2>2. CASE wpc[v] \in {"idle", "empty", "uncount"}
    BY <2>1, <2>2 DEF WorkOk
  <2>3. CASE wpc[v] \notin {"idle", "empty", "uncount"}
    <3>1. wfd[v] \in Conns /\ wfd[v] # 0
      BY <2>3 DEF TypeOK, WorkerInv
    <3>2. wfd[v] # h
      BY <3>1 DEF OnceInHand
    <3>3. WorkOk(v)
      BY DEF MailInv
    <3>4. QED  BY <2>1, <3>1, <3>2, <3>3, UntouchedWork
  <2>4. QED  BY <2>2, <2>3
<1>3. QED  BY <1>1, <1>2 DEF MailInv

(* The owner and the accept thread end connections that nobody serves. *)
LEMMA MailOwner ==
  ASSUME TypeOK, QueuesInv, WorkerInv, OneSpot, MailInv, UNCHANGED client,
         start \/ stop \/ Destroy \/ StopStep \/ AcceptStep
  PROVE  MailInv'
<1>1. UNCHANGED <<toServer, toClient, lost, clientClosed, working>>
  <2>1. CASE start \/ stop \/ Destroy \/ StopStep
    BY <2>1 DEF start, stop, Destroy, StopStep, StopExchanges, StopCloses, StopJoins,
                Destroyed, MainOnly, net
  <2>2. CASE LoadRunning \/ LoadFd \/ Accept \/ AcceptFails
    BY <2>2 DEF LoadRunning, LoadFd, AcceptorLoads, Accept, AcceptFails, AcceptorOnly, net
  <2>3. CASE \/ CountAccepted \/ CountActive
             \/ EnqueueRefused \/ Enqueue \/ EnqueueRetries \/ EnqueueThrows
    BY <2>3 DEF CountAccepted, CountActive, EnqueueRefused, Enqueue, EnqueueRetries,
                EnqueueThrows, AcceptorOnly, net
  <2>4. QED  BY <2>1, <2>2, <2>3 DEF AcceptStep
<1>2. \A c : /\ c \in serverClosed \cup broken => c \in serverClosed' \cup broken'
             /\ c \in broken /\ c \notin broken' => Holds(backlog, c)
  <2>1. CASE StopCloses
    <3>1. serverClosed' = serverClosed \cup Range(backlog) /\ broken' = broken \ Range(backlog)
      BY <2>1 DEF StopCloses
    <3>2. \A c \in Range(backlog) : Holds(backlog, c)
      BY RangeHolds DEF QueuesInv
    <3> DEFINE R == Range(backlog)
    <3> HIDE DEF R
    <3>3. QED  BY <3>1, <3>2 DEF R
  <2>2. CASE AcceptFails
    <3>1. \/ UNCHANGED <<serverClosed, broken>>
          \/ /\ backlog # << >> /\ serverClosed' = serverClosed \cup {Head(backlog)}
             /\ broken' = broken \ {Head(backlog)}
      BY <2>2 DEF AcceptFails
    <3>2. backlog # << >> => Holds(backlog, Head(backlog))
      BY HoldsTail DEF QueuesInv
    <3>3. QED  BY <3>1, <3>2
  <2>3. CASE start \/ stop \/ Destroy \/ (StopStep /\ ~StopCloses)
    BY <2>3 DEF start, stop, Destroy, StopStep, StopExchanges, StopJoins, Destroyed, net
  <2>4. CASE AcceptStep /\ ~AcceptFails
    BY <2>4 DEF AcceptStep, LoadRunning, LoadFd, AcceptorLoads, Accept, CountAccepted,
                CountActive, EnqueueRefused, Enqueue, EnqueueRetries, EnqueueThrows, net
  <2>5. QED  BY <2>1, <2>2, <2>3, <2>4
<1>3. ASSUME NEW c \in Conns PROVE Untouched(c)
  <2>1. InHand(c) => ~Holds(backlog, c)
    BY ServedOpen DEF InHand, Conns
  <2>2. QED  BY <1>1, <1>2, <2>1 DEF Untouched, client
<1>4. 0 \notin Conns
  BY DEF Conns
<1>5. QED  BY <1>1, <1>3, <1>4, MailAt

(* Steps of a worker that send and receive nothing. *)
LEMMA MailSilent ==
  ASSUME TypeOK, WorkerInv, OnceInHand, MailInv, UNCHANGED client, NEW w \in Workers,
         \/ TakeConnection(w) \/ TakeEmptyFn(w) \/ ReleaseSlot(w) \/ CallEmptyFn(w)
         \/ LoopTest(w) \/ ReceiveEnds(w) \/ RespondFails(w) \/ Handle(w) \/ Uncount(w)
  PROVE  MailInv'
<1> DEFINE h == wfd[w]
<1>t. /\ wpc \in [Workers -> WorkerStates]
      /\ wfd \in [Workers -> {0} \cup Conns] /\ wmsg \in [Workers -> Message]
  BY DEF TypeOK, WorkerStates
<1>1. UNCHANGED net
  BY DEF TakeConnection, TakeEmptyFn, Take, ReleaseSlot, CallEmptyFn, LoopTest, ReceiveEnds,
         RespondFails, Handle, Uncount
<1>2. \A v \in Workers \ {w} : wpc'[v] = wpc[v] /\ wfd'[v] = wfd[v] /\ wmsg'[v] = wmsg[v]
  BY <1>t DEF TakeConnection, TakeEmptyFn, Take, ReleaseSlot, CallEmptyFn, LoopTest,
              ReceiveEnds, RespondFails, Handle, Uncount, Worker, working
<1>3. \A c \in Conns : Untouched(c)
  BY <1>1 DEF net, client, Untouched
<1>4. h \in Conns => RequestOk(h) /\ AnswerOk(h)
  BY DEF MailInv
<1>5. WorkOk(w)'
  <2>1. CASE Handle(w)
    <3>1. PICK r \in Results(wmsg[w]) :
            /\ Worker(w, "handle", "respond") /\ wmsg' = [wmsg EXCEPT ![w] = r]
            /\ wfd' = wfd
      BY <2>1 DEF Handle
    <3>2. /\ wpc[w] = "handle" /\ wpc'[w] = "respond" /\ wmsg'[w] = r /\ wfd'[w] = wfd[w]
      BY <1>t, <3>1 DEF Worker
    <3>3. r.id = wmsg[w].id /\ r.type # "PONG"
      <4>1. wmsg[w] \in Message
        BY <1>t
      <4>2. QED  BY <4>1 DEF Results, Message
    <3>4. UNCHANGED <<toServer, toClient, lost, clientClosed, broken, kpc, fd_, call>>
      BY <1>1 DEF net, client
    <3>5. WorkOk(w)
      BY DEF MailInv
    <3>6. QED  BY <3>2, <3>3, <3>4, <3>5 DEF WorkOk, Deaf, Waits
  <2>2. CASE ReleaseSlot(w)
    <3>1. UNCHANGED <<wpc, wfd, wmsg, toServer, toClient, lost, clientClosed, broken, kpc, fd_,
                      call>>
      BY <1>1, <2>2 DEF ReleaseSlot, working, net, client
    <3>2. WorkOk(w)
      BY DEF MailInv
    <3>3. QED  BY <3>1, <3>2 DEF WorkOk, Deaf, Waits
  <2>3. CASE ~Handle(w) /\ ~ReleaseSlot(w)
    <3>1. wpc'[w] \notin {"pong", "handle", "respond"}
      BY <1>t, <2>3 DEF TakeConnection, TakeEmptyFn, Take, CallEmptyFn, LoopTest, ReceiveEnds,
                        RespondFails, Uncount, Worker
    <3>2. QED  BY <3>1 DEF WorkOk
  <2>4. QED  BY <2>1, <2>2, <2>3
<1>6. ASSUME NEW c \in Conns PROVE RequestOk(c)' /\ AnswerOk(c)'
  BY <1>3, UntouchedRequest, UntouchedAnswer DEF MailInv
<1>7. QED  BY <1>2, <1>3, <1>5, <1>6, MailOf

(* A request that is received is the one its client waits with. *)
LEMMA MailReceived ==
  ASSUME TypeOK, QueuesInv, WorkerInv, OneSpot, OnceInHand, MailInv, UNCHANGED client,
         NEW w \in Workers, ReceiveRequest(w)
  PROVE  MailInv'
<1>h. PICK h : h = wfd[w]
  OBVIOUS
<1>m. PICK m : m = Head(toServer[h])
  OBVIOUS
<1>t. /\ wpc \in [Workers -> WorkerStates]
      /\ wmsg \in [Workers -> Message]
      /\ toServer \in [Conns -> Seq(Message)]
  BY DEF TypeOK, QueuesInv, WorkerStates
<1>1. /\ wpc[w] = "recv" /\ toServer[h] # << >>
      /\ wpc' = [wpc EXCEPT ![w] = IF m.type = "PING" THEN "pong" ELSE "handle"]
      /\ toServer' = [toServer EXCEPT ![h] = Tail(toServer[h])]
      /\ wmsg' = [wmsg EXCEPT ![w] = m]
      /\ UNCHANGED <<toClient, clientClosed, lost, serverClosed, broken, wfd, kpc, fd_, call>>
  BY <1>h, <1>m DEF ReceiveRequest, Worker, netElse, client
<1>2. h \in Conns /\ h \notin serverClosed
  BY <1>h, <1>1, ServedOpen DEF WorkerInv
<1>3. toServer[h] \in Seq(Message)
  BY <1>t, <1>2
<1>4. RequestOk(h) /\ AnswerOk(h)
  BY <1>2 DEF MailInv
<1>5. /\ wpc'[w] = IF m.type = "PING" THEN "pong" ELSE "handle"
      /\ wmsg'[w] = m /\ wfd'[w] = h /\ toServer'[h] = Tail(toServer[h])
  BY <1>t, <1>h, <1>1, <1>2
<1>6. /\ \A v \in Workers \ {w} : wpc'[v] = wpc[v] /\ wfd'[v] = wfd[v] /\ wmsg'[v] = wmsg[v]
      /\ \A c \in Conns \ {h} : toServer'[c] = toServer[c]
  BY <1>t, <1>1
<1>7. \A c \in Conns \ {h} : Untouched(c)
  BY <1>1, <1>6 DEF Untouched
<1>8. Len(toServer[h]) \in Nat /\ Len(Tail(toServer[h])) = Len(toServer[h]) - 1
  BY <1>1, <1>3, HoldsTail
<1>9. ASSUME ~(h \in lost \cup clientClosed)
      PROVE  toServer'[h] = << >>
  <2>1. Len(toServer[h]) <= 1
    BY <1>4, <1>9 DEF RequestOk
  <2>2. Tail(toServer[h]) \in Seq(Message)
    BY <1>1, <1>3, HoldsTail
  <2>3. Len(Tail(toServer[h])) \in Nat
    BY <2>2, LenProperties
  <2>4. Len(Tail(toServer[h])) = 0
    <3>1. \A n, i \in Nat : n <= 1 /\ i = n - 1 => i = 0
      OBVIOUS
    <3>2. QED  BY <1>8, <2>1, <2>3, <3>1, Zenon
  <2>5. QED  BY <1>5, <2>2, <2>4, EmptySeq
<1>10. RequestOk(h)'
  <2>1. Len(<< >>) <= 1
    OBVIOUS
  <2>2. Len(toServer'[h]) <= 1 \/ h \in lost' \cup clientClosed'
    BY <1>1, <1>9, <2>1
  <2>3. Gone(h)' \/ toServer'[h] = << >>
    BY <1>1, <1>9 DEF Gone
  <2>4. QED  BY <2>2, <2>3 DEF RequestOk
<1>11. AnswerOk(h)'
  BY <1>1, <1>4 DEF AnswerOk, Waits
<1>12. WorkOk(w)'
  <2> SUFFICES ASSUME h \notin lost \cup clientClosed \cup broken
               PROVE  /\ toServer'[h] = << >> /\ toClient'[h] = << >>
                      /\ wpc'[w] # "respond"
                      /\ \E k \in Clients : /\ Waits(k, h)' /\ wmsg'[w].id = call'[k].id
                                            /\ wpc'[w] = "pong" <=> call'[k].type = "PING"
    BY <1>h, <1>1, <1>5 DEF WorkOk, Deaf, Waits
  <2>1. ~Gone(h)
    BY <1>2 DEF Gone
  <2>2. toClient[h] = << >> /\ \E k \in Clients : Waits(k, h) /\ m = call[k]
    BY <1>m, <1>1, <1>4, <2>1 DEF RequestOk
  <2>3. PICK k \in Clients : Waits(k, h) /\ m = call[k]
    BY <2>2
  <2>4. Waits(k, h)' /\ call'[k] = m
    BY <1>1, <2>3 DEF Waits
  <2>5. QED  BY <1>1, <1>5, <1>9, <2>2, <2>4
<1>13. QED  BY <1>h, <1>6, <1>7, <1>10, <1>11, <1>12, MailOf

(* An answer goes to the client that waits for it. *)
LEMMA MailAnswered ==
  ASSUME TypeOK, QueuesInv, WorkerInv, OneSpot, OnceInHand, MailInv, UNCHANGED client,
         NEW w \in Workers, SendPong(w) \/ Respond(w)
  PROVE  MailInv'
<1>h. PICK h : h = wfd[w]
  OBVIOUS
<1>m. PICK m :
        m = IF wpc[w] = "pong" THEN [wmsg[w] EXCEPT !.type = "PONG"] ELSE wmsg[w]
  OBVIOUS
<1>t. /\ wpc \in [Workers -> WorkerStates]
      /\ wmsg \in [Workers -> Message]
      /\ toClient \in [Conns -> Seq(Message)]
  BY DEF TypeOK, QueuesInv, WorkerStates
<1>1. /\ wpc[w] \in {"pong", "respond"}
      /\ wpc' = [wpc EXCEPT ![w] = "loop"]
      /\ IF ClientGone(h) THEN UNCHANGED toClient
         ELSE toClient' = [toClient EXCEPT ![h] = Append(toClient[h], m)]
      /\ wmsg' = [wmsg EXCEPT ![w] = None]
      /\ UNCHANGED <<toServer, clientClosed, lost, serverClosed, broken, wfd, kpc, fd_, call>>
  BY <1>h, <1>m DEF SendPong, Respond, Sends, Worker, netElse, client
<1>2. h \in Conns /\ h \notin serverClosed
  BY <1>h, <1>1, ServedOpen DEF WorkerInv
<1>3. RequestOk(h) /\ AnswerOk(h) /\ WorkOk(w)
  BY <1>2 DEF MailInv
<1>4. m.id = wmsg[w].id /\ (wpc[w] = "pong" => m.type = "PONG") /\ m \in Message
  <2>1. wmsg[w] \in Message
    BY <1>t
  <2>2. QED  BY <1>m, <2>1 DEF Message
<1>5. wpc[w] = "respond" => m = wmsg[w]
  BY <1>m
<1>6. /\ \A v \in Workers \ {w} : wpc'[v] = wpc[v] /\ wfd'[v] = wfd[v] /\ wmsg'[v] = wmsg[v]
      /\ \A c \in Conns \ {h} : toClient'[c] = toClient[c]
      /\ wpc'[w] = "loop"
  BY <1>t, <1>1
<1>7. \A c \in Conns \ {h} : Untouched(c)
  BY <1>1, <1>6 DEF Untouched
<1>8. WorkOk(w)'
  BY <1>6 DEF WorkOk
<1>9. RequestOk(h)' /\ AnswerOk(h)'
  <2>1. CASE ClientGone(h)
    <3>1. Untouched(h)
      BY <1>1, <2>1 DEF Untouched
    <3>2. QED  BY <1>3, <3>1, UntouchedRequest, UntouchedAnswer
  <2>2. CASE ~ClientGone(h) /\ h \in lost
    <3>1. QED  BY <1>1, <2>2 DEF RequestOk, AnswerOk, Gone
  <2>3. CASE ~ClientGone(h) /\ h \notin lost
    <3>1. h \notin lost \cup clientClosed \cup broken
      BY <2>3 DEF ClientGone
    <3>2. /\ toServer[h] = << >> /\ toClient[h] = << >>
          /\ wpc[w] = "respond" => wmsg[w].type # "PONG"
          /\ \E k \in Clients : /\ Waits(k, h) /\ wmsg[w].id = call[k].id
                                /\ wpc[w] = "pong" <=> call[k].type = "PING"
      BY <1>h, <1>1, <1>3, <3>1 DEF WorkOk, Deaf
    <3>3. toClient'[h] = Append(<< >>, m)
      BY <1>t, <1>1, <1>2, <2>3, <3>2
    <3>4. Len(toClient'[h]) = 1 /\ Head(toClient'[h]) = m
      BY <1>4, <3>3
    <3>5. PICK k \in Clients : /\ Waits(k, h) /\ wmsg[w].id = call[k].id
                               /\ wpc[w] = "pong" <=> call[k].type = "PING"
      BY <3>2
    <3>6. Waits(k, h)' /\ call'[k] = call[k]
      BY <1>1, <3>5 DEF Waits
    <3>7. m.id = call'[k].id /\ (m.type = "PONG" <=> call'[k].type = "PING")
      BY <1>1, <1>4, <1>5, <3>2, <3>5, <3>6
    <3>8. AnswerOk(h)'
      BY <3>4, <3>6, <3>7 DEF AnswerOk
    <3>9. toServer'[h] = << >> /\ Len(<< >>) <= 1
      BY <1>1, <3>2
    <3>10. RequestOk(h)'
      BY <3>9 DEF RequestOk
    <3>11. QED  BY <3>8, <3>10
  <2>4. QED  BY <2>1, <2>2, <2>3
<1>10. QED  BY <1>h, <1>6, <1>7, <1>8, <1>9, MailOf

(* A connection that its worker closes takes the requests with it. *)
LEMMA MailClosed ==
  ASSUME TypeOK, QueuesInv, WorkerInv, OneSpot, OnceInHand, MailInv, UNCHANGED client,
         NEW w \in Workers, CloseConnection(w)
  PROVE  MailInv'
<1>h. PICK h : h = wfd[w]
  OBVIOUS
<1>t. /\ wpc \in [Workers -> WorkerStates]
      /\ wfd \in [Workers -> {0} \cup Conns]
      /\ toServer \in [Conns -> Seq(Message)]
  BY DEF TypeOK, QueuesInv, WorkerStates
<1>1. /\ wpc[w] = "close" /\ wpc' = [wpc EXCEPT ![w] = "uncount"]
      /\ serverClosed' = serverClosed \cup {h} /\ broken' = broken \ {h}
      /\ toServer' = [toServer EXCEPT ![h] = << >>]
      /\ wfd' = [wfd EXCEPT ![w] = 0]
      /\ UNCHANGED <<toClient, clientClosed, lost, wmsg, kpc, fd_, call>>
  BY <1>h DEF CloseConnection, Worker, netElse, client
<1>2. h \in Conns
  BY <1>h, <1>1, ServedOpen DEF WorkerInv
<1>3. AnswerOk(h)
  BY <1>2 DEF MailInv
<1>4. /\ \A v \in Workers \ {w} : wpc'[v] = wpc[v] /\ wfd'[v] = wfd[v] /\ wmsg'[v] = wmsg[v]
      /\ \A c \in Conns \ {h} : toServer'[c] = toServer[c]
      /\ wpc'[w] = "uncount" /\ toServer'[h] = << >>
  BY <1>t, <1>1, <1>2
<1>5. \A c \in Conns \ {h} : Untouched(c)
  BY <1>1, <1>4 DEF Untouched
<1>6. WorkOk(w)'
  BY <1>4 DEF WorkOk
<1>7. AnswerOk(h)'
  BY <1>1, <1>3 DEF AnswerOk, Waits
<1>8. Len(<< >>) <= 1
  OBVIOUS
<1>9. RequestOk(h)'
  BY <1>4, <1>8 DEF RequestOk
<1>10. QED  BY <1>h, <1>4, <1>5, <1>6, <1>7, <1>9, MailOf

(* What a client waits for, in one place: the traces of its call. *)
LEMMA OneTrace ==
  ASSUME TypeOK, ClientInv, MailInv, NEW k \in Clients, NEW h \in Conns, fd_[k] = h,
         kpc[k] # "recv", h \notin lost \cup clientClosed
  PROVE  /\ toClient[h] = << >>
         /\ h \notin serverClosed \cup broken => toServer[h] = << >>
         /\ h \notin broken =>
              \A w \in Workers : wfd[w] = h => wpc[w] \notin {"pong", "handle", "respond"}
<1>1. \A j \in Clients : ~Waits(j, h)
  <2>1. h # 0 /\ \A j \in Clients : fd_[j] = h => j = k
    BY DEF ClientInv, Unconnected, Conns
  <2>2. QED  BY <2>1 DEF Waits
<1>2. RequestOk(h) /\ AnswerOk(h)
  BY DEF MailInv
<1>3. toClient[h] = << >>
  BY <1>1, <1>2 DEF AnswerOk
<1>4. h \notin serverClosed \cup broken => toServer[h] = << >>
  BY <1>1, <1>2 DEF RequestOk, Gone
<1>5. ASSUME h \notin broken, NEW w \in Workers, wfd[w] = h,
             wpc[w] \in {"pong", "handle", "respond"}
      PROVE  FALSE
  <2>1. WorkOk(w) /\ ~Deaf(wfd[w])
    BY <1>5 DEF MailInv, Deaf
  <2>2. \E j \in Clients : Waits(j, wfd[w])
    BY <1>5, <2>1 DEF WorkOk
  <2>3. QED  BY <1>1, <1>5, <2>2
<1>6. QED  BY <1>3, <1>4, <1>5

(* Clients that neither wait nor send. *)
LEMMA MailIdle ==
  ASSUME TypeOK, WorkerInv, ClientInv, MailInv, UNCHANGED server, NEW k \in Clients,
         connect(k) \/ ConnectThrows(k) \/ submit(k) \/ ping(k) \/ SendThrows(k)
  PROVE  MailInv'
<1>t. /\ fd_ \in [Clients -> {0} \cup Conns] /\ kpc \in [Clients -> {"idle", "send", "recv"}]
      /\ call \in [Clients -> Message]
  BY DEF TypeOK, Unconnected
<1>1. UNCHANGED <<toServer, toClient, lost, clientClosed, serverClosed, broken, working>>
  BY DEF connect, ConnectThrows, submit, ping, Call, SendThrows, InCall, net, server
<1>2. kpc[k] # "recv"
  BY DEF connect, ConnectThrows, Overwrites, submit, ping, Call, SendThrows, InCall
<1>3. \A j \in Clients \ {k} : kpc'[j] = kpc[j] /\ fd_'[j] = fd_[j] /\ call'[j] = call[j]
  <2>1. CASE connect(k) \/ ConnectThrows(k)
    BY <1>t, <2>1 DEF connect, ConnectThrows, Overwrites
  <2>2. CASE submit(k) \/ ping(k)
    BY <1>t, <2>2 DEF submit, ping, Call
  <2>3. CASE SendThrows(k)
    BY <1>t, <2>3 DEF SendThrows, InCall
  <2>4. QED  BY <2>1, <2>2, <2>3
<1>4. \A c \in Conns : Untouched(c)
  BY <1>1, <1>2, <1>3 DEF Untouched
<1>5. 0 \notin Conns
  BY DEF Conns
<1>6. QED  BY <1>1, <1>4, <1>5, MailAt

(* What is still on its way to a client that disconnects is thrown away. *)
LEMMA MailDisconnected ==
  ASSUME TypeOK, QueuesInv, WorkerInv, ClientInv, MailInv, UNCHANGED server,
         NEW k \in Clients, disconnect(k)
  PROVE  MailInv'
<1>h. PICK h : h = fd_[k]
  OBVIOUS
<1>t. /\ fd_ \in [Clients -> {0} \cup Conns]
      /\ toClient \in [Conns -> Seq(Message)]
  BY DEF TypeOK, QueuesInv, Unconnected
<1>1. /\ kpc[k] = "idle" /\ fd_' = [fd_ EXCEPT ![k] = 0]
      /\ clientClosed' = clientClosed \cup ({h} \cap Conns) /\ lost' = lost \ {h}
      /\ broken' = broken \ {h}
      /\ toClient' = [c \in Conns |-> IF c = h THEN << >> ELSE toClient[c]]
      /\ UNCHANGED <<toServer, serverClosed, kpc, call, working>>
  BY <1>h DEF disconnect, server, Unconnected
<1>2. \A j \in Clients : kpc[j] = "recv" => fd_'[j] = fd_[j]
  BY <1>t, <1>1
<1>3. \A c \in Conns \ {h} : Untouched(c)
  BY <1>1, <1>2 DEF Untouched
<1>4. ASSUME h \in Conns PROVE RequestOk(h)' /\ AnswerOk(h)'
  <2>1. h \in clientClosed' /\ toClient'[h] = << >> /\ Len(<< >>) <= 1
    BY <1>1, <1>4
  <2>2. QED  BY <2>1 DEF RequestOk, AnswerOk, Gone
<1>5. ASSUME NEW w \in Workers, wfd[w] = h, h \in Conns PROVE WorkOk(w)'
  <2>1. wfd'[w] = h /\ h \in clientClosed'
    BY <1>1, <1>5 DEF working
  <2>2. QED  BY <2>1 DEF WorkOk, Deaf
<1>6. QED  BY <1>1, <1>3, <1>4, <1>5, MailAt

(* A request is sent on a connection that holds nothing of an earlier one. *)
LEMMA MailSent ==
  ASSUME TypeOK, QueuesInv, WorkerInv, ClientInv, MailInv, UNCHANGED server,
         NEW k \in Clients, Send(k)
  PROVE  MailInv'
<1>h. PICK h : h = fd_[k]
  OBVIOUS
<1>t. /\ fd_ \in [Clients -> {0} \cup Conns] /\ kpc \in [Clients -> {"idle", "send", "recv"}]
      /\ toServer \in [Conns -> Seq(Message)] /\ call \in [Clients -> Message]
  BY DEF TypeOK, QueuesInv, Unconnected
<1>1. /\ kpc[k] = "send" /\ kpc' = [kpc EXCEPT ![k] = "recv"] /\ h # 0
      /\ IF ServerGone(h) THEN UNCHANGED toServer
         ELSE toServer' = [toServer EXCEPT ![h] = Append(toServer[h], call[k])]
      /\ UNCHANGED <<toClient, lost, clientClosed, serverClosed, broken, fd_, call, working>>
  BY <1>h DEF Send, InCall, server, Unconnected
<1>2. h \in Conns /\ h \notin clientClosed
  BY <1>h, <1>t, <1>1 DEF ClientInv, Unconnected
<1>3. kpc'[k] = "recv" /\ \A j \in Clients : kpc[j] = "recv" => kpc'[j] = "recv"
  BY <1>t, <1>1
<1>4. \A c \in Conns \ {h} : toServer'[c] = toServer[c]
  BY <1>t, <1>1
<1>5. \A c \in Conns \ {h} : Untouched(c)
  BY <1>1, <1>3, <1>4 DEF Untouched
<1>6. CASE ServerGone(h)
  <2>1. Untouched(h)
    BY <1>1, <1>3, <1>6 DEF Untouched
  <2>2. \A c \in Conns \ {0} : Untouched(c)
    BY <1>5, <2>1
  <2>3. 0 \notin Conns
    BY DEF Conns
  <2>4. QED  BY <1>1, <2>2, <2>3, MailAt
<1>7. CASE ~ServerGone(h) /\ h \in lost
  <2>1. RequestOk(h)' /\ AnswerOk(h)'
    BY <1>1, <1>7 DEF RequestOk, AnswerOk, Gone
  <2>2. ASSUME NEW w \in Workers, wfd[w] = h, h \in Conns PROVE WorkOk(w)'
    <3>1. wfd'[w] = h /\ h \in lost'
      BY <1>1, <1>7, <2>2 DEF working
    <3>2. QED  BY <3>1 DEF WorkOk, Deaf
  <2>3. QED  BY <1>1, <1>5, <2>1, <2>2, MailAt
<1>8. CASE ~ServerGone(h) /\ h \notin lost
  <2>1. /\ toClient[h] = << >> /\ toServer[h] = << >>
        /\ \A w \in Workers : wfd[w] = h => wpc[w] \notin {"pong", "handle", "respond"}
    BY <1>h, <1>1, <1>2, <1>8, OneTrace DEF ServerGone
  <2>2. call[k] \in Message
    BY <1>t
  <2>3. toServer'[h] = Append(<< >>, call[k])
    BY <1>t, <1>1, <1>2, <1>8, <2>1
  <2>4. Len(toServer'[h]) = 1 /\ Head(toServer'[h]) = call[k]
    BY <2>2, <2>3
  <2>5. Waits(k, h)' /\ call'[k] = call[k]
    BY <1>h, <1>1, <1>3 DEF Waits
  <2>6. toClient'[h] = << >> /\ Len(<< >>) <= 1
    BY <1>1, <2>1
  <2>7. RequestOk(h)'
    BY <2>4, <2>5, <2>6 DEF RequestOk
  <2>8. AnswerOk(h)'
    BY <2>6 DEF AnswerOk
  <2>9. ASSUME NEW w \in Workers, wfd[w] = h, h \in Conns PROVE WorkOk(w)'
    <3>1. wpc'[w] \notin {"pong", "handle", "respond"}
      BY <1>1, <2>1, <2>9 DEF working
    <3>2. QED  BY <3>1 DEF WorkOk
  <2>10. QED  BY <1>1, <1>5, <2>7, <2>8, <2>9, MailAt
<1>9. QED  BY <1>6, <1>7, <1>8

(* A call that returns leaves no trace behind, or a connection that is     *)
(* out of step or ended.                                                   *)
LEMMA MailReturned ==
  ASSUME TypeOK, QueuesInv, WorkerInv, OneSpot, ClientInv, MailInv, UNCHANGED server,
         NEW k \in Clients,
         Answer(k) \/ AnswerTooLarge(k) \/ ReceiveThrows(k) \/ Noise(k)
  PROVE  MailInv'
<1>h. PICK h : h = fd_[k]
  OBVIOUS
<1>t. /\ fd_ \in [Clients -> {0} \cup Conns] /\ kpc \in [Clients -> {"idle", "send", "recv"}]
      /\ toClient \in [Conns -> Seq(Message)] /\ call \in [Clients -> Message]
  BY DEF TypeOK, QueuesInv, Unconnected
<1>1. /\ kpc[k] = "recv" /\ kpc' = [kpc EXCEPT ![k] = "idle"]
      /\ call' = [call EXCEPT ![k] = NoCall]
      /\ UNCHANGED <<toServer, clientClosed, serverClosed, broken, fd_, working>>
  BY DEF Answer, AnswerTooLarge, ReceiveThrows, Noise, InCall, server
<1>2. \/ /\ h \notin lost /\ toClient[h] # << >> /\ lost' = lost
         /\ toClient' = [toClient EXCEPT ![h] = Tail(toClient[h])]
      \/ lost' = lost \cup {h} /\ toClient' = toClient
      \/ toClient[h] = << >> /\ ServerGone(h) /\ UNCHANGED <<toClient, lost>>
  <2>1. CASE Answer(k)
    BY <1>h, <2>1 DEF Answer
  <2>2. CASE AnswerTooLarge(k)
    BY <1>h, <2>2 DEF AnswerTooLarge
  <2>3. CASE ReceiveThrows(k)
    BY <1>h, <2>3 DEF ReceiveThrows
  <2>4. CASE Noise(k)
    <3>1. lost' = lost /\ h \in lost /\ toClient' = toClient
      BY <1>h, <2>4 DEF Noise
    <3>2. lost \cup {h} = lost
      BY <3>1
    <3>3. QED  BY <3>1, <3>2
  <2>5. QED  BY <2>1, <2>2, <2>3, <2>4
<1>3. h \in Conns
  BY <1>h, <1>t, <1>1 DEF ClientInv, Unconnected
<1>4. /\ \A j \in Clients \ {k} : kpc'[j] = kpc[j] /\ call'[j] = call[j]
      /\ \A c \in Conns \ {h} : toClient'[c] = toClient[c] /\ (c \in lost <=> c \in lost')
  BY <1>t, <1>1, <1>2
<1>5. \A c \in Conns \ {h} : Untouched(c)
  BY <1>h, <1>1, <1>4 DEF Untouched
<1>6. RequestOk(h) /\ AnswerOk(h)
  BY <1>3 DEF MailInv
<1>7. Len(<< >>) <= 1
  OBVIOUS
<1>8. CASE /\ h \notin lost /\ toClient[h] # << >> /\ lost' = lost
           /\ toClient' = [toClient EXCEPT ![h] = Tail(toClient[h])]
  <2>1. toClient[h] \in Seq(Message) /\ Len(toClient[h]) <= 1
    BY <1>t, <1>3, <1>6, <1>8 DEF AnswerOk
  <2>2. /\ Tail(toClient[h]) \in Seq(Message) /\ Len(toClient[h]) \in Nat
        /\ Len(Tail(toClient[h])) = Len(toClient[h]) - 1
    BY <1>8, <2>1, HoldsTail
  <2>3. Len(Tail(toClient[h])) \in Nat
    BY <2>2, LenProperties
  <2>4. \A n, i \in Nat : n <= 1 /\ i = n - 1 => i = 0
    OBVIOUS
  <2>5. Len(Tail(toClient[h])) = 0
    BY <2>1, <2>2, <2>3, <2>4, Zenon
  <2>6. toClient'[h] = << >>
    BY <1>t, <1>3, <1>8, <2>2, <2>5, EmptySeq
  <2>7. AnswerOk(h)'
    BY <1>7, <2>6 DEF AnswerOk
  <2>8. Gone(h) \/ toServer[h] = << >>
    BY <1>6, <1>8 DEF RequestOk
  <2>9. Gone(h) => Gone(h)'
    BY <1>1, <1>8 DEF Gone
  <2>10. RequestOk(h)'
    BY <1>1, <1>6, <1>8, <2>8, <2>9 DEF RequestOk
  <2>11. ASSUME NEW w \in Workers, wfd[w] = h, h \in Conns PROVE WorkOk(w)'
    <3>1. wfd'[w] = wfd[w] /\ wpc'[w] = wpc[w]
      BY <1>1 DEF working
    <3>2. WorkOk(w)
      BY DEF MailInv
    <3>3. wpc[w] \notin {"pong", "handle", "respond"} \/ Deaf(h)
      BY <1>8, <2>11, <3>2 DEF WorkOk
    <3>4. Deaf(h) => Deaf(h)'
      BY <1>1, <1>8 DEF Deaf
    <3>5. QED  BY <2>11, <3>1, <3>3, <3>4 DEF WorkOk, Deaf
  <2>12. QED  BY <1>1, <1>5, <2>7, <2>10, <2>11, MailAt
<1>9. CASE lost' = lost \cup {h} /\ toClient' = toClient
  <2>1. h \in lost'
    BY <1>9
  <2>2. RequestOk(h)' /\ AnswerOk(h)'
    BY <2>1 DEF RequestOk, AnswerOk, Gone
  <2>3. ASSUME NEW w \in Workers, wfd[w] = h, h \in Conns PROVE WorkOk(w)'
    <3>1. wfd'[w] = h
      BY <1>1, <2>3 DEF working
    <3>2. QED  BY <2>1, <3>1 DEF WorkOk, Deaf
  <2>4. QED  BY <1>1, <1>5, <2>2, <2>3, MailAt
<1>10. CASE toClient[h] = << >> /\ ServerGone(h) /\ UNCHANGED <<toClient, lost>>
  <2>1. AnswerOk(h)'
    BY <1>7, <1>10 DEF AnswerOk
  <2>2. Gone(h)'
    BY <1>1, <1>10 DEF Gone, ServerGone
  <2>3. RequestOk(h)'
    BY <1>1, <1>6, <1>10, <2>2 DEF RequestOk
  <2>4. ASSUME NEW w \in Workers, wfd[w] = h, h \in Conns PROVE WorkOk(w)'
    <3>1. h \notin serverClosed
      BY <2>4, ServedOpen DEF Conns
    <3>2. wfd'[w] = h /\ h \in broken'
      BY <1>1, <1>10, <2>4, <3>1 DEF working, ServerGone
    <3>3. QED  BY <3>2 DEF WorkOk, Deaf
  <2>5. QED  BY <1>1, <1>5, <2>1, <2>3, <2>4, MailAt
<1>11. QED  BY <1>2, <1>8, <1>9, <1>10

(* What was on its way on a connection that breaks is lost. *)
LEMMA MailBroken ==
  ASSUME TypeOK, QueuesInv, WorkerInv, MailInv, UNCHANGED <<server, client>>,
         NEW h \in Conns, Break(h)
  PROVE  MailInv'
<1>t. toServer \in [Conns -> Seq(Message)] /\ toClient \in [Conns -> Seq(Message)]
  BY DEF QueuesInv
<1>1. /\ broken' = broken \cup {h}
      /\ toServer' = [toServer EXCEPT ![h] = << >>] /\ toClient' = [toClient EXCEPT ![h] = << >>]
      /\ UNCHANGED <<clientClosed, serverClosed, lost, working, kpc, fd_, call>>
  BY DEF Break, server, client
<1>2. /\ toServer'[h] = << >> /\ toClient'[h] = << >> /\ Len(<< >>) <= 1
      /\ \A c \in Conns \ {h} : toServer'[c] = toServer[c] /\ toClient'[c] = toClient[c]
  BY <1>t, <1>1
<1>3. \A c \in Conns \ {h} : Untouched(c)
  BY <1>1, <1>2 DEF Untouched
<1>4. RequestOk(h)' /\ AnswerOk(h)'
  BY <1>2 DEF RequestOk, AnswerOk
<1>5. ASSUME NEW w \in Workers, wfd[w] = h, h \in Conns PROVE WorkOk(w)'
  <2>1. wfd'[w] = h /\ h \in broken'
    BY <1>1, <1>5 DEF working
  <2>2. QED  BY <2>1 DEF WorkOk, Deaf
<1>6. QED  BY <1>1, <1>3, <1>4, <1>5, MailAt

(* Of every call there is one trace. *)
LEMMA MailStep ==
  ASSUME TypeOK, QueuesInv, LifeInv, PlaceInv, ClientInv, MailInv, [Next]_vars
  PROVE  MailInv'
<1>i. WorkerInv /\ OneSpot /\ OnceInHand
  BY DEF LifeInv, PlaceInv
<1>1. ASSUME ServerNext, UNCHANGED client PROVE MailInv'
  <2>1. CASE start \/ stop \/ Destroy \/ StopStep \/ AcceptStep
    BY <1>i, <1>1, <2>1, MailOwner
  <2>2. ASSUME NEW w \in Workers, WorkerStep(w) PROVE MailInv'
    BY <1>i, <1>1, <2>2, MailSilent, MailReceived, MailAnswered, MailClosed DEF WorkerStep
  <2>3. QED  BY <1>1, <2>1, <2>2 DEF ServerNext
<1>2. ASSUME ClientNext, UNCHANGED server PROVE MailInv'
  <2>1. PICK k \in Clients :
          \/ connect(k) \/ ConnectThrows(k) \/ disconnect(k)
          \/ submit(k) \/ ping(k) \/ CallStep(k) \/ Noise(k)
    BY <1>2 DEF ClientNext
  <2>2. QED
    BY <1>i, <1>2, <2>1, MailIdle, MailDisconnected, MailSent, MailReturned DEF CallStep
<1>3. ASSUME NEW c \in Conns, Break(c), UNCHANGED <<server, client>> PROVE MailInv'
  BY <1>i, <1>3, MailBroken
<1>4. CASE UNCHANGED vars
  <2>1. UNCHANGED <<toServer, toClient, lost, clientClosed, serverClosed, broken, working, kpc,
                    fd_, call>>
    BY <1>4 DEF vars, net, server, client
  <2>2. \A c \in Conns : Untouched(c)
    BY <2>1 DEF Untouched
  <2>3. 0 \notin Conns
    BY DEF Conns
  <2>4. QED  BY <1>i, <2>1, <2>2, <2>3, MailAt
<1>5. QED  BY <1>1, <1>2, <1>3, <1>4 DEF Next

-----------------------------------------------------------------------------
(***************************************************************************)
(* The shape of the state                                                  *)
(***************************************************************************)
NetShape ==
  /\ listening \in {NoFd} \cup 1..MaxStarts /\ made \in 0..MaxConns
  /\ backlog \in Seq(Conns)
  /\ toServer \in [Conns -> Seq(Message)] /\ toClient \in [Conns -> Seq(Message)]
  /\ clientClosed \subseteq 1..made /\ serverClosed \subseteq 1..made
  /\ broken \subseteq 1..made /\ lost \subseteq 1..made

OwnerShape ==
  /\ running_ \in BOOLEAN /\ server_fd_ \in {NoFd} \cup 1..MaxStarts
  /\ main \in {"down", "up", "exchange", "close", "join", "draining", "destroyed"}
  /\ starts \in 0..MaxStarts

AcceptorShape ==
  /\ apc \in {"none", "load_running", "load_fd", "accept", "count_accepted",
              "count_active", "enqueue", "retry", "exited"}
  /\ sfd \in {NoFd} \cup 1..MaxStarts /\ afd \in {0} \cup Conns
  /\ conn_accepted_ \in Nat /\ dropped \subseteq 1..made

PoolShape ==
  /\ tasks \in Seq(Conns \cup {EmptyFn}) /\ Len(tasks) <= Capacity
  /\ wpc \in [Workers -> WorkerStates]
  /\ wfd \in [Workers -> {0} \cup Conns] /\ wmsg \in [Workers -> Message]
  /\ terminated \in BOOLEAN /\ taken \in Nat /\ slot \in [Workers -> 0..taken]

ClientShape ==
  /\ fd_ \in [Clients -> {Unconnected} \cup Conns]
  /\ next_id_ \in [Clients -> Nat] /\ connected_ \in [Clients -> BOOLEAN]
  /\ call \in [Clients -> Message] /\ kpc \in [Clients -> {"idle", "send", "recv"}]
  /\ leaked \subseteq 1..made

Shape == NetShape /\ OwnerShape /\ AcceptorShape /\ PoolShape /\ ClientShape

\* The shape the step lemmas start from follows from the types and the
\* queues' invariant.
LEMMA ShapeHolds ==
  ASSUME TypeOK, QueuesInv
  PROVE  Shape
<1>1. NetShape
  BY DEF TypeOK, QueuesInv, NetShape
<1>2. OwnerShape
  BY DEF TypeOK, QueuesInv, OwnerShape
<1>3. AcceptorShape
  BY DEF TypeOK, AcceptorShape
<1>4. PoolShape
  BY DEF TypeOK, QueuesInv, PoolShape, WorkerStates
<1>5. ClientShape
  BY DEF TypeOK, ClientShape
<1>6. QED  BY <1>1, <1>2, <1>3, <1>4, <1>5 DEF Shape

(* Together with the counts and the messages, that is all of TypeOK. *)
LEMMA ShapeSuffices ==
  ASSUME Shape, AcceptorInv, OneSpot, ActiveInv, DropInv, MailInv
  PROVE  TypeOK /\ QueuesInv
<1>s. NetShape /\ OwnerShape /\ AcceptorShape /\ PoolShape /\ ClientShape
  BY DEF Shape
<1>1. QueuesInv
  BY <1>s DEF QueuesInv, NetShape, OwnerShape, PoolShape
<1>2. /\ listening \in {NoFd} \cup 1..MaxStarts /\ made \in 0..MaxConns
      /\ clientClosed \cup serverClosed \cup broken \cup lost \subseteq 1..made
  BY <1>s DEF NetShape
<1>3. \A n \in DOMAIN backlog : backlog[n] \in Conns
  BY <1>s DEF NetShape
<1>4. ASSUME NEW c \in Conns
      PROVE  /\ \A q \in {toServer[c], toClient[c]} : \A n \in DOMAIN q : q[n] \in Message
             /\ Len(toServer[c]) <= 1 \/ c \in lost \cup clientClosed
             /\ Len(toClient[c]) <= 1 \/ c \in lost
  <2>1. toServer[c] \in Seq(Message) /\ toClient[c] \in Seq(Message)
    BY <1>s DEF NetShape
  <2>2. RequestOk(c) /\ AnswerOk(c)
    BY DEF MailInv
  <2>3. \A q \in {toServer[c], toClient[c]} : \A n \in DOMAIN q : q[n] \in Message
    BY <2>1
  <2>4. QED  BY <2>2, <2>3 DEF RequestOk, AnswerOk
<1>5. conn_accepted_ \in 0..made /\ taken \in 0..made
  <2>1. /\ Len(backlog) \in Nat /\ conn_accepted_ \in Nat /\ made \in Nat
        /\ Len(tasks) \in Nat /\ taken \in Nat
    BY <1>s, LenProperties DEF NetShape, AcceptorShape, PoolShape
  <2>2. JustAccepted \in Nat /\ Pending \in Nat
    BY DEF JustAccepted, Pending
  <2>3. /\ conn_accepted_ + Len(backlog) + JustAccepted <= made
        /\ taken + Len(tasks) + Pending <= conn_accepted_
    BY DEF DropInv
  <2>4. QED  BY <2>1, <2>2, <2>3
<1>6. conn_active_ \in 0..made
  <2>1. IsFiniteSet(Open) /\ IsFiniteSet(Uncounting)
    <3>1. IsFiniteSet(Conns) /\ IsFiniteSet(Workers)
      BY FS_Interval, TaskServiceAssumption DEF Conns
    <3>2. Open \subseteq Conns /\ Uncounting \subseteq Workers
      BY DEF Open, Uncounting
    <3>3. QED  BY <3>1, <3>2, FS_Subset
  <2>2. Cardinality(Open) \in Nat /\ Cardinality(Uncounting) \in Nat
    BY <2>1, FS_CardinalityType
  <2>3. NotYet <= Cardinality(Open) /\ NotYet \in Nat
    <3>1. CASE apc \in {"count_accepted", "count_active"}
      <4>1. afd \in Conns
        BY <1>s, <3>1 DEF AcceptorInv, AcceptorShape
      <4>2. afd \in Open
        BY <4>1, AtSpot DEF Open, OpenSpots
      <4>3. Cardinality(Open) # 0
        BY <2>1, <4>2, FS_EmptySet
      <4>4. QED  BY <2>2, <3>1, <4>3 DEF NotYet
    <3>2. CASE apc \notin {"count_accepted", "count_active"}
      BY <2>2, <3>2 DEF NotYet
    <3>3. QED  BY <3>1, <3>2
  <2>4. /\ conn_active_ = Cardinality(Open) + Cardinality(Uncounting) - NotYet
        /\ conn_active_ + (IF apc = "count_active" THEN 1 ELSE 0) <= conn_accepted_
    BY DEF ActiveInv
  <2>5. conn_active_ \in Nat
    BY <2>2, <2>3, <2>4
  <2>6. conn_active_ <= conn_accepted_
    BY <1>5, <2>4, <2>5
  <2>7. made \in Nat
    BY <1>s DEF NetShape
  <2>8. QED  BY <1>5, <2>5, <2>6, <2>7
<1>7. \A n \in DOMAIN tasks : tasks[n] \in Conns \cup {EmptyFn}
  BY <1>s DEF PoolShape
<1>8. TypeOK
  BY <1>s, <1>2, <1>3, <1>4, <1>5, <1>6, <1>7
  DEF TypeOK, OwnerShape, AcceptorShape, PoolShape, ClientShape, WorkerStates
<1>9. QED  BY <1>1, <1>8

(* Mail that is sent, received or thrown away. *)
LEMMA MailTypes ==
  ASSUME NEW q \in [Conns -> Seq(Message)], NEW c \in Conns
  PROVE  /\ [q EXCEPT ![c] = << >>] \in [Conns -> Seq(Message)]
         /\ q[c] # << >> => [q EXCEPT ![c] = Tail(@)] \in [Conns -> Seq(Message)]
         /\ \A m \in Message : [q EXCEPT ![c] = Append(@, m)] \in [Conns -> Seq(Message)]
<1>1. q[c] \in Seq(Message) /\ << >> \in Seq(Message)
  OBVIOUS
<1>2. q[c] # << >> => Tail(q[c]) \in Seq(Message)
  BY <1>1, HoldsTail
<1>3. \A m \in Message : Append(q[c], m) \in Seq(Message)
  BY <1>1
<1>4. QED  BY <1>1, <1>2, <1>3

(* No connection is ever unmade. *)
LEMMA MadeGrows ==
  ASSUME Shape, [Next]_vars
  PROVE  /\ made \in Nat /\ made' \in 0..MaxConns /\ made <= made'
         /\ 1..made \subseteq 1..made' /\ 1..made \subseteq Conns
<1>t. made \in 0..MaxConns /\ MaxConns \in Nat
  BY TaskServiceAssumption DEF Shape, NetShape
<1>1. ServerNext => made' = made
  BY ServerSteps
<1>2. ASSUME NEW k \in Clients, connect(k) PROVE made' = made + 1 /\ made < MaxConns
  BY <1>2 DEF connect
<1>3. ASSUME NEW k \in Clients,
             ConnectThrows(k) \/ disconnect(k) \/ submit(k) \/ ping(k) \/ CallStep(k) \/ Noise(k)
      PROVE  made' = made
  BY <1>3 DEF ConnectThrows, disconnect, submit, ping, Call, CallStep, Send, SendThrows,
              Answer, AnswerTooLarge, ReceiveThrows, Noise, InCall, net
<1>4. ASSUME NEW c \in Conns, Break(c) PROVE made' = made
  BY <1>4 DEF Break
<1>5. CASE UNCHANGED vars
  BY <1>t, <1>5 DEF vars, net, Conns
<1>6. made' = made \/ (made' = made + 1 /\ made < MaxConns)
  BY <1>1, <1>2, <1>3, <1>4, <1>5 DEF Next, ClientNext, vars, net
<1>7. QED  BY <1>t, <1>6 DEF Conns

(* Whatever the server has of a connection, it has been made. *)
LEMMA PlacedMade ==
  ASSUME Shape, OneSpot
  PROVE  /\ \A c : Holds(backlog, c) => c \in 1..made
         /\ \A w \in Workers : wfd[w] # 0 => wfd[w] \in 1..made
         /\ afd # 0 => afd \in 1..made
<1>1. ASSUME NEW c \in Conns, NEW s \in Spots, At(c, s) PROVE c \in 1..made
  BY <1>1, OnlySpot DEF Shape, NetShape, Conns
<1>2. ASSUME NEW c, Holds(backlog, c) PROVE c \in 1..made
  <2>1. c \in Conns
    BY <1>2 DEF Holds, Shape, NetShape
  <2>2. At(c, "backlog") /\ "backlog" \in Spots
    BY <1>2, AtSpot DEF Spots
  <2>3. QED  BY <1>1, <2>1, <2>2
<1>3. ASSUME NEW w \in Workers, wfd[w] # 0 PROVE wfd[w] \in 1..made
  <2>1. wfd[w] \in Conns
    BY <1>3 DEF Shape, PoolShape
  <2>2. At(wfd[w], "served") /\ "served" \in Spots
    BY AtSpot DEF Spots, InHand
  <2>3. QED  BY <1>1, <2>1, <2>2
<1>4. ASSUME afd # 0 PROVE afd \in 1..made
  <2>1. afd \in Conns
    BY <1>4 DEF Shape, AcceptorShape
  <2>2. At(afd, "accepted") /\ "accepted" \in Spots
    BY AtSpot DEF Spots
  <2>3. QED  BY <1>1, <2>1, <2>2
<1>5. QED  BY <1>2, <1>3, <1>4

(* The caller's own variables. *)
LEMMA OwnerShapeStep ==
  ASSUME Shape, [Next]_vars
  PROVE  OwnerShape'
<1>t. OwnerShape
  BY DEF Shape
<1>a. MaxStarts \in Nat
  BY TaskServiceAssumption
<1>1. ASSUME UNCHANGED <<main, starts, running_, server_fd_>> PROVE OwnerShape'
  BY <1>t, <1>1 DEF OwnerShape
<1>2. CASE start
  BY <1>t, <1>a, <1>2 DEF start, OwnerShape
<1>3. CASE stop \/ StopExchanges \/ StopCloses \/ StopJoins \/ Destroy \/ Destroyed
  BY <1>t, <1>3
  DEF stop, StopExchanges, StopCloses, StopJoins, Destroy, Destroyed, MainOnly, OwnerShape
<1>4. ASSUME \/ AcceptStep \/ \E w \in Workers : WorkerStep(w)
             \/ ClientNext /\ UNCHANGED server
             \/ (\E c \in Conns : Break(c)) /\ UNCHANGED server
      PROVE  OwnerShape'
  BY <1>1, <1>4, NotTheOwner DEF ClientNext
<1>5. CASE UNCHANGED vars
  BY <1>1, <1>5 DEF vars, server
<1>6. QED  BY <1>2, <1>3, <1>4, <1>5 DEF Next, ServerNext, StopStep

(* The accept thread's. *)
LEMMA AcceptorShapeStep ==
  ASSUME Shape, AcceptorInv, OneSpot, [Next]_vars
  PROVE  AcceptorShape'
<1>t. AcceptorShape /\ 1..made \subseteq 1..made'
  BY MadeGrows DEF Shape
<1>1. ASSUME UNCHANGED <<apc, sfd, afd, conn_accepted_, dropped>> PROVE AcceptorShape'
  BY <1>t, <1>1 DEF AcceptorShape
<1>2. CASE start
  BY <1>t, <1>2 DEF start, counters, AcceptorShape
<1>3. CASE stop \/ StopExchanges \/ StopCloses \/ StopJoins \/ Destroy \/ Destroyed
  BY <1>1, <1>3 DEF stop, StopExchanges, StopCloses, StopJoins, Destroy, Destroyed, MainOnly,
                    counters, accepting
<1>4. CASE LoadRunning \/ LoadFd
  <2>1. server_fd_ \in {NoFd} \cup 1..MaxStarts
    BY DEF Shape, OwnerShape
  <2>2. QED
    BY <1>t, <1>4, <2>1 DEF LoadRunning, LoadFd, AcceptorLoads, AcceptorOnly, AcceptorShape
<1>5. CASE Accept
  <2>1. /\ apc' = "count_accepted" /\ afd' = Head(backlog) /\ sfd' = NoFd
        /\ UNCHANGED <<conn_accepted_, dropped>> /\ backlog # << >>
    BY <1>5 DEF Accept, AcceptorOnly, counters
  <2>2. Head(backlog) \in Conns
    BY <2>1, HoldsTail DEF Shape, NetShape
  <2>3. QED  BY <1>t, <2>1, <2>2 DEF AcceptorShape
<1>6. CASE AcceptFails
  BY <1>t, <1>6 DEF AcceptFails, AcceptorOnly, AcceptorShape
<1>7. CASE EnqueueRefused
  <2>1. /\ apc = "enqueue" /\ apc' = "retry" /\ afd' = 0 /\ dropped' = dropped \cup {afd}
        /\ UNCHANGED <<sfd, conn_accepted_>>
    BY <1>7 DEF EnqueueRefused, AcceptorOnly
  <2>2. afd \in 1..made
    BY <2>1, PlacedMade DEF AcceptorInv
  <2>3. QED  BY <1>t, <2>1, <2>2 DEF AcceptorShape
<1>8. CASE Enqueue \/ EnqueueRetries \/ EnqueueThrows
  BY <1>t, <1>8 DEF Enqueue, EnqueueRetries, EnqueueThrows, AcceptorOnly, AcceptorShape
<1>c. CASE CountAccepted
  BY <1>t, <1>c DEF CountAccepted, AcceptorOnly, AcceptorShape
<1>a. CASE CountActive
  BY <1>t, <1>a DEF CountActive, AcceptorOnly, AcceptorShape
<1>9. ASSUME NEW w \in Workers, WorkerStep(w) PROVE AcceptorShape'
  BY <1>1, <1>9
  DEF WorkerStep, TakeConnection, TakeEmptyFn, Take, ReleaseSlot, CallEmptyFn, LoopTest,
      ReceiveRequest, ReceiveEnds, SendPong, Handle, Respond, RespondFails, CloseConnection,
      Uncount, Worker, accepting, counters
<1>10. CASE UNCHANGED server
  BY <1>1, <1>10 DEF server, counters, accepting
<1>11. QED
  BY <1>2, <1>3, <1>4, <1>5, <1>6, <1>7, <1>8, <1>c, <1>a, <1>9, <1>10
  DEF Next, ServerNext, StopStep, AcceptStep, vars

(* The pool's. *)
LEMMA PoolShapeStep ==
  ASSUME Shape, AcceptorInv, WorkerInv, [Next]_vars
  PROVE  PoolShape'
<1>t. PoolShape
  BY DEF Shape
<1>q. /\ tasks \in Seq(Conns \cup {EmptyFn}) /\ Len(tasks) \in Nat /\ Len(tasks) <= Capacity
      /\ Capacity \in Nat
  BY <1>t, LenProperties, TaskServiceAssumption DEF PoolShape
<1>w. /\ wpc \in [Workers -> WorkerStates]
      /\ wfd \in [Workers -> {0} \cup Conns] /\ wmsg \in [Workers -> Message]
      /\ taken \in Nat /\ slot \in [Workers -> 0..taken]
  BY <1>t DEF PoolShape
<1>n. None \in Message
  BY DEF Message, None
<1>1. ASSUME UNCHANGED <<tasks, slots, working, terminated>> PROVE PoolShape'
  BY <1>t, <1>1 DEF PoolShape, slots, working
<1>2. CASE start \/ stop \/ StopExchanges \/ StopCloses \/ StopJoins \/ Destroy \/ Destroyed
  BY <1>1, <1>2 DEF start, stop, StopExchanges, StopCloses, StopJoins, Destroy, Destroyed,
                    MainOnly
<1>3. CASE \/ LoadRunning \/ LoadFd \/ Accept \/ AcceptFails \/ CountAccepted
           \/ CountActive \/ EnqueueRefused
  BY <1>1, <1>3 DEF LoadRunning, LoadFd, AcceptorLoads, Accept, AcceptFails, CountAccepted,
                    CountActive, EnqueueRefused, AcceptorOnly
<1>4. CASE Enqueue \/ EnqueueRetries
  <2>1. PICK e \in Conns \cup {EmptyFn} :
          tasks' = Append(tasks, e) /\ UNCHANGED <<slots, working, terminated>>
    <3>1. CASE Enqueue
      <4>1. afd \in Conns
        BY <3>1 DEF Enqueue, AcceptorOnly, AcceptorInv, Shape, AcceptorShape
      <4>2. QED  BY <3>1, <4>1 DEF Enqueue, AcceptorOnly
    <3>2. CASE EnqueueRetries
      BY <3>2 DEF EnqueueRetries, AcceptorOnly
    <3>3. QED  BY <1>4, <3>1, <3>2
  <2>2. tasks' \in Seq(Conns \cup {EmptyFn}) /\ Len(tasks') = Len(tasks) + 1
    BY <1>q, <2>1, HoldsAppend
  <2>3. Len(tasks) < Capacity
    BY <1>4, <1>q DEF Enqueue, EnqueueRetries, Full
  <2>4. Len(tasks') <= Capacity
    BY <1>q, <2>2, <2>3
  <2>5. QED  BY <1>t, <2>1, <2>2, <2>4 DEF PoolShape, slots, working
<1>5. CASE EnqueueThrows
  BY <1>t, <1>5 DEF EnqueueThrows, AcceptorOnly, PoolShape, slots, working
<1>6. ASSUME NEW w \in Workers, TakeConnection(w) \/ TakeEmptyFn(w) PROVE PoolShape'
  <2>1. PICK to \in {"loop", "empty"} : Take(w, to)
    BY <1>6 DEF TakeConnection, TakeEmptyFn
  <2>2. /\ tasks # << >> /\ tasks' = Tail(tasks) /\ UNCHANGED <<wmsg, terminated>>
        /\ wpc' = [wpc EXCEPT ![w] = to]
        /\ taken' = taken + 1 /\ slot' = [slot EXCEPT ![w] = taken + 1]
    BY <2>1 DEF Take
  <2>3. wfd' = wfd \/ (Head(tasks) # EmptyFn /\ wfd' = [wfd EXCEPT ![w] = Head(tasks)])
    BY <1>6 DEF TakeConnection, TakeEmptyFn
  <2>4. /\ tasks' \in Seq(Conns \cup {EmptyFn}) /\ Len(tasks') = Len(tasks) - 1
        /\ Head(tasks) \in Conns \cup {EmptyFn}
    BY <1>q, <2>2, HoldsTail
  <2>5. Len(tasks') <= Capacity
    BY <1>q, <2>4
  <2>6. wfd' \in [Workers -> {0} \cup Conns]
    BY <1>w, <2>3, <2>4
  <2>7. wpc' \in [Workers -> WorkerStates]
    BY <1>w, <2>1, <2>2 DEF WorkerStates
  <2>8. taken' \in Nat /\ slot' \in [Workers -> 0..taken']
    <3>1. 0..taken \subseteq 0..(taken + 1) /\ taken + 1 \in 0..(taken + 1)
      BY <1>w
    <3>2. QED  BY <1>w, <2>2, <3>1
  <2>9. QED  BY <1>t, <1>w, <2>2, <2>4, <2>5, <2>6, <2>7, <2>8 DEF PoolShape
<1>r. ASSUME NEW w \in Workers, ReleaseSlot(w) PROVE PoolShape'
  <2>1. slot' = [slot EXCEPT ![w] = 0] /\ UNCHANGED <<tasks, taken, working, terminated>>
    BY <1>r DEF ReleaseSlot
  <2>2. slot' \in [Workers -> 0..taken]
    BY <1>w, <2>1
  <2>3. QED  BY <1>t, <2>1, <2>2 DEF PoolShape, working
<1>7. ASSUME NEW w \in Workers,
             \/ CallEmptyFn(w) \/ LoopTest(w) \/ ReceiveRequest(w) \/ ReceiveEnds(w)
             \/ SendPong(w) \/ Handle(w) \/ Respond(w) \/ RespondFails(w)
             \/ CloseConnection(w) \/ Uncount(w)
      PROVE  PoolShape'
  <2>1. /\ UNCHANGED <<tasks, slots>> /\ (wfd' = wfd \/ wfd' = [wfd EXCEPT ![w] = 0])
        /\ terminated' = terminated \/ terminated' = TRUE
    BY <1>7 DEF CallEmptyFn, LoopTest, ReceiveRequest, ReceiveEnds, SendPong, Handle, Respond,
                RespondFails, CloseConnection, Uncount, Worker
  <2>2. PICK to \in WorkerStates : wpc' = [wpc EXCEPT ![w] = to]
    BY <1>7 DEF CallEmptyFn, LoopTest, ReceiveRequest, ReceiveEnds, SendPong, Handle, Respond,
                RespondFails, CloseConnection, Uncount, Worker, WorkerStates
  <2>3. wmsg' = wmsg \/ \E m \in Message : wmsg' = [wmsg EXCEPT ![w] = m]
    <3>1. CASE ReceiveRequest(w)
      <4>1. /\ wpc[w] = "recv" /\ toServer[wfd[w]] # << >>
            /\ wmsg' = [wmsg EXCEPT ![w] = Head(toServer[wfd[w]])]
        BY <3>1 DEF ReceiveRequest
      <4>2. wfd[w] \in Conns
        BY <1>w, <4>1 DEF WorkerInv
      <4>3. toServer[wfd[w]] \in Seq(Message)
        BY <4>2 DEF Shape, NetShape
      <4>4. Head(toServer[wfd[w]]) \in Message
        BY <4>1, <4>3, HoldsTail
      <4>5. QED  BY <4>1, <4>4
    <3>2. CASE Handle(w)
      <4>1. PICK r \in Results(wmsg[w]) : wmsg' = [wmsg EXCEPT ![w] = r]
        BY <3>2 DEF Handle
      <4>2. wmsg[w] \in Message
        BY <1>w
      <4>3. /\ [wmsg[w] EXCEPT !.type = "RESPONSE"] \in Message
            /\ [wmsg[w] EXCEPT !.type = "RESPONSE", !.big = TRUE] \in Message
            /\ [wmsg[w] EXCEPT !.type = "ERROR"] \in Message
        BY <4>2 DEF Message
      <4>4. r \in Message
        BY <4>3 DEF Results
      <4>5. QED  BY <4>1, <4>4
    <3>3. CASE SendPong(w) \/ Respond(w) \/ RespondFails(w)
      BY <1>n, <3>3 DEF SendPong, Respond, RespondFails
    <3>4. CASE CallEmptyFn(w) \/ LoopTest(w) \/ ReceiveEnds(w) \/ CloseConnection(w) \/ Uncount(w)
      BY <3>4 DEF CallEmptyFn, LoopTest, ReceiveEnds, CloseConnection, Uncount
    <3>5. QED  BY <1>7, <3>1, <3>2, <3>3, <3>4
  <2>4. wfd' \in [Workers -> {0} \cup Conns]
    BY <1>w, <2>1
  <2>5. wpc' \in [Workers -> WorkerStates]
    BY <1>w, <2>2
  <2>6. wmsg' \in [Workers -> Message]
    BY <1>w, <2>3
  <2>7. terminated' \in BOOLEAN
    BY <1>t, <2>1 DEF PoolShape
  <2>8. QED  BY <1>t, <2>1, <2>4, <2>5, <2>6, <2>7 DEF PoolShape, slots
<1>8. CASE UNCHANGED server
  BY <1>1, <1>8 DEF server
<1>9. QED
  BY <1>2, <1>3, <1>4, <1>5, <1>6, <1>r, <1>7, <1>8
  DEF Next, ServerNext, StopStep, AcceptStep, WorkerStep, vars

(* The clients'. *)
LEMMA ClientShapeStep ==
  ASSUME Shape, ClientInv, [Next]_vars
  PROVE  ClientShape'
<1>t. ClientShape /\ 1..made \subseteq 1..made'
  BY MadeGrows DEF Shape
<1>c. /\ fd_ \in [Clients -> {0} \cup Conns]
      /\ next_id_ \in [Clients -> Nat] /\ connected_ \in [Clients -> BOOLEAN]
      /\ call \in [Clients -> Message] /\ kpc \in [Clients -> {"idle", "send", "recv"}]
      /\ leaked \subseteq 1..made'
  BY <1>t DEF ClientShape, Unconnected
<1>n. NoCall \in Message
  BY DEF NoCall, Message
<1>1. ASSUME UNCHANGED client PROVE ClientShape'
  BY <1>c, <1>1 DEF ClientShape, client, Unconnected
<1>2. ASSUME NEW k \in Clients, connect(k) \/ ConnectThrows(k) PROVE ClientShape'
  <2>1. PICK fd \in {0} \cup Conns : Overwrites(k, fd)
    <3>1. CASE connect(k)
      <4>1. made + 1 \in Conns
        BY <3>1, TaskServiceAssumption DEF connect, Shape, NetShape, Conns
      <4>2. QED  BY <3>1, <4>1 DEF connect
    <3>2. CASE ConnectThrows(k)
      BY <3>2 DEF ConnectThrows, Unconnected
    <3>3. QED  BY <1>2, <3>1, <3>2
  <2>2. connected_' \in [Clients -> BOOLEAN]
    BY <1>2, <1>c DEF connect, ConnectThrows
  <2>3. fd_' \in [Clients -> {0} \cup Conns]
    BY <1>c, <2>1 DEF Overwrites
  <2>4. {fd_[k]} \cap Conns \subseteq 1..made
    <3>1. fd_[k] = 0 \/ fd_[k] \in 1..made
      BY DEF ClientInv, Unconnected
    <3>2. QED  BY <3>1 DEF Conns
  <2>5. leaked' \subseteq 1..made'
    BY <1>t, <1>c, <2>1, <2>4 DEF Overwrites
  <2>6. QED  BY <1>c, <2>1, <2>2, <2>3, <2>5 DEF ClientShape, Overwrites, Unconnected
<1>3. ASSUME NEW k \in Clients, disconnect(k) PROVE ClientShape'
  BY <1>c, <1>3 DEF disconnect, ClientShape, Unconnected
<1>4. ASSUME NEW k \in Clients, submit(k) \/ ping(k) PROVE ClientShape'
  <2>1. PICK type \in {"REQUEST", "PING"}, big \in BOOLEAN : Call(k, type, big)
    BY <1>4 DEF submit, ping
  <2>2. [type |-> type, id |-> next_id_[k], big |-> big] \in Message
    BY <1>c DEF Message
  <2>3. call' \in [Clients -> Message]
    BY <1>c, <2>1, <2>2 DEF Call
  <2>4. next_id_' \in [Clients -> Nat]
    BY <1>c, <2>1 DEF Call
  <2>5. kpc' \in [Clients -> {"idle", "send", "recv"}]
    BY <1>c, <2>1 DEF Call
  <2>6. QED  BY <1>c, <2>1, <2>3, <2>4, <2>5 DEF Call, ClientShape, Unconnected
<1>5. ASSUME NEW k \in Clients, CallStep(k) \/ Noise(k) PROVE ClientShape'
  <2>1. PICK from, to \in {"idle", "recv", "send"} : InCall(k, from, to)
    BY <1>5 DEF CallStep, Send, SendThrows, Answer, AnswerTooLarge, ReceiveThrows, Noise
  <2>2. call' \in [Clients -> Message]
    BY <1>c, <1>n, <2>1 DEF InCall
  <2>3. kpc' \in [Clients -> {"idle", "send", "recv"}]
    BY <1>c, <2>1 DEF InCall
  <2>4. QED  BY <1>c, <2>1, <2>2, <2>3 DEF InCall, ClientShape, Unconnected
<1>6. QED
  BY <1>1, <1>2, <1>3, <1>4, <1>5 DEF Next, ClientNext, vars

(* The network's, as far as the server changes it. *)
LEMMA NetShapeServer ==
  ASSUME Shape, WorkerInv, OneSpot, ServerNext
  PROVE  NetShape'
<1>t. NetShape
  BY DEF Shape
<1>m. made' = made /\ clientClosed' = clientClosed /\ lost' = lost
  BY ServerSteps
<1>b. backlog \in Seq(Conns) /\ (backlog # << >> => Head(backlog) \in Conns)
  BY <1>t, HoldsTail DEF NetShape
<1>1. ASSUME UNCHANGED net PROVE NetShape'
  BY <1>t, <1>1 DEF NetShape, net
<1>2. CASE start
  <2>1. starts + 1 \in 1..MaxStarts
    BY <1>2, TaskServiceAssumption DEF start, Shape, OwnerShape
  <2>2. QED  BY <1>t, <1>2, <2>1 DEF start, setup_socket, NetShape
<1>3. CASE stop \/ StopExchanges \/ StopJoins \/ Destroy \/ Destroyed
  BY <1>1, <1>3 DEF stop, StopExchanges, StopJoins, Destroy, Destroyed
<1>4. CASE StopCloses
  <2>1. /\ listening' = NoFd /\ backlog' = << >> /\ UNCHANGED <<toServer, toClient>>
        /\ serverClosed' = serverClosed \cup Range(backlog)
        /\ broken' = broken \ Range(backlog)
    BY <1>4 DEF StopCloses
  <2>2. Range(backlog) \subseteq 1..made
    BY <1>b, RangeHolds, PlacedMade
  <2>3. << >> \in Seq(Conns)
    OBVIOUS
  <2> DEFINE R == Range(backlog)
  <2> HIDE DEF R
  <2>4. serverClosed' \subseteq 1..made /\ broken' \subseteq 1..made
    BY <1>t, <2>1, <2>2 DEF NetShape, R
  <2>5. QED  BY <1>t, <1>m, <2>1, <2>3, <2>4 DEF NetShape
<1>5. CASE Accept
  <2>1. /\ backlog # << >> /\ backlog' = Tail(backlog)
        /\ UNCHANGED <<listening, toServer, toClient, serverClosed, broken>>
    BY <1>5 DEF Accept
  <2>2. backlog' \in Seq(Conns)
    BY <1>b, <2>1, HoldsTail
  <2>3. QED  BY <1>t, <1>m, <2>1, <2>2 DEF NetShape
<1>6. CASE AcceptFails
  <2>1. /\ UNCHANGED <<listening, toServer, toClient>>
        /\ \/ UNCHANGED <<backlog, serverClosed, broken>>
           \/ /\ backlog # << >> /\ backlog' = Tail(backlog)
              /\ serverClosed' = serverClosed \cup {Head(backlog)}
              /\ broken' = broken \ {Head(backlog)}
    BY <1>6 DEF AcceptFails
  <2>2. backlog # << >> => Tail(backlog) \in Seq(Conns) /\ Head(backlog) \in 1..made
    BY <1>b, HoldsTail, PlacedMade
  <2>3. backlog' \in Seq(Conns) /\ serverClosed' \subseteq 1..made /\ broken' \subseteq 1..made
    BY <1>t, <2>1, <2>2 DEF NetShape
  <2>4. QED  BY <1>t, <1>m, <2>1, <2>3 DEF NetShape
<1>7. CASE \/ LoadRunning \/ LoadFd \/ CountAccepted \/ CountActive
           \/ EnqueueRefused \/ Enqueue \/ EnqueueRetries \/ EnqueueThrows
  BY <1>1, <1>7
  DEF LoadRunning, LoadFd, AcceptorLoads, CountAccepted, CountActive, EnqueueRefused, Enqueue,
      EnqueueRetries, EnqueueThrows
<1>8. ASSUME NEW w \in Workers,
             \/ TakeConnection(w) \/ TakeEmptyFn(w) \/ ReleaseSlot(w) \/ CallEmptyFn(w)
             \/ LoopTest(w) \/ ReceiveEnds(w) \/ Handle(w) \/ RespondFails(w) \/ Uncount(w)
      PROVE  NetShape'
  BY <1>1, <1>8 DEF TakeConnection, TakeEmptyFn, Take, ReleaseSlot, CallEmptyFn, LoopTest,
                    ReceiveEnds, Handle, RespondFails, Uncount
<1>9. ASSUME NEW w \in Workers,
             ReceiveRequest(w) \/ SendPong(w) \/ Respond(w) \/ CloseConnection(w)
      PROVE  NetShape'
  <2>1. wpc[w] \notin {"idle", "empty", "uncount"} /\ UNCHANGED netElse
    BY <1>9 DEF ReceiveRequest, SendPong, Respond, CloseConnection, Worker
  <2>2. wfd[w] \in Conns /\ wfd[w] \in 1..made /\ wmsg[w] \in Message
    BY <2>1, PlacedMade DEF WorkerInv, Shape, PoolShape
  <2>3. toServer \in [Conns -> Seq(Message)] /\ toClient \in [Conns -> Seq(Message)]
    BY <1>t DEF NetShape
  <2>4. toServer' \in [Conns -> Seq(Message)]
    <3>1. CASE ReceiveRequest(w)
      BY <2>2, <2>3, <3>1, MailTypes DEF ReceiveRequest
    <3>2. CASE SendPong(w) \/ Respond(w)
      BY <2>3, <3>2 DEF SendPong, Respond
    <3>3. CASE CloseConnection(w)
      BY <2>2, <2>3, <3>3, MailTypes DEF CloseConnection
    <3>4. QED  BY <1>9, <3>1, <3>2, <3>3
  <2>5. toClient' \in [Conns -> Seq(Message)]
    <3>1. CASE ReceiveRequest(w) \/ CloseConnection(w)
      BY <2>3, <3>1 DEF ReceiveRequest, CloseConnection
    <3>2. [wmsg[w] EXCEPT !.type = "PONG"] \in Message
      BY <2>2 DEF Message
    <3>3. ASSUME NEW m \in Message, Sends(w, m) PROVE toClient' \in [Conns -> Seq(Message)]
      <4>1. [toClient EXCEPT ![wfd[w]] = Append(@, m)] \in [Conns -> Seq(Message)]
        BY <2>2, <2>3, MailTypes
      <4>2. \/ toClient' = toClient
            \/ toClient' = [toClient EXCEPT ![wfd[w]] = Append(@, m)]
        BY <3>3 DEF Sends
      <4>3. QED  BY <2>3, <4>1, <4>2
    <3>4. CASE SendPong(w)
      BY <3>2, <3>3, <3>4 DEF SendPong
    <3>5. CASE Respond(w)
      BY <2>2, <3>3, <3>5 DEF Respond
    <3>6. QED  BY <1>9, <3>1, <3>4, <3>5
  <2>6. serverClosed' \subseteq 1..made /\ broken' \subseteq 1..made
    BY <1>t, <1>9, <2>2 DEF ReceiveRequest, SendPong, Respond, CloseConnection, NetShape
  <2>7. QED  BY <1>t, <1>m, <2>1, <2>4, <2>5, <2>6 DEF NetShape, netElse
<1>10. QED
  BY <1>2, <1>3, <1>4, <1>5, <1>6, <1>7, <1>8, <1>9
  DEF ServerNext, StopStep, AcceptStep, WorkerStep

(* And as far as the clients do. *)
LEMMA NetShapeStep ==
  ASSUME Shape, WorkerInv, OneSpot, ClientInv, [Next]_vars
  PROVE  NetShape'
<1>t. NetShape /\ MaxConns \in Nat
  BY TaskServiceAssumption DEF Shape
<1>q. toServer \in [Conns -> Seq(Message)] /\ toClient \in [Conns -> Seq(Message)]
  BY <1>t DEF NetShape
<1>k. \A k \in Clients : fd_[k] # 0 => fd_[k] \in Conns /\ fd_[k] \in 1..made
  BY <1>t DEF ClientInv, Unconnected, Shape, ClientShape
<1>1. ASSUME UNCHANGED net PROVE NetShape'
  BY <1>t, <1>1 DEF NetShape, net
<1>2. ASSUME NEW k \in Clients, connect(k) PROVE NetShape'
  <2>1. /\ made' = made + 1 /\ made < MaxConns /\ backlog' = Append(backlog, made + 1)
        /\ UNCHANGED <<listening, toServer, toClient, clientClosed, serverClosed, broken, lost>>
    BY <1>2 DEF connect
  <2>2. made + 1 \in Conns /\ made' \in 0..MaxConns /\ 1..made \subseteq 1..made'
    BY <1>t, <2>1 DEF NetShape, Conns
  <2>3. backlog' \in Seq(Conns)
    BY <1>t, <2>1, <2>2 DEF NetShape
  <2>4. QED  BY <1>t, <2>1, <2>2, <2>3 DEF NetShape
<1>3. ASSUME NEW k \in Clients, ConnectThrows(k) \/ submit(k) \/ ping(k) PROVE NetShape'
  BY <1>1, <1>3 DEF ConnectThrows, submit, ping, Call
<1>4. ASSUME NEW k \in Clients, disconnect(k) PROVE NetShape'
  <2>1. /\ clientClosed' = clientClosed \cup ({fd_[k]} \cap Conns) /\ lost' = lost \ {fd_[k]}
        /\ broken' = broken \ {fd_[k]}
        /\ toClient' = [c \in Conns |-> IF c = fd_[k] THEN << >> ELSE toClient[c]]
        /\ UNCHANGED <<listening, backlog, made, toServer, serverClosed>>
    BY <1>4 DEF disconnect
  <2>2. clientClosed' \subseteq 1..made
    <3>1. 0 \notin Conns
      BY DEF Conns
    <3>2. QED  BY <1>t, <1>k, <2>1, <3>1 DEF NetShape
  <2>3. toClient' \in [Conns -> Seq(Message)]
    BY <1>q, <2>1
  <2>4. QED  BY <1>t, <2>1, <2>2, <2>3 DEF NetShape
<1>5. ASSUME NEW k \in Clients, CallStep(k) \/ Noise(k) PROVE NetShape'
  <2>1. UNCHANGED <<listening, backlog, made, clientClosed, serverClosed, broken>>
    BY <1>5
    DEF CallStep, Send, SendThrows, Answer, AnswerTooLarge, ReceiveThrows, Noise, InCall
  <2>2. CASE Send(k)
    <3>1. /\ fd_[k] # 0 /\ UNCHANGED <<toClient, lost>>
          /\ \/ UNCHANGED toServer
             \/ toServer' = [toServer EXCEPT ![fd_[k]] = Append(@, call[k])]
      BY <2>2 DEF Send, Unconnected
    <3>2. call[k] \in Message
      BY DEF Shape, ClientShape
    <3>3. toServer' \in [Conns -> Seq(Message)]
      <4>1. fd_[k] \in Conns
        BY <1>k, <3>1
      <4>2. [toServer EXCEPT ![fd_[k]] = Append(@, call[k])] \in [Conns -> Seq(Message)]
        BY <1>q, <3>2, <4>1, MailTypes
      <4>3. QED  BY <1>q, <3>1, <4>2
    <3>4. QED  BY <1>t, <2>1, <3>1, <3>3 DEF NetShape
  <2>3. CASE SendThrows(k) \/ ReceiveThrows(k) \/ Noise(k)
    <3>1. UNCHANGED <<toServer, toClient, lost>>
      BY <2>3 DEF SendThrows, ReceiveThrows, Noise
    <3>2. QED  BY <1>1, <2>1, <3>1 DEF net
  <2>4. ASSUME kpc[k] = "recv" PROVE fd_[k] \in Conns /\ fd_[k] \in 1..made
    BY <1>k, <2>4 DEF ClientInv, Unconnected
  <2>5. CASE Answer(k)
    <3>1. /\ kpc[k] = "recv" /\ toClient[fd_[k]] # << >> /\ UNCHANGED <<toServer, lost>>
          /\ toClient' = [toClient EXCEPT ![fd_[k]] = Tail(@)]
      BY <2>5 DEF Answer, InCall
    <3>2. toClient' \in [Conns -> Seq(Message)]
      BY <1>q, <2>4, <3>1, MailTypes
    <3>3. QED  BY <1>t, <2>1, <3>1, <3>2 DEF NetShape
  <2>6. CASE AnswerTooLarge(k)
    <3>1. kpc[k] = "recv" /\ UNCHANGED <<toServer, toClient>> /\ lost' = lost \cup {fd_[k]}
      BY <2>6 DEF AnswerTooLarge, InCall
    <3>2. lost' \subseteq 1..made
      BY <1>t, <2>4, <3>1 DEF NetShape
    <3>3. QED  BY <1>t, <2>1, <3>1, <3>2 DEF NetShape
  <2>7. QED  BY <1>5, <2>2, <2>3, <2>5, <2>6 DEF CallStep
<1>6. ASSUME NEW c \in Conns, Break(c) PROVE NetShape'
  <2>1. toServer' \in [Conns -> Seq(Message)] /\ toClient' \in [Conns -> Seq(Message)]
    BY <1>q, <1>6, MailTypes DEF Break
  <2>2. broken' \subseteq 1..made
    BY <1>t, <1>6 DEF Break, NetShape
  <2>3. QED  BY <1>t, <1>6, <2>1, <2>2 DEF Break, NetShape
<1>7. QED
  BY <1>1, <1>2, <1>3, <1>4, <1>5, <1>6, NetShapeServer DEF Next, ClientNext, vars

\* Every step keeps the shape, from which the types in the next state follow.
LEMMA ShapeStep ==
  ASSUME Shape, LifeInv, PlaceInv, ClientInv, [Next]_vars
  PROVE  Shape'
<1>1. AcceptorInv /\ WorkerInv /\ OneSpot
  BY DEF LifeInv, PlaceInv
<1>2. QED
  BY <1>1, NetShapeStep, OwnerShapeStep, AcceptorShapeStep, PoolShapeStep, ClientShapeStep
  DEF Shape

-----------------------------------------------------------------------------
(***************************************************************************)
(* Theorems                                                                *)
(***************************************************************************)

(* In the beginning there are no connections, tasks, calls or messages. *)
LEMMA InitHolds ==
  ASSUME Init
  PROVE  IInv
<1>n. NetInit /\ ServerInit /\ ClientInit
  BY DEF Init
<1>q. << >> \in Seq(Conns) /\ << >> \in Seq(Conns \cup {EmptyFn}) /\ << >> \in Seq(Message)
      /\ Len(<< >>) = 0
  OBVIOUS
<1>m. None \in Message /\ NoCall \in Message
  BY DEF None, NoCall, Message
<1>a. /\ MaxConns \in Nat /\ MaxStarts \in Nat /\ Capacity \in Nat
      /\ 0 \notin Conns /\ EmptyFn \notin Conns
  BY TaskServiceAssumption DEF Conns
<1>1. NetShape
  BY <1>n, <1>q, <1>a DEF NetInit, NetShape
<1>b. running_ \in BOOLEAN /\ terminated \in BOOLEAN
  BY <1>n, Zenon DEF ServerInit
<1>2. OwnerShape
  BY <1>n, <1>a, <1>b DEF ServerInit, OwnerShape
<1>3. AcceptorShape
  BY <1>n DEF ServerInit, AcceptorShape
<1>4. PoolShape
  BY <1>n, <1>q, <1>m, <1>a, <1>b DEF ServerInit, PoolShape, WorkerStates
<1>5. ClientShape
  BY <1>n, <1>m DEF ClientInit, ClientShape
<1>6. LifeInv
  BY <1>n DEF NetInit, ServerInit, LifeInv, ListenInv, AcceptorInv, WorkerInv, EndInv
<1>7. PlaceInv /\ ActiveInv
  <2>1. /\ backlog = << >> /\ tasks = << >> /\ afd = 0 /\ serverClosed = {} /\ dropped = {}
        /\ made = 0 /\ \A w \in Workers : wfd[w] = 0
    BY <1>n DEF NetInit, ServerInit
  <2>2. (\A c : ~Holds(backlog, c)) /\ (\A c : ~Holds(tasks, c))
    BY <2>1, HoldsNothing
  <2>3. \A c \in Conns : \A s \in Spots : ~At(c, s)
    BY <1>a, <2>1, <2>2 DEF At, InHand
  <2>4. \A c \in Conns : ~(c <= made)
    BY <2>1 DEF Conns
  <2>5. OneSpot
    BY <2>3, <2>4 DEF OneSpot
  <2>6. Once(backlog) /\ Once(tasks) /\ OnceInHand
    BY <2>1, HoldsNothing DEF OnceInHand
  <2>7. PlaceInv
    BY <2>5, <2>6 DEF PlaceInv
  <2>8. Open = {} /\ Uncounting = {}
    BY <1>n, <2>3 DEF Open, OpenSpots, Spots, ServerInit, Uncounting
  <2>9. Cardinality(Open) = 0 /\ Cardinality(Uncounting) = 0
    BY <2>8, FS_EmptySet
  <2>10. conn_active_ = 0 /\ conn_accepted_ = 0 /\ apc = "none"
    BY <1>n DEF ServerInit
  <2>11. NotYet = 0
    BY <2>10 DEF NotYet
  <2>12. ActiveInv
    BY <2>9, <2>10, <2>11 DEF ActiveInv
  <2>13. QED  BY <2>7, <2>12
<1>8. DropInv
  <2>1. /\ backlog = << >> /\ tasks = << >> /\ dropped = {} /\ apc = "none"
        /\ made = 0 /\ conn_accepted_ = 0 /\ terminated = FALSE /\ taken = 0
        /\ \A w \in Workers : wpc[w] = "idle"
    BY <1>n DEF NetInit, ServerInit
  <2>2. ~Holds(tasks, EmptyFn) /\ ~Calling
    BY <2>1, HoldsNothing DEF Calling
  <2>3. /\ conn_accepted_ + Len(backlog) + JustAccepted <= made
        /\ taken + Len(tasks) + Pending <= conn_accepted_
    BY <1>q, <2>1 DEF Pending, JustAccepted
  <2>4. QED  BY <2>1, <2>2, <2>3 DEF DropInv
<1>9. ClientInv
  BY <1>n DEF ClientInit, ClientInv, Unconnected
<1>10. MailInv
  <2>1. \A c \in Conns : toServer[c] = << >> /\ toClient[c] = << >>
    BY <1>n DEF NetInit
  <2>2. \A w \in Workers : wpc[w] = "idle"
    BY <1>n DEF ServerInit
  <2>3. \A c \in Conns : RequestOk(c) /\ AnswerOk(c)
    BY <1>q, <2>1 DEF RequestOk, AnswerOk
  <2>4. \A w \in Workers : WorkOk(w)
    BY <2>2 DEF WorkOk
  <2>5. QED  BY <2>3, <2>4 DEF MailInv
<1>11. Shape /\ OneSpot /\ ActiveInv /\ AcceptorInv
  BY <1>1, <1>2, <1>3, <1>4, <1>5, <1>6, <1>7 DEF Shape, PlaceInv, LifeInv
<1>12. TypeOK /\ QueuesInv
  BY <1>8, <1>10, <1>11, ShapeSuffices
<1>13. QED  BY <1>6, <1>7, <1>8, <1>9, <1>10, <1>12 DEF IInv

(* Every step of the server, its clients and the network keeps it. *)
LEMMA NextHolds ==
  ASSUME IInv, [Next]_vars
  PROVE  IInv'
<1>i. /\ TypeOK /\ QueuesInv /\ LifeInv /\ PlaceInv /\ ActiveInv /\ DropInv
      /\ ClientInv /\ MailInv /\ ListenInv /\ AcceptorInv /\ WorkerInv /\ EndInv
  BY DEF IInv, LifeInv
<1>1. PlaceInv'
  BY <1>i, PlaceStep
<1>2. LifeInv'
  BY <1>i, ListenStep, AcceptorStep, WorkersStep, EndStep DEF LifeInv
<1>3. DropInv'
  BY <1>i, DropStep
<1>4. ClientInv'
  BY <1>i, ClientStep
<1>5. MailInv'
  BY <1>i, MailStep
<1>6. Shape'
  BY <1>i, ShapeHolds, ShapeStep
<1>7. ActiveInv'
  BY <1>i, ActiveStep
<1>8. OneSpot' /\ AcceptorInv'
  BY <1>1, <1>2 DEF PlaceInv, LifeInv
<1>9. (Shape /\ AcceptorInv /\ OneSpot /\ ActiveInv /\ DropInv /\ MailInv
         => TypeOK /\ QueuesInv)'
  BY ShapeSuffices, PTL
<1>10. TypeOK' /\ QueuesInv'
  BY <1>3, <1>5, <1>6, <1>7, <1>8, <1>9
<1>11. QED  BY <1>1, <1>2, <1>3, <1>4, <1>5, <1>7, <1>10 DEF IInv

(* The inductive invariant of a server, its clients and the connections    *)
(* between them holds at all times.                                        *)
THEOREM Invariance == Spec => []IInv
<1>1. Init => IInv
  BY InitHolds
<1>2. IInv /\ [Next]_vars => IInv'
  BY NextHolds
<1>3. QED  BY <1>1, <1>2, PTL DEF Spec

(* The variables of task_server.h and task_client.h keep their types; the  *)
(* gauge of open connections does not go below zero, and a connection      *)
(* holds one message each way at most while its client is in step.         *)
THEOREM TypeCorrect == Spec => []TypeOK
<1>1. IInv => TypeOK
  BY DEF IInv
<1>2. QED  BY <1>1, Invariance, PTL

(* The process dies, and a connection is forgotten, only after more        *)
(* connections have been accepted than the pool has room for               *)
(* (task_server.h:147).                                                    *)
THEOREM ServerSurvives == Spec => []SurvivesWithinCapacity
<1>1. IInv => SurvivesWithinCapacity
  BY DEF IInv, DropInv, SurvivesWithinCapacity
<1>2. QED  BY <1>1, Invariance, PTL

(* A call returns the answer to its own request (task_client.h:111-124,    *)
(* 136-138), although nobody compares the ids.                             *)
THEOREM CallsGetTheirAnswers == Spec => AnswersMatch
<1>1. ASSUME IInv, NEW k \in Clients, Answer(k)
      PROVE  LET m == Head(toClient[fd_[k]])
             IN  m.id = call[k].id /\ (m.type = "PONG" <=> call[k].type = "PING")
  <2>1. kpc[k] = "recv" /\ fd_[k] \notin lost /\ toClient[fd_[k]] # << >>
    BY <1>1 DEF Answer, InCall
  <2>2. TypeOK /\ ClientInv /\ MailInv
    BY <1>1 DEF IInv
  <2>3. fd_[k] \in Conns /\ fd_[k] # Unconnected
    BY <2>1, <2>2 DEF TypeOK, ClientInv
  <2>4. AnswerOk(fd_[k])
    BY <2>2, <2>3 DEF MailInv
  <2>5. PICK j \in Clients :
          /\ Waits(j, fd_[k]) /\ Head(toClient[fd_[k]]).id = call[j].id
          /\ Head(toClient[fd_[k]]).type = "PONG" <=> call[j].type = "PING"
    BY <2>1, <2>4 DEF AnswerOk
  <2>6. j = k
    BY <2>2, <2>3, <2>5 DEF Waits, ClientInv
  <2>7. QED  BY <2>5, <2>6
<1>2. IInv => [\A k \in Clients : Answer(k) =>
                 LET m == Head(toClient[fd_[k]])
                 IN  m.id = call[k].id /\ (m.type = "PONG" <=> call[k].type = "PING")]_vars
  BY <1>1
<1>3. QED  BY <1>2, Invariance, PTL DEF AnswersMatch

(* What Places lists of a connection is where it is at. *)
LEMMA PlaceIsSpot ==
  ASSUME QueuesInv, NEW c, NEW x \in Places(c)
  PROVE  \E s \in Spots : \E n :
           /\ x = <<s, n>> /\ At(c, s)
           /\ s = "backlog" => n \in 1..Len(backlog) /\ backlog[n] = c
           /\ s = "queued" => n \in 1..Len(tasks) /\ tasks[n] = c
           /\ s = "served" => n \in Workers /\ wfd[n] = c
           /\ s \in {"accepted", "closed", "dropped"} => n = c
<1>q. DOMAIN backlog = 1..Len(backlog) /\ DOMAIN tasks = 1..Len(tasks)
  BY LenProperties DEF QueuesInv
<1>s. /\ "backlog" \in Spots /\ "accepted" \in Spots /\ "queued" \in Spots
      /\ "served" \in Spots /\ "closed" \in Spots /\ "dropped" \in Spots
  BY DEF Spots
<1>1. ASSUME NEW n \in 1..Len(backlog), backlog[n] = c PROVE At(c, "backlog")
  BY <1>1, AtSpot DEF Holds
<1>2. ASSUME NEW n \in 1..Len(tasks), tasks[n] = c PROVE At(c, "queued")
  BY <1>2, AtSpot DEF Holds
<1>3. ASSUME NEW w \in Workers, wfd[w] = c PROVE At(c, "served")
  BY <1>3, AtSpot DEF InHand
<1>4. CASE \E n \in {i \in DOMAIN backlog : backlog[i] = c} : x = <<"backlog", n>>
  BY <1>q, <1>s, <1>1, <1>4
<1>5. CASE \E n \in {afd} \cap {c} : x = <<"accepted", n>>
  <2>1. At(c, "accepted") /\ x = <<"accepted", c>>
    BY <1>5, AtSpot
  <2>2. QED  BY <1>s, <2>1
<1>6. CASE \E n \in {i \in DOMAIN tasks : tasks[i] = c} : x = <<"queued", n>>
  BY <1>q, <1>s, <1>2, <1>6
<1>7. CASE \E w \in {v \in Workers : wfd[v] = c} : x = <<"served", w>>
  BY <1>s, <1>3, <1>7
<1>8. CASE \E n \in serverClosed \cap {c} : x = <<"closed", n>>
  <2>1. At(c, "closed") /\ x = <<"closed", c>>
    BY <1>8, AtSpot
  <2>2. QED  BY <1>s, <2>1
<1>9. CASE \E n \in dropped \cap {c} : x = <<"dropped", n>>
  <2>1. At(c, "dropped") /\ x = <<"dropped", c>>
    BY <1>9, AtSpot
  <2>2. QED  BY <1>s, <2>1
<1>10. QED  BY <1>4, <1>5, <1>6, <1>7, <1>8, <1>9 DEF Places

(* And the other way round. *)
LEMMA SpotIsPlace ==
  ASSUME QueuesInv, NEW c, NEW s \in Spots, At(c, s)
  PROVE  Places(c) # {}
<1>q. DOMAIN backlog = 1..Len(backlog) /\ DOMAIN tasks = 1..Len(tasks)
  BY LenProperties DEF QueuesInv
<1>1. CASE s = "backlog"
  <2>1. PICK n \in DOMAIN backlog : backlog[n] = c
    BY <1>q, <1>1, AtSpot DEF Holds
  <2>2. <<"backlog", n>> \in Places(c)
    BY <2>1 DEF Places
  <2>3. QED  BY <2>2
<1>2. CASE s = "accepted"
  <2>1. <<"accepted", c>> \in Places(c)
    BY <1>2, AtSpot DEF Places
  <2>2. QED  BY <2>1
<1>3. CASE s = "queued"
  <2>1. PICK n \in DOMAIN tasks : tasks[n] = c
    BY <1>q, <1>3, AtSpot DEF Holds
  <2>2. <<"queued", n>> \in Places(c)
    BY <2>1 DEF Places
  <2>3. QED  BY <2>2
<1>4. CASE s = "served"
  <2>1. PICK w \in Workers : wfd[w] = c
    BY <1>4, AtSpot DEF InHand
  <2>2. <<"served", w>> \in Places(c)
    BY <2>1 DEF Places
  <2>3. QED  BY <2>2
<1>5. CASE s = "closed"
  <2>1. <<"closed", c>> \in Places(c)
    BY <1>5, AtSpot DEF Places
  <2>2. QED  BY <2>1
<1>6. CASE s = "dropped"
  <2>1. <<"dropped", c>> \in Places(c)
    BY <1>6, AtSpot DEF Places
  <2>2. QED  BY <2>1
<1>7. QED  BY <1>1, <1>2, <1>3, <1>4, <1>5, <1>6 DEF Spots

(* A connection has one owner from the kernel's backlog to its close       *)
(* (task_server.h:136-151); conn_active_ counts those accepted and not     *)
(* closed, but for the one accepted before line 145 has counted it, and    *)
(* those closed before line 150 has counted them out; and the destructor   *)
(* leaves none open or counted (task_server.h:90).                         *)
THEOREM ConnectionsHaveOneOwner == Spec => []OneOwner
<1>1. ASSUME IInv PROVE OneOwner
  <2>i. TypeOK /\ QueuesInv /\ LifeInv /\ PlaceInv /\ ActiveInv
    BY <1>1 DEF IInv
  <2>t. made \in Nat /\ 1..made \subseteq Conns /\ 0 \notin Conns
    BY <2>i, TaskServiceAssumption DEF TypeOK, Conns
  <2>1. ASSUME NEW c \in 1..made PROVE Cardinality(Places(c)) = 1
    <3>1. c \in Conns /\ c <= made /\ c # 0
      BY <2>t
    <3>2. PICK spot \in Spots : \A s \in Spots : At(c, s) <=> s = spot
      BY <2>i, <3>1 DEF PlaceInv, OneSpot
    <3>3. Places(c) # {}
      BY <2>i, <3>2, SpotIsPlace
    <3>4. ASSUME NEW x \in Places(c), NEW y \in Places(c) PROVE x = y
      <4>1. PICK n : /\ x = <<spot, n>>
                     /\ spot = "backlog" => n \in 1..Len(backlog) /\ backlog[n] = c
                     /\ spot = "queued" => n \in 1..Len(tasks) /\ tasks[n] = c
                     /\ spot = "served" => n \in Workers /\ wfd[n] = c
                     /\ spot \in {"accepted", "closed", "dropped"} => n = c
        BY <2>i, <3>2, PlaceIsSpot
      <4>2. PICK m : /\ y = <<spot, m>>
                     /\ spot = "backlog" => m \in 1..Len(backlog) /\ backlog[m] = c
                     /\ spot = "queued" => m \in 1..Len(tasks) /\ tasks[m] = c
                     /\ spot = "served" => m \in Workers /\ wfd[m] = c
                     /\ spot \in {"accepted", "closed", "dropped"} => m = c
        BY <2>i, <3>2, PlaceIsSpot
      <4>3. Once(backlog) /\ Once(tasks) /\ OnceInHand
        BY <2>i DEF PlaceInv
      <4>4. CASE spot = "backlog"
        BY <3>1, <4>1, <4>2, <4>3, <4>4 DEF Once
      <4>5. CASE spot = "queued"
        BY <3>1, <4>1, <4>2, <4>3, <4>5 DEF Once
      <4>6. CASE spot = "served"
        BY <3>1, <4>1, <4>2, <4>3, <4>6 DEF OnceInHand
      <4>7. CASE spot \in {"accepted", "closed", "dropped"}
        BY <4>1, <4>2, <4>7
      <4>8. QED  BY <4>4, <4>5, <4>6, <4>7 DEF Spots
    <3>5. QED  BY <3>3, <3>4, CountAtMostOne
  <2>2. Held = Open
    <3>1. DOMAIN tasks = 1..Len(tasks)
      BY <2>i, LenProperties DEF QueuesInv
    <3> DEFINE S(c) == \/ c = afd \/ c \in dropped
                       \/ \E n \in DOMAIN tasks : tasks[n] = c
                       \/ \E w \in Workers : wfd[w] = c
    <3>2. ASSUME NEW c PROVE S(c) <=> \E s \in OpenSpots : At(c, s)
      BY <3>1, AtSpot DEF OpenSpots, Holds, InHand
    <3>3. ASSUME NEW c \in Open PROVE c \in 1..made
      <4>1. PICK s \in Spots : At(c, s)
        BY <3>3 DEF Open, OpenSpots, Spots
      <4>2. c \in Conns
        BY <3>3 DEF Open
      <4>3. c <= made
        BY <2>i, <4>1, <4>2, OnlySpot DEF PlaceInv
      <4>4. QED  BY <2>t, <4>2, <4>3 DEF Conns
    <3> HIDE DEF S
    <3>4. {c \in 1..made : S(c)} = Open
      BY <2>t, <3>2, <3>3 DEF Open
    <3>5. QED  BY <3>4 DEF S, Held
  <2>u. Cardinality(Uncounted) = NotYet
    <3>1. CASE apc \in {"count_accepted", "count_active"}
      <4>1. afd \in Conns
        BY <2>i, <3>1 DEF TypeOK, LifeInv, AcceptorInv
      <4>2. afd \in Held
        BY <2>2, <4>1, AtSpot DEF Open, OpenSpots
      <4>3. Uncounted = {afd}
        BY <3>1, <4>2 DEF Uncounted
      <4>4. QED  BY <3>1, <4>3, FS_Singleton DEF NotYet
    <3>2. CASE apc \notin {"count_accepted", "count_active"}
      <4>1. Uncounted = {}
        BY <3>2 DEF Uncounted
      <4>2. QED  BY <3>2, <4>1, FS_EmptySet DEF NotYet
    <3>3. QED  BY <3>1, <3>2
  <2>c. conn_active_ = Cardinality(Held) - Cardinality(Uncounted)
                       + Cardinality({w \in Workers : wpc[w] = "uncount"})
    <3>1. IsFiniteSet(Conns) /\ IsFiniteSet(Workers)
      BY FS_Interval, TaskServiceAssumption DEF Conns
    <3>2. Open \in SUBSET Conns /\ Uncounting \in SUBSET Workers
      BY DEF Open, Uncounting
    <3>3. Cardinality(Open) \in Nat /\ Cardinality(Uncounting) \in Nat
      BY <3>1, <3>2, FS_Subset, FS_CardinalityType
    <3>4. conn_active_ = Cardinality(Open) + Cardinality(Uncounting) - NotYet /\ NotYet \in Nat
      BY <2>i DEF ActiveInv, NotYet
    <3>5. conn_active_ = Cardinality(Held) - Cardinality(Uncounted) + Cardinality(Uncounting)
      BY <2>2, <2>u, <3>3, <3>4
    <3>6. QED  BY <3>5 DEF Uncounting
  <2>3. ASSUME main = "destroyed", NEW c \in 1..made PROVE c \in serverClosed
    <3>1. c \in Conns /\ c <= made /\ c # 0
      BY <2>t
    <3>2. PICK spot \in Spots : \A s \in Spots : At(c, s) <=> s = spot
      BY <2>i, <3>1 DEF PlaceInv, OneSpot
    <3>3. backlog = << >> /\ tasks = << >> /\ dropped = {} /\ afd = 0
      BY <2>i, <2>3 DEF LifeInv, ListenInv, AcceptorInv, EndInv
    <3>4. \A w \in Workers : wfd[w] = 0
      BY <2>i, <2>3 DEF LifeInv, EndInv, WorkerInv
    <3>5. ~Holds(backlog, c) /\ ~Holds(tasks, c) /\ ~InHand(c) /\ c \notin dropped /\ afd # c
      BY <3>1, <3>3, <3>4, HoldsNothing DEF InHand
    <3>6. At(c, "closed")
      BY <3>2, <3>5, AtSpot DEF Spots
    <3>7. QED  BY <3>6, AtSpot
  <2>4. ASSUME main = "destroyed" PROVE conn_active_ = 0
    <3>1. Open = {}
      <4>1. /\ tasks = << >> /\ dropped = {} /\ afd = 0
            /\ \A w \in Workers : wpc[w] = "idle" /\ wfd[w] = 0
        BY <2>i, <2>4 DEF LifeInv, AcceptorInv, EndInv, WorkerInv
      <4>2. \A c \in Conns : \A s \in OpenSpots : ~At(c, s)
        BY <2>t, <4>1, HoldsNothing DEF OpenSpots, At, InHand
      <4>3. QED  BY <4>2 DEF Open
    <3>2. Uncounting = {}
      BY <2>i, <2>4 DEF LifeInv, EndInv, Uncounting
    <3>3. NotYet = 0
      BY <2>i, <2>4 DEF LifeInv, AcceptorInv, NotYet
    <3>4. Cardinality(Open) = 0 /\ Cardinality(Uncounting) = 0
      BY <3>1, <3>2, FS_EmptySet
    <3>5. QED  BY <2>i, <3>3, <3>4 DEF ActiveInv
  <2>5. QED  BY <2>1, <2>c, <2>3, <2>4 DEF OneOwner
<1>2. IInv => OneOwner
  BY <1>1
<1>3. QED  BY <1>2, Invariance, PTL
=============================================================================
