-------------------------- MODULE ThreadPoolProofs --------------------------
(***************************************************************************)
(* Proofs about ThreadPool, for every finite set of clients and workers    *)
(* and every set of tasks.                                                 *)
(***************************************************************************)
EXTENDS ThreadPool, CountingLemmas

-----------------------------------------------------------------------------
(***************************************************************************)
(* The inductive invariant                                                 *)
(***************************************************************************)

(* The steps at which a worker executes the body of a task. *)
BodySteps == {"body", "push", "notify_one"}

(* The steps at which a worker is counted by active_tasks_. *)
Active == {w \in Workers : pc[w] \in BodySteps \cup {"ran"}}

Notifiers == {t \in Threads : pc[t] = "notify_one"}
Lookers == {w \in Workers : pc[w] = "loop"}

(* The code of a client, the code of a worker, and both. *)
ClientSteps == {"idle", "push", "notify_one", "wait", "falling asleep", "asleep"}
WorkerSteps == BodySteps \cup {"loop", "asleep", "ran", "notify_all", "exited"}
Steps == {"idle", "push", "notify_one", "wait", "falling asleep", "asleep", "loop",
          "body", "ran", "notify_all", "exited"}

(* A client runs enqueue and wait_all, a worker its loop; who pushes has a *)
(* task to push, and a worker holds a task exactly while it runs it.       *)
PcInv ==
  /\ \A c \in Clients : pc[c] \in ClientSteps
  /\ \A w \in Workers : pc[w] \in WorkerSteps
  /\ \A t \in Threads : pc[t] = "push" => task[t] \in Tasks
  /\ \A w \in Workers : running[w] \in Tasks <=> pc[w] \in BodySteps

(* active_tasks_ counts the workers between the pop and the decrement. *)
CountInv == active_tasks_ = Cardinality(Active)

Queued(f) == \E i \in 1..Len(tasks_) : tasks_[i] = f
Running(f) == \E w \in Workers : running[w] = f

(* An accepted task waits, runs or has run. *)
PlaceInv ==
  \A f \in Tasks : f \in accepted <=> f \in done \/ Queued(f) \/ Running(f)

(* The destructor stops the pool when no client uses it; a worker exits    *)
(* only then, and the last one leaves nothing behind.                      *)
StopInv ==
  /\ stop_ = (destructor # "not called")
  /\ destructor # "not called" => \A c \in Clients : pc[c] = "idle"
  /\ \A w \in Workers : pc[w] = "exited" => destructor # "not called"
  /\ (\A w \in Workers : pc[w] = "exited") => tasks_ = << >>

IInv == TypeOK /\ PcInv /\ CountInv /\ PlaceInv /\ StopInv /\ NoLostWakeup

-----------------------------------------------------------------------------
(***************************************************************************)
(* Threads and queued tasks                                                *)
(***************************************************************************)

(* A set of threads is finite, and so has a cardinality. *)
LEMMA FiniteThreads ==
  ASSUME NEW S, S \subseteq Threads
  PROVE  IsFiniteSet(S) /\ Cardinality(S) \in Nat
<1>1. IsFiniteSet(Threads)
  BY PoolAssumption, FS_Union DEF Threads
<1>2. QED
  BY <1>1, CountType

(* Nothing is queued in the empty queue. *)
LEMMA EmptyQueue == tasks_ = << >> => \A f : ~Queued(f)
<1>1. Len(<< >>) = 0
  OBVIOUS
<1>2. \A i \in 1..0 : FALSE
  OBVIOUS
<1>3. QED
  BY <1>1, <1>2 DEF Queued

-----------------------------------------------------------------------------
(***************************************************************************)
(* The parts of the invariant, one step at a time                          *)
(***************************************************************************)

(* The invariant holds when the constructor has started the workers. *)
LEMMA InitIInv == Init => IInv
<1> SUFFICES ASSUME Init PROVE IInv
  OBVIOUS
<1> USE PoolAssumption DEF Init, Threads
<1>1. TypeOK
  <2>1. tasks_ \in Seq(Tasks) /\ active_tasks_ \in Nat
    BY EmptySeq
  <2>2. QED  BY <2>1 DEF TypeOK
<1>2. PcInv
  BY DEF PcInv, BodySteps, ClientSteps, WorkerSteps
<1>3. CountInv
  <2>1. Active = {}
    BY DEF Active, BodySteps
  <2>2. QED  BY <2>1, FS_EmptySet DEF CountInv
<1>4. PlaceInv
  <2>1. \A f \in Tasks : ~Running(f)
    BY DEF Running
  <2>2. \A f \in Tasks : ~Queued(f)
    BY EmptyQueue
  <2>3. QED  BY <2>1, <2>2 DEF PlaceInv
<1>5. StopInv
  BY DEF StopInv
<1>6. NoLostWakeup
  <2>1. Asleep(Workers) = {}
    BY DEF Asleep
  <2>2. QED  BY <2>1 DEF NoLostWakeup, NoStrandedTask, NoSleeperAtJoin
<1>7. QED
  BY <1>1, <1>2, <1>3, <1>4, <1>5, <1>6 DEF IInv

(* What one thread's step, a notification and a broadcast do to pc. *)
LEMMA OneMoves ==
  ASSUME TypeOK, NEW t \in Threads, NEW from, NEW to, Goto(t, from, to)
  PROVE  /\ pc[t] = from /\ pc'[t] = to
         /\ \A u \in Threads \ {t} : pc'[u] = pc[u]
BY DEF TypeOK, Goto

(* notify_one moves its caller on and wakes at most one worker. *)
LEMMA NotifyMoves ==
  ASSUME TypeOK, NEW t \in Threads, NotifyOne(t)
  PROVE  /\ \A w \in Workers : \/ pc'[w] = pc[w]
                               \/ pc[w] = "asleep" /\ pc'[w] = "loop"
                               \/ pc[w] = "notify_one" /\ pc'[w] = "body"
         /\ \A c \in Clients : pc'[c] = pc[c] \/ pc'[c] = "idle"
<1>0. /\ \A u \in Threads : u \in DOMAIN pc
      /\ Workers \subseteq Threads /\ Clients \subseteq Threads
      /\ \A c \in Clients : c \notin Workers
  BY PoolAssumption DEF TypeOK, Threads
<1>1. /\ t \in Workers => Home(t) = "body"
      /\ t \in Clients => Home(t) = "idle"
      /\ pc[t] = "notify_one"
  BY <1>0 DEF Home, NotifyOne
<1>2. CASE pc' = [pc EXCEPT ![t] = Home(t)]
  BY <1>0, <1>1, <1>2
<1>3. ASSUME NEW v \in Asleep(Workers), pc' = [pc EXCEPT ![t] = Home(t), ![v] = "loop"]
      PROVE  \A u \in Threads : pc'[u] = IF u = v THEN "loop" ELSE
                                         IF u = t THEN Home(t) ELSE pc[u]
  BY <1>0, <1>3
<1>4. ASSUME NEW v \in Asleep(Workers), pc' = [pc EXCEPT ![t] = Home(t), ![v] = "loop"]
      PROVE  /\ \A w \in Workers : \/ pc'[w] = pc[w]
                                   \/ pc[w] = "asleep" /\ pc'[w] = "loop"
                                   \/ pc[w] = "notify_one" /\ pc'[w] = "body"
             /\ \A c \in Clients : pc'[c] = pc[c] \/ pc'[c] = "idle"
  <2>1. v \in Workers /\ pc[v] = "asleep"
    BY DEF Asleep
  <2>2. \A u \in Threads : pc'[u] = IF u = v THEN "loop" ELSE
                                    IF u = t THEN Home(t) ELSE pc[u]
    BY <1>3, <1>4
  <2>3. QED  BY <1>0, <1>1, <2>1, <2>2
<1>5. QED
  BY <1>2, <1>4 DEF NotifyOne

(* The broadcast of a worker moves it on and wakes the clients. *)
LEMMA FinishedMoves ==
  ASSUME TypeOK, NEW w \in Workers, NotifyFinished(w)
  PROVE  /\ \A v \in Workers : pc'[v] = pc[v] \/ (pc[v] = "notify_all" /\ pc'[v] = "loop")
         /\ \A c \in Clients : pc'[c] = pc[c] \/ pc'[c] = "wait"
<1>1. /\ pc[w] = "notify_all"
      /\ \A t \in Threads : pc'[t] = IF t = w THEN "loop" ELSE
                                      IF t \in Asleep(Clients) THEN "wait" ELSE pc[t]
  BY DEF NotifyFinished
<1>2. \A v \in Workers : v \in Threads /\ v \notin Asleep(Clients) /\ v \notin Clients
  BY PoolAssumption DEF Threads, Asleep
<1>3. \A c \in Clients : c \in Threads
  BY DEF Threads
<1>4. \A v \in Workers : pc'[v] = pc[v] \/ (pc[v] = "notify_all" /\ pc'[v] = "loop")
  BY <1>1, <1>2
<1>5. \A c \in Clients : pc'[c] = pc[c] \/ pc'[c] = "wait"
  <2>1. \A c \in Clients : c # w
    BY <1>2
  <2>2. QED  BY <1>1, <1>3, <2>1
<1>6. QED  BY <1>4, <1>5

(* The broadcast of the destructor wakes the workers. *)
LEMMA DestructorMoves ==
  ASSUME TypeOK, DestructorNotifies
  PROVE  \A t \in Threads : \/ pc'[t] = pc[t]
                            \/ t \in Workers /\ pc[t] = "asleep" /\ pc'[t] = "loop"
BY DEF DestructorNotifies, Asleep

(* The counter moves with the set of workers that are inside a task: up in *)
(* the critical section of the pop, down when the body has run.            *)
LEMMA CountStep ==
  ASSUME TypeOK, PcInv, CountInv, [Next]_vars
  PROVE  CountInv' /\ active_tasks_' \in Nat
<1> DEFINE Inside(w) == pc[w] \in BodySteps \cup {"ran"}
           Same == active_tasks_' = active_tasks_
                   /\ \A w \in Workers : Inside(w)' <=> Inside(w)
<1>0. /\ Active \subseteq Threads /\ Active' \subseteq Threads
      /\ active_tasks_ = Cardinality(Active) /\ active_tasks_ \in Nat
  BY DEF Active, Threads, CountInv, TypeOK
<1>1. ASSUME Same PROVE CountInv' /\ active_tasks_' \in Nat
  <2>1. Active' = Active
    BY <1>1 DEF Active
  <2>2. QED  BY <1>0, <1>1, <2>1 DEF CountInv
<1>2. ASSUME NEW w \in Workers, WorkerPops(w)
      PROVE  CountInv' /\ active_tasks_' \in Nat
  <2>1. /\ ~Inside(w) /\ Inside(w)'
        /\ \A v \in Workers : v # w => (Inside(v)' <=> Inside(v))
    BY <1>2 DEF WorkerPops, Goto, TypeOK, Threads, BodySteps
  <2>2. Active' = Active \cup {w} /\ w \notin Active
    <3> HIDE DEF Inside
    <3>1. /\ Active = {v \in Workers : Inside(v)}
          /\ Active' = {v \in Workers : Inside(v)'}
      BY DEF Active, Inside
    <3>2. QED  BY <2>1, <3>1
  <2>3. active_tasks_' = active_tasks_ + 1
    BY <1>2 DEF WorkerPops
  <2>4. Cardinality(Active') = Cardinality(Active) + 1
    BY <1>0, <2>2, CountJoin, FiniteThreads
  <2>5. QED  BY <1>0, <2>3, <2>4 DEF CountInv
<1>3. ASSUME NEW w \in Workers, UncountActive(w)
      PROVE  CountInv' /\ active_tasks_' \in Nat
  <2>1. /\ Inside(w) /\ ~Inside(w)'
        /\ \A v \in Workers : v # w => (Inside(v)' <=> Inside(v))
    BY <1>3 DEF UncountActive, Goto, TypeOK, Threads, BodySteps
  <2>2. Active' = Active \ {w} /\ w \in Active
    <3> HIDE DEF Inside
    <3>1. /\ Active = {v \in Workers : Inside(v)}
          /\ Active' = {v \in Workers : Inside(v)'}
      BY DEF Active, Inside
    <3>2. QED  BY <2>1, <3>1
  <2>3. active_tasks_' = active_tasks_ - 1
    BY <1>3 DEF UncountActive
  <2>4. /\ Cardinality(Active') = Cardinality(Active) - 1
        /\ Cardinality(Active) >= 1
    BY <1>0, <2>2, CountLeave, FiniteThreads
  <2>5. QED  BY <1>0, <2>3, <2>4 DEF CountInv
<1>4. ASSUME NEW t \in Threads, NEW from, NEW to, Goto(t, from, to),
             active_tasks_' = active_tasks_,
             t \in Clients \/ (from \in BodySteps \cup {"ran"} <=> to \in BodySteps \cup {"ran"})
      PROVE  Same
  <2>1. /\ pc[t] = from /\ pc'[t] = to
        /\ \A u \in Threads \ {t} : pc'[u] = pc[u]
    BY <1>4, OneMoves
  <2>2. t \in Workers => (Inside(t)' <=> Inside(t))
    BY <1>4, <2>1, PoolAssumption
  <2>3. \A w \in Workers : w # t => (Inside(w)' <=> Inside(w))
    BY <2>1 DEF Threads
  <2>4. QED  BY <1>4, <2>2, <2>3
<1>5. ASSUME pc' = pc, active_tasks_' = active_tasks_ PROVE Same
  BY <1>5
<1>6. ASSUME active_tasks_' = active_tasks_,
             \A w \in Workers : \/ pc'[w] = pc[w]
                                \/ ~Inside(w) /\ pc'[w] = "loop"
                                \/ pc[w] = "notify_one" /\ pc'[w] = "body"
      PROVE  Same
  BY <1>6 DEF BodySteps
<1> HIDE DEF Same
<1>7. ASSUME NEW t \in Threads, Enqueue(t) PROVE Same
  <2>1. Goto(t, Home(t), "push") /\ active_tasks_' = active_tasks_
    BY <1>7 DEF Enqueue
  <2>2. t \in Clients \/ Home(t) = "body"
    BY DEF Home, Threads
  <2>3. QED  BY <1>4, <2>1, <2>2 DEF BodySteps
<1>8. ASSUME NEW t \in Threads, EnqueueOnStopped(t) PROVE Same
  BY <1>8, <1>5 DEF EnqueueOnStopped
<1>9. ASSUME NEW t \in Threads, Push(t) PROVE Same
  <2>1. Goto(t, "push", "notify_one") /\ active_tasks_' = active_tasks_
    BY <1>9 DEF Push
  <2>2. QED  BY <1>4, <2>1 DEF BodySteps
<1>10. ASSUME NEW t \in Threads, NotifyOne(t) PROVE Same
  <2>1. active_tasks_' = active_tasks_
    BY <1>10 DEF NotifyOne
  <2>2. \A w \in Workers : \/ pc'[w] = pc[w]
                           \/ pc[w] = "asleep" /\ pc'[w] = "loop"
                           \/ pc[w] = "notify_one" /\ pc'[w] = "body"
    BY <1>10, NotifyMoves
  <2>3. QED  BY <2>1, <2>2, <1>6 DEF BodySteps
<1>11. ASSUME NEW c \in Clients, WaitAll(c) \/ WaitStep(c) PROVE Same
  <2>1. PICK from, to : Goto(c, from, to)
    <3>1. CASE WaitAll(c)
      BY <3>1 DEF WaitAll
    <3>2. CASE WaitStep(c)
      BY <3>2 DEF WaitStep, WaitAllReturns, WaitAllMustWait, WaitAllSleeps
    <3>3. QED  BY <1>11, <3>1, <3>2
  <2>2. active_tasks_' = active_tasks_
    BY <1>11 DEF WaitAll, WaitStep, WaitAllReturns, WaitAllMustWait, WaitAllSleeps
  <2>3. QED  BY <1>4, <2>1, <2>2 DEF Threads
<1>12. ASSUME NEW w \in Workers, WorkerSleeps(w) PROVE Same
  <2>1. Goto(w, "loop", "asleep") /\ active_tasks_' = active_tasks_ /\ w \in Threads
    BY <1>12 DEF WorkerSleeps, Threads
  <2>2. QED  BY <1>4, <2>1 DEF BodySteps
<1>13. ASSUME NEW w \in Workers, WorkerExits(w) PROVE Same
  <2>1. Goto(w, "loop", "exited") /\ active_tasks_' = active_tasks_ /\ w \in Threads
    BY <1>13 DEF WorkerExits, Threads
  <2>2. QED  BY <1>4, <2>1 DEF BodySteps
<1>14. ASSUME NEW w \in Workers, BodyEnds(w) PROVE Same
  <2>1. Goto(w, "body", "ran") /\ active_tasks_' = active_tasks_ /\ w \in Threads
    BY <1>14 DEF BodyEnds, Threads
  <2>2. QED  BY <1>4, <2>1 DEF BodySteps
<1>15. ASSUME NEW w \in Workers, NotifyFinished(w) PROVE Same
  <2>1. active_tasks_' = active_tasks_
    BY <1>15 DEF NotifyFinished
  <2>2. \A v \in Workers : pc'[v] = pc[v] \/ (pc[v] = "notify_all" /\ pc'[v] = "loop")
    BY <1>15, FinishedMoves
  <2>3. QED  BY <2>1, <2>2, <1>6 DEF BodySteps
<1>16. CASE DestructorStops
  BY <1>16, <1>5, <1>1 DEF DestructorStops
<1>17. CASE DestructorNotifies
  <2>1. active_tasks_' = active_tasks_
    BY <1>17 DEF DestructorNotifies
  <2>2. \A v \in Workers : pc'[v] = pc[v] \/ (pc[v] = "asleep" /\ pc'[v] = "loop")
    <3>1. Workers \subseteq Threads
      BY DEF Threads
    <3>2. \A t \in Threads : \/ pc'[t] = pc[t]
                             \/ t \in Workers /\ pc[t] = "asleep" /\ pc'[t] = "loop"
      BY <1>17, DestructorMoves
    <3>3. QED  BY <3>1, <3>2
  <2>3. QED  BY <2>1, <2>2, <1>6, <1>1 DEF BodySteps
<1>18. ASSUME NEW t \in Threads, SpuriousWakeup(t) PROVE Same
  <2>1. active_tasks_' = active_tasks_
    BY <1>18 DEF SpuriousWakeup
  <2>2. CASE t \in Workers
    <3>1. Goto(t, "asleep", "loop")
      BY <1>18, <2>2 DEF SpuriousWakeup
    <3>2. QED  BY <1>4, <2>1, <3>1 DEF BodySteps
  <2>3. CASE t \in Clients
    <3>1. PICK to : Goto(t, "asleep", to)
      BY <1>18 DEF SpuriousWakeup
    <3>2. QED  BY <1>4, <2>1, <2>3, <3>1
  <2>4. QED  BY <2>2, <2>3 DEF Threads
<1>19. CASE Finished \/ UNCHANGED vars
  BY <1>19, <1>5, <1>1 DEF Finished, vars
<1> HIDE DEF Inside
<1>20. QED
  BY <1>1, <1>2, <1>3, <1>7, <1>8, <1>9, <1>10, <1>11, <1>12, <1>13, <1>14, <1>15,
     <1>16, <1>17, <1>18, <1>19
  DEF Next, EnqueueStep, WorkerStep

(* Every step keeps the values of pc. *)
LEMMA PcTypeStep ==
  ASSUME TypeOK, [Next]_vars
  PROVE  pc' \in [Threads -> Steps]
<1>0. pc \in [Threads -> Steps]
  BY DEF TypeOK, Steps
<1>1. ASSUME NEW t \in Threads, NEW from, NEW to \in Steps, Goto(t, from, to)
      PROVE  pc' \in [Threads -> Steps]
  BY <1>0, <1>1 DEF Goto
<1>2. ASSUME NEW t \in Threads, Enqueue(t) \/ Push(t)
      PROVE  pc' \in [Threads -> Steps]
  BY <1>1, <1>2 DEF Enqueue, Push, Steps
<1>3. ASSUME NEW t \in Threads, NotifyOne(t)
      PROVE  pc' \in [Threads -> Steps]
  <2>1. "idle" \in Steps /\ "body" \in Steps /\ "loop" \in Steps
    BY DEF Steps
  <2>2. Home(t) \in Steps
    BY <2>1 DEF Home
  <2>3. \/ pc' = [pc EXCEPT ![t] = Home(t)]
        \/ \E w \in Asleep(Workers) : pc' = [pc EXCEPT ![t] = Home(t), ![w] = "loop"]
    BY <1>3 DEF NotifyOne
  <2>4. QED  BY <1>0, <2>1, <2>2, <2>3
<1>4. ASSUME NEW c \in Clients, WaitAll(c) \/ WaitStep(c)
      PROVE  pc' \in [Threads -> Steps]
  <2>1. c \in Threads
    BY DEF Threads
  <2>2. CASE WaitAll(c)
    BY <1>1, <2>1, <2>2 DEF WaitAll, Steps
  <2>3. CASE WaitStep(c)
    BY <1>1, <2>1, <2>3 DEF WaitStep, WaitAllReturns, WaitAllMustWait, WaitAllSleeps, Steps
  <2>4. QED  BY <1>4, <2>2, <2>3
<1>5. ASSUME NEW w \in Workers, WorkerSleeps(w) \/ WorkerExits(w) \/ WorkerPops(w)
      PROVE  pc' \in [Threads -> Steps]
  <2>1. w \in Threads
    BY DEF Threads
  <2>2. QED  BY <1>1, <1>5, <2>1 DEF WorkerSleeps, WorkerExits, WorkerPops, Steps
<1>6. ASSUME NEW w \in Workers, BodyEnds(w) \/ UncountActive(w)
      PROVE  pc' \in [Threads -> Steps]
  <2>1. w \in Threads
    BY DEF Threads
  <2>2. QED  BY <1>1, <1>6, <2>1 DEF BodyEnds, UncountActive, Steps
<1>7. ASSUME NEW w \in Workers, NotifyFinished(w)
      PROVE  pc' \in [Threads -> Steps]
  BY <1>0, <1>7 DEF NotifyFinished, Steps
<1>8. CASE DestructorNotifies
  BY <1>0, <1>8 DEF DestructorNotifies, Steps
<1>9. ASSUME NEW t \in Threads, SpuriousWakeup(t)
      PROVE  pc' \in [Threads -> Steps]
  BY <1>1, <1>9 DEF SpuriousWakeup, Steps
<1>10. ASSUME pc' = pc PROVE pc' \in [Threads -> Steps]
  BY <1>0, <1>10
<1>11. ASSUME NEW t \in Threads, EnqueueOnStopped(t) PROVE pc' = pc
  BY <1>11 DEF EnqueueOnStopped
<1>12. CASE DestructorStops \/ Finished \/ UNCHANGED vars
  BY <1>12, <1>10 DEF DestructorStops, Finished, vars
<1>13. QED
  BY <1>2, <1>3, <1>4, <1>5, <1>6, <1>7, <1>8, <1>9, <1>10, <1>11, <1>12
  DEF Next, EnqueueStep, WorkerStep

(* Every step keeps the shape of the state. *)
LEMMA TypeStep ==
  ASSUME TypeOK, PcInv, CountInv, [Next]_vars
  PROVE  TypeOK'
<1> DEFINE Rest == <<stop_, destructor, accepted, refused, done>>
           Data == <<tasks_, task, running>>
<1>0. active_tasks_' \in Nat /\ pc' \in [Threads -> Steps]
  BY CountStep, PcTypeStep
<1>t. /\ queue_mutex_ \in Clients \cup {Nobody} /\ tasks_ \in Seq(Tasks)
      /\ task \in [Threads -> Tasks \cup {NoTask}]
      /\ running \in [Workers -> Tasks \cup {NoTask}]
      /\ stop_ \in BOOLEAN /\ destructor \in {"not called", "notify_all", "join"}
      /\ accepted \subseteq Tasks /\ refused \subseteq Tasks /\ done \subseteq Tasks
  BY DEF TypeOK
<1>k. ASSUME queue_mutex_' \in Clients \cup {Nobody}, tasks_' \in Seq(Tasks),
             task' \in [Threads -> Tasks \cup {NoTask}],
             running' \in [Workers -> Tasks \cup {NoTask}],
             stop_' \in BOOLEAN, destructor' \in {"not called", "notify_all", "join"},
             accepted' \subseteq Tasks, refused' \subseteq Tasks, done' \subseteq Tasks
      PROVE  TypeOK'
  BY <1>0, <1>k DEF TypeOK, Steps
<1>s. ASSUME Data' = Data, Rest' = Rest, queue_mutex_' \in Clients \cup {Nobody}
      PROVE  TypeOK'
  BY <1>t, <1>s, <1>k
<1>1. ASSUME NEW t \in Threads, Enqueue(t) PROVE TypeOK'
  <2>1. PICK f \in Tasks : task' = [task EXCEPT ![t] = f]
    BY <1>1 DEF Enqueue
  <2>2. task' \in [Threads -> Tasks \cup {NoTask}]
    BY <1>t, <2>1
  <2>3. <<queue_mutex_, tasks_, running, Rest>>' = <<queue_mutex_, tasks_, running, Rest>>
    BY <1>1 DEF Enqueue, history
  <2>4. QED  BY <1>t, <1>k, <2>2, <2>3
<1>2. ASSUME NEW t \in Threads, EnqueueOnStopped(t) PROVE TypeOK'
  <2>1. refused' \subseteq Tasks
    BY <1>t, <1>2 DEF EnqueueOnStopped
  <2>2. /\ queue_mutex_' = queue_mutex_ /\ Data' = Data
        /\ <<stop_, destructor, accepted, done>>' = <<stop_, destructor, accepted, done>>
    BY <1>2 DEF EnqueueOnStopped
  <2>3. QED  BY <1>t, <1>k, <2>1, <2>2
<1>3. ASSUME NEW t \in Threads, Push(t) PROVE TypeOK'
  <2>1. task[t] \in Tasks
    BY <1>3 DEF Push, Goto, PcInv
  <2>2. tasks_' \in Seq(Tasks)
    BY <1>3, <1>t, <2>1, AppendProperties DEF Push
  <2>3. task' \in [Threads -> Tasks \cup {NoTask}]
    BY <1>3, <1>t DEF Push
  <2>4. accepted' \subseteq Tasks
    BY <1>3, <1>t, <2>1 DEF Push
  <2>5. /\ queue_mutex_' = queue_mutex_ /\ running' = running
        /\ <<stop_, destructor, refused, done>>' = <<stop_, destructor, refused, done>>
    BY <1>3 DEF Push
  <2>6. QED  BY <1>t, <1>k, <2>2, <2>3, <2>4, <2>5
<1>4. ASSUME NEW t \in Threads, NotifyOne(t) PROVE TypeOK'
  BY <1>4, <1>s, <1>t DEF NotifyOne, history
<1>5. ASSUME NEW c \in Clients, WaitAll(c) \/ WaitStep(c) PROVE TypeOK'
  <2>1. Data' = Data /\ Rest' = Rest
    BY <1>5 DEF WaitAll, WaitStep, WaitAllReturns, WaitAllMustWait, WaitAllSleeps, history
  <2>2. queue_mutex_' \in {queue_mutex_, c, Nobody}
    BY <1>5 DEF WaitAll, WaitStep, WaitAllReturns, WaitAllMustWait, WaitAllSleeps
  <2>3. QED  BY <1>s, <1>t, <2>1, <2>2
<1>6. ASSUME NEW w \in Workers, WorkerPops(w) PROVE TypeOK'
  <2>1. Head(tasks_) \in Tasks /\ Tail(tasks_) \in Seq(Tasks)
    BY <1>6, <1>t, HeadTailProperties DEF WorkerPops
  <2>2. running' \in [Workers -> Tasks \cup {NoTask}] /\ tasks_' \in Seq(Tasks)
    BY <1>6, <1>t, <2>1 DEF WorkerPops
  <2>3. queue_mutex_' = queue_mutex_ /\ task' = task /\ Rest' = Rest
    BY <1>6 DEF WorkerPops, history
  <2>4. QED  BY <1>t, <1>k, <2>2, <2>3
<1>7. ASSUME NEW w \in Workers, WorkerSleeps(w) \/ WorkerExits(w) PROVE TypeOK'
  BY <1>7, <1>s, <1>t DEF WorkerSleeps, WorkerExits, history
<1>8. ASSUME NEW w \in Workers, BodyEnds(w) PROVE TypeOK'
  <2>1. running[w] \in Tasks
    BY <1>8 DEF BodyEnds, Goto, PcInv, BodySteps
  <2>2. running' \in [Workers -> Tasks \cup {NoTask}] /\ done' \subseteq Tasks
    BY <1>8, <1>t, <2>1 DEF BodyEnds
  <2>3. /\ queue_mutex_' = queue_mutex_ /\ tasks_' = tasks_ /\ task' = task
        /\ <<stop_, destructor, accepted, refused>>' = <<stop_, destructor, accepted, refused>>
    BY <1>8 DEF BodyEnds
  <2>4. QED  BY <1>t, <1>k, <2>2, <2>3
<1>9. ASSUME NEW w \in Workers, UncountActive(w) \/ NotifyFinished(w) PROVE TypeOK'
  BY <1>9, <1>s, <1>t DEF UncountActive, NotifyFinished, history
<1>10. CASE DestructorStops \/ DestructorNotifies
  <2>1. stop_' \in BOOLEAN /\ destructor' \in {"not called", "notify_all", "join"}
    BY <1>10, <1>t DEF DestructorStops, DestructorNotifies
  <2>2. /\ queue_mutex_' = queue_mutex_ /\ Data' = Data
        /\ <<accepted, refused, done>>' = <<accepted, refused, done>>
    BY <1>10 DEF DestructorStops, DestructorNotifies, history
  <2>3. QED  BY <1>t, <1>k, <2>1, <2>2
<1>11. ASSUME NEW t \in Threads, SpuriousWakeup(t) PROVE TypeOK'
  BY <1>11, <1>s, <1>t DEF SpuriousWakeup, history
<1>12. CASE Finished \/ UNCHANGED vars
  BY <1>12, <1>s, <1>t DEF Finished, vars, history
<1>13. QED
  BY <1>1, <1>2, <1>3, <1>4, <1>5, <1>6, <1>7, <1>8, <1>9, <1>10, <1>11, <1>12
  DEF Next, EnqueueStep, WorkerStep

(* Every step leaves clients and workers in their own code. *)
LEMMA PcStep ==
  ASSUME TypeOK, PcInv, [Next]_vars
  PROVE  PcInv'
<1> DEFINE Local == <<task, running>>
           Ready(t) == /\ t \in Clients => pc[t] \in ClientSteps
                       /\ t \in Workers => /\ pc[t] \in WorkerSteps
                                           /\ running[t] \in Tasks <=> pc[t] \in BodySteps
                       /\ pc[t] = "push" => task[t] \in Tasks
<1>0. \A t \in Threads : Ready(t)
  BY DEF PcInv, ClientSteps, WorkerSteps, Threads
<1>k. ASSUME \A t \in Threads : Ready(t)' PROVE PcInv'
  <2>1. \A c \in Clients : pc'[c] \in ClientSteps
    BY <1>k DEF Threads
  <2>2. \A w \in Workers : /\ pc'[w] \in WorkerSteps
                           /\ running'[w] \in Tasks <=> pc'[w] \in BodySteps
    BY <1>k DEF Threads
  <2>3. \A t \in Threads : pc'[t] = "push" => task'[t] \in Tasks
    BY <1>k
  <2>4. QED  BY <2>1, <2>2, <2>3 DEF PcInv, ClientSteps, WorkerSteps
<1>g. ASSUME NEW t \in Threads, NEW from, NEW to, Goto(t, from, to),
             \A u \in Threads \ {t} : task'[u] = task[u] /\ running'[u] = running[u],
             Ready(t)'
      PROVE  PcInv'
  <2>1. \A u \in Threads \ {t} : pc'[u] = pc[u]
    BY <1>g, OneMoves
  <2>2. \A u \in Threads \ {t} : Ready(u)'
    BY <1>0, <1>g, <2>1
  <2>3. QED  BY <1>k, <1>g, <2>2
<1>p. ASSUME Local' = Local,
             \A t \in Threads :
               \/ pc'[t] = pc[t]
               \/ t \in Clients /\ pc'[t] \in ClientSteps \ {"push"}
               \/ /\ t \in Workers /\ pc'[t] \in WorkerSteps \ {"push"}
                  /\ pc[t] \in BodySteps <=> pc'[t] \in BodySteps
      PROVE  PcInv'
  <2>1. ASSUME NEW t \in Threads PROVE Ready(t)'
    <3>1. Ready(t) /\ task'[t] = task[t] /\ running'[t] = running[t]
      BY <1>0, <1>p
    <3>2. CASE pc'[t] = pc[t]
      BY <3>1, <3>2
    <3>3. CASE t \in Clients /\ pc'[t] \in ClientSteps \ {"push"}
      BY <3>1, <3>3, PoolAssumption
    <3>4. CASE /\ t \in Workers /\ pc'[t] \in WorkerSteps \ {"push"}
               /\ pc[t] \in BodySteps <=> pc'[t] \in BodySteps
      BY <3>1, <3>4, PoolAssumption
    <3>5. QED  BY <1>p, <3>2, <3>3, <3>4
  <2>2. QED  BY <1>k, <2>1
<1>q. ASSUME NEW t \in Threads, NEW from, NEW to, Goto(t, from, to), Local' = Local,
             \/ t \in Clients /\ to \in ClientSteps \ {"push"}
             \/ /\ t \in Workers /\ to \in WorkerSteps \ {"push"}
                /\ from \in BodySteps <=> to \in BodySteps
      PROVE  PcInv'
  <2>1. /\ pc[t] = from /\ pc'[t] = to
        /\ \A u \in Threads \ {t} : pc'[u] = pc[u]
    BY <1>q, OneMoves
  <2>2. QED  BY <1>p, <1>q, <2>1
<1>h. \A t \in Threads : \/ t \in Clients /\ t \notin Workers /\ Home(t) = "idle"
                         \/ t \in Workers /\ t \notin Clients /\ Home(t) = "body"
  <2>1. \A c \in Clients : c \notin Workers
    BY PoolAssumption
  <2>2. \A t \in Clients : Home(t) = "idle"
    BY <2>1 DEF Home
  <2>3. \A t \in Workers : Home(t) = "body" /\ t \notin Clients
    BY <2>1 DEF Home
  <2>4. \A t \in Threads : t \in Clients \/ t \in Workers
    BY DEF Threads
  <2>5. QED  BY <2>1, <2>2, <2>3, <2>4
<1>1. ASSUME NEW t \in Threads, Enqueue(t) PROVE PcInv'
  <2>1. PICK f \in Tasks : task' = [task EXCEPT ![t] = f]
    BY <1>1 DEF Enqueue
  <2>2. task'[t] = f /\ \A u \in Threads \ {t} : task'[u] = task[u]
    BY <2>1 DEF TypeOK
  <2>3. Goto(t, Home(t), "push") /\ running' = running
    BY <1>1 DEF Enqueue
  <2>4. pc[t] = Home(t) /\ pc'[t] = "push"
    BY <2>3, OneMoves
  <2>5. t \in Workers => running[t] \in Tasks
    BY <1>0, <1>h, <2>4 DEF BodySteps
  <2>6. Ready(t)'
    BY <2>2, <2>3, <2>4, <2>5 DEF ClientSteps, WorkerSteps, BodySteps
  <2> HIDE DEF Ready
  <2>7. QED  BY <1>g, <2>2, <2>3, <2>6
<1>2. ASSUME NEW t \in Threads, EnqueueOnStopped(t) PROVE PcInv'
  BY <1>2, <1>p DEF EnqueueOnStopped
<1>3. ASSUME NEW t \in Threads, Push(t) PROVE PcInv'
  <2>1. /\ Goto(t, "push", "notify_one") /\ running' = running
        /\ task' = [task EXCEPT ![t] = NoTask]
    BY <1>3 DEF Push
  <2>2. \A u \in Threads \ {t} : task'[u] = task[u]
    BY <2>1 DEF TypeOK
  <2>3. pc[t] = "push" /\ pc'[t] = "notify_one"
    BY <2>1, OneMoves
  <2>4. t \in Workers => running[t] \in Tasks
    BY <1>0, <2>3 DEF BodySteps
  <2>5. Ready(t)'
    BY <2>1, <2>3, <2>4 DEF ClientSteps, WorkerSteps, BodySteps
  <2> HIDE DEF Ready
  <2>6. QED  BY <1>g, <2>1, <2>2, <2>5
<1>4. ASSUME NEW t \in Threads, NotifyOne(t) PROVE PcInv'
  <2>1. Local' = Local
    BY <1>4 DEF NotifyOne
  <2>2. ASSUME NEW u \in Threads
        PROVE  \/ pc'[u] = pc[u]
               \/ u \in Clients /\ pc'[u] \in ClientSteps \ {"push"}
               \/ /\ u \in Workers /\ pc'[u] \in WorkerSteps \ {"push"}
                  /\ pc[u] \in BodySteps <=> pc'[u] \in BodySteps
    <3>1. CASE u \in Workers
      <4>1. \/ pc'[u] = pc[u]
            \/ pc[u] = "asleep" /\ pc'[u] = "loop"
            \/ pc[u] = "notify_one" /\ pc'[u] = "body"
        BY <1>4, <3>1, NotifyMoves
      <4>2. QED  BY <3>1, <4>1 DEF WorkerSteps, BodySteps
    <3>2. CASE u \in Clients
      <4>1. pc'[u] = pc[u] \/ pc'[u] = "idle"
        BY <1>4, <3>2, NotifyMoves
      <4>2. QED  BY <3>2, <4>1 DEF ClientSteps
    <3>3. QED  BY <3>1, <3>2 DEF Threads
  <2>3. QED  BY <1>p, <2>1, <2>2
<1>5. ASSUME NEW c \in Clients, WaitAll(c) PROVE PcInv'
  <2>1. Goto(c, "idle", "wait") /\ Local' = Local /\ c \in Threads
    BY <1>5 DEF WaitAll, Threads
  <2>2. QED  BY <1>q, <2>1 DEF ClientSteps
<1>6. ASSUME NEW c \in Clients, WaitStep(c) PROVE PcInv'
  <2>1. /\ \E from : \E to \in {"idle", "falling asleep", "asleep"} : Goto(c, from, to)
        /\ Local' = Local /\ c \in Threads
    BY <1>6 DEF WaitStep, WaitAllReturns, WaitAllMustWait, WaitAllSleeps, Threads
  <2>2. QED  BY <1>q, <2>1 DEF ClientSteps
<1>7. ASSUME NEW w \in Workers, WorkerPops(w) PROVE PcInv'
  <2>1. Head(tasks_) \in Tasks
    BY <1>7, HeadTailProperties DEF WorkerPops, TypeOK
  <2>2. /\ Goto(w, "loop", "body") /\ task' = task /\ w \in Threads
        /\ running' = [running EXCEPT ![w] = Head(tasks_)]
    BY <1>7 DEF WorkerPops, Threads
  <2>3. running'[w] \in Tasks /\ \A u \in Workers \ {w} : running'[u] = running[u]
    BY <2>1, <2>2 DEF TypeOK
  <2>4. pc'[w] = "body" /\ \A u \in Threads \ {w} : pc'[u] = pc[u]
    BY <2>2, OneMoves
  <2>5. ASSUME NEW u \in Threads PROVE Ready(u)'
    <3>1. CASE u = w
      BY <1>h, <2>3, <2>4, <3>1 DEF WorkerSteps, BodySteps
    <3>2. CASE u # w
      BY <1>0, <2>2, <2>3, <2>4, <3>2
    <3>3. QED  BY <3>1, <3>2
  <2> HIDE DEF Ready
  <2>6. QED  BY <1>k, <2>5
<1>8. ASSUME NEW w \in Workers, WorkerSleeps(w) PROVE PcInv'
  <2>1. Goto(w, "loop", "asleep") /\ Local' = Local /\ w \in Threads
    BY <1>8 DEF WorkerSleeps, Threads
  <2>2. QED  BY <1>q, <2>1 DEF WorkerSteps, BodySteps
<1>9. ASSUME NEW w \in Workers, WorkerExits(w) PROVE PcInv'
  <2>1. Goto(w, "loop", "exited") /\ Local' = Local /\ w \in Threads
    BY <1>9 DEF WorkerExits, Threads
  <2>2. QED  BY <1>q, <2>1 DEF WorkerSteps, BodySteps
<1>10. ASSUME NEW w \in Workers, BodyEnds(w) PROVE PcInv'
  <2>1. /\ Goto(w, "body", "ran") /\ task' = task /\ w \in Threads
        /\ running' = [running EXCEPT ![w] = NoTask]
    BY <1>10 DEF BodyEnds, Threads
  <2>2. running'[w] = NoTask /\ \A u \in Workers \ {w} : running'[u] = running[u]
    BY <2>1 DEF TypeOK
  <2>3. pc'[w] = "ran" /\ \A u \in Threads \ {w} : pc'[u] = pc[u]
    BY <2>1, OneMoves
  <2>4. ASSUME NEW u \in Threads PROVE Ready(u)'
    <3>1. CASE u = w
      BY <1>h, <2>2, <2>3, <3>1, PoolAssumption DEF WorkerSteps, BodySteps
    <3>2. CASE u # w
      BY <1>0, <2>1, <2>2, <2>3, <3>2
    <3>3. QED  BY <3>1, <3>2
  <2> HIDE DEF Ready
  <2>5. QED  BY <1>k, <2>4
<1>11. ASSUME NEW w \in Workers, UncountActive(w) PROVE PcInv'
  <2>1. Goto(w, "ran", "notify_all") /\ Local' = Local /\ w \in Threads
    BY <1>11 DEF UncountActive, Threads
  <2>2. QED  BY <1>q, <2>1 DEF WorkerSteps, BodySteps
<1>12. ASSUME NEW w \in Workers, NotifyFinished(w) PROVE PcInv'
  <2>1. Local' = Local
    BY <1>12 DEF NotifyFinished
  <2>2. \A u \in Workers : pc'[u] = pc[u] \/ (pc[u] = "notify_all" /\ pc'[u] = "loop")
    BY <1>12, FinishedMoves
  <2>3. \A u \in Clients : pc'[u] = pc[u] \/ pc'[u] = "wait"
    BY <1>12, FinishedMoves
  <2>4. QED  BY <1>p, <2>1, <2>2, <2>3 DEF Threads, ClientSteps, WorkerSteps, BodySteps
<1>13. CASE DestructorNotifies
  <2>1. Local' = Local
    BY <1>13 DEF DestructorNotifies
  <2>2. \A u \in Threads : \/ pc'[u] = pc[u]
                           \/ u \in Workers /\ pc[u] = "asleep" /\ pc'[u] = "loop"
    BY <1>13, DestructorMoves
  <2>3. QED  BY <1>p, <2>1, <2>2 DEF WorkerSteps, BodySteps
<1>14. ASSUME NEW t \in Threads, SpuriousWakeup(t) PROVE PcInv'
  <2>1. Local' = Local
    BY <1>14 DEF SpuriousWakeup
  <2>2. CASE t \in Workers
    <3>1. Goto(t, "asleep", "loop")
      BY <1>14, <2>2 DEF SpuriousWakeup
    <3>2. QED  BY <1>q, <2>1, <2>2, <3>1 DEF WorkerSteps, BodySteps
  <2>3. CASE t \in Clients
    <3>1. Goto(t, "asleep", "wait")
      BY <1>14, <1>h, <2>3 DEF SpuriousWakeup
    <3>2. QED  BY <1>q, <2>1, <2>3, <3>1 DEF ClientSteps
  <2>4. QED  BY <2>2, <2>3 DEF Threads
<1>15. CASE DestructorStops \/ Finished \/ UNCHANGED vars
  <2>1. pc' = pc /\ Local' = Local
    BY <1>15 DEF DestructorStops, Finished, vars
  <2>2. QED  BY <1>p, <2>1
<1>16. QED
  BY <1>1, <1>2, <1>3, <1>4, <1>5, <1>6, <1>7, <1>8, <1>9, <1>10, <1>11, <1>12,
     <1>13, <1>14, <1>15
  DEF Next, EnqueueStep, WorkerStep

(* A task moves from the queue to a worker and from there to done. *)
LEMMA PlaceStep ==
  ASSUME TypeOK, PcInv, PlaceInv, [Next]_vars
  PROVE  PlaceInv'
<1> DEFINE Where == <<tasks_, running, accepted, done>>
<1> USE PoolAssumption DEF Threads
<1>1. ASSUME Where' = Where PROVE PlaceInv'
  BY <1>1 DEF PlaceInv, Queued, Running
<1>2. ASSUME NEW t \in Threads, Push(t) PROVE PlaceInv'
  <2>1. task[t] \in Tasks /\ tasks_ \in Seq(Tasks)
    BY <1>2 DEF Push, PcInv, TypeOK, Goto
  <2>2. /\ tasks_' = Append(tasks_, task[t]) /\ accepted' = accepted \cup {task[t]}
        /\ running' = running /\ done' = done
    BY <1>2 DEF Push
  <2>3. \A f \in Tasks : Queued(f)' <=> Queued(f) \/ f = task[t]
    BY <2>1, <2>2, ElementsAppend DEF Queued
  <2>4. \A f \in Tasks : Running(f)' <=> Running(f)
    BY <2>2 DEF Running
  <2>5. QED  BY <2>2, <2>3, <2>4 DEF PlaceInv
<1>3. ASSUME NEW w \in Workers, WorkerPops(w) PROVE PlaceInv'
  <2>1. /\ tasks_ \in Seq(Tasks) /\ tasks_ # << >> /\ tasks_' = Tail(tasks_)
        /\ running' = [running EXCEPT ![w] = Head(tasks_)]
        /\ accepted' = accepted /\ done' = done
        /\ running \in [Workers -> Tasks \cup {NoTask}]
    BY <1>3 DEF WorkerPops, TypeOK, history
  <2>2. running[w] \notin Tasks
    BY <1>3 DEF WorkerPops, PcInv, BodySteps, Goto
  <2>3. \A f \in Tasks : Queued(f) <=> Queued(f)' \/ f = Head(tasks_)
    <3>1. ASSUME NEW f
          PROVE  (\E i \in 1..Len(tasks_) : tasks_[i] = f)
                 <=> (\E i \in 1..Len(Tail(tasks_)) : Tail(tasks_)[i] = f)
                     \/ f = Head(tasks_)
      BY <2>1, ElementsTail
    <3>2. QED  BY <2>1, <3>1 DEF Queued
  <2>4. \A f \in Tasks : Running(f)' <=> Running(f) \/ f = Head(tasks_)
    BY <2>1, <2>2 DEF Running
  <2>5. QED  BY <2>1, <2>3, <2>4 DEF PlaceInv
<1>4. ASSUME NEW w \in Workers, BodyEnds(w) PROVE PlaceInv'
  <2>1. /\ running' = [running EXCEPT ![w] = NoTask]
        /\ done' = done \cup {running[w]}
        /\ accepted' = accepted /\ tasks_' = tasks_
        /\ running \in [Workers -> Tasks \cup {NoTask}]
    BY <1>4 DEF BodyEnds, TypeOK
  <2>2. \A f \in Tasks : Queued(f)' <=> Queued(f)
    BY <2>1 DEF Queued
  <2>3. \A f \in Tasks : Running(f) <=> Running(f)' \/ (Running(f) /\ f = running[w])
    BY <2>1 DEF Running
  <2>4. Running(running[w])
    BY DEF Running
  <2>5. QED  BY <2>1, <2>2, <2>3, <2>4 DEF PlaceInv
<1>5. ASSUME NEW t \in Threads,
             Enqueue(t) \/ EnqueueOnStopped(t) \/ NotifyOne(t) \/ SpuriousWakeup(t)
      PROVE  Where' = Where
  BY <1>5 DEF Enqueue, EnqueueOnStopped, NotifyOne, SpuriousWakeup, history
<1>6. ASSUME NEW c \in Clients, WaitAll(c) \/ WaitStep(c) PROVE Where' = Where
  BY <1>6
  DEF WaitAll, WaitStep, WaitAllReturns, WaitAllMustWait, WaitAllSleeps, history
<1>7. ASSUME NEW w \in Workers,
             WorkerSleeps(w) \/ WorkerExits(w) \/ UncountActive(w) \/ NotifyFinished(w)
      PROVE  Where' = Where
  BY <1>7 DEF WorkerSleeps, WorkerExits, UncountActive, NotifyFinished, history
<1>8. ASSUME DestructorStops \/ DestructorNotifies \/ Finished \/ UNCHANGED vars
      PROVE  Where' = Where
  BY <1>8 DEF DestructorStops, DestructorNotifies, Finished, vars, history
<1> HIDE DEF Where
<1>9. QED
  BY <1>1, <1>2, <1>3, <1>4, <1>5, <1>6, <1>7, <1>8
  DEF Next, EnqueueStep, WorkerStep

(* The shutdown: clients have left before stop_ is set, and a worker that  *)
(* pushes after that is itself still there to run what it pushed.          *)
LEMMA StopStep ==
  ASSUME TypeOK, PcInv, StopInv, [Next]_vars
  PROVE  StopInv'
<1> USE PoolAssumption DEF Threads, TypeOK, StopInv, Goto, Home, history
<1>1. ASSUME NEW t \in Threads, Enqueue(t) \/ EnqueueOnStopped(t) PROVE StopInv'
  BY <1>1 DEF Enqueue, EnqueueOnStopped
<1>2. ASSUME NEW t \in Threads, Push(t) PROVE StopInv'
  <2>1. pc[t] = "push" /\ pc' = [pc EXCEPT ![t] = "notify_one"]
        /\ stop_' = stop_ /\ destructor' = destructor
    BY <1>2 DEF Push
  <2>2. destructor # "not called" => t \in Workers
    BY <2>1
  <2>3. (\A w \in Workers : pc'[w] = "exited") => FALSE
    BY <2>1, <2>2
  <2>4. QED  BY <2>1, <2>2, <2>3
<1>3. ASSUME NEW t \in Threads, NotifyOne(t) PROVE StopInv'
  <2>1. CASE Asleep(Workers) = {}
    BY <1>3, <2>1 DEF NotifyOne
  <2>2. ASSUME NEW w \in Asleep(Workers),
               pc' = [pc EXCEPT ![t] = Home(t), ![w] = "loop"]
        PROVE  StopInv'
    BY <1>3, <2>2 DEF NotifyOne, Asleep
  <2>3. QED  BY <1>3, <2>1, <2>2 DEF NotifyOne
<1>4. ASSUME NEW c \in Clients, WaitAll(c) \/ WaitStep(c) PROVE StopInv'
  BY <1>4 DEF WaitAll, WaitStep, WaitAllReturns, WaitAllMustWait, WaitAllSleeps, MayCall
<1>5. ASSUME NEW w \in Workers, WorkerPops(w) \/ WorkerSleeps(w) \/ WorkerExits(w)
      PROVE  StopInv'
  BY <1>5 DEF WorkerPops, WorkerSleeps, WorkerExits
<1>6. ASSUME NEW w \in Workers, BodyEnds(w) \/ UncountActive(w) PROVE StopInv'
  BY <1>6 DEF BodyEnds, UncountActive
<1>7. ASSUME NEW w \in Workers, NotifyFinished(w) PROVE StopInv'
  BY <1>7 DEF NotifyFinished, Asleep
<1>8. CASE DestructorStops \/ DestructorNotifies
  BY <1>8 DEF DestructorStops, DestructorNotifies, Asleep
<1>9. ASSUME NEW t \in Threads, SpuriousWakeup(t) PROVE StopInv'
  BY <1>9 DEF SpuriousWakeup
<1>10. CASE Finished \/ UNCHANGED vars
  BY <1>10 DEF Finished, vars
<1> HIDE DEF StopInv
<1>11. QED
  BY <1>1, <1>2, <1>3, <1>4, <1>5, <1>6, <1>7, <1>8, <1>9, <1>10
  DEF Next, EnqueueStep, WorkerStep

(* While a worker sleeps, every waiting task has a notification ahead of   *)
(* it or a worker on its way to the queue: a worker falls asleep on an     *)
(* empty queue, every push since then added a task and a notifier, a       *)
(* notification turns a sleeper into such a worker, and a pop uses up one  *)
(* of each.                                                                *)
LEMMA StrandedStep ==
  ASSUME TypeOK, PcInv, NoStrandedTask, [Next]_vars
  PROVE  NoStrandedTask'
<1> DEFINE Sleeping == \E w \in Workers : pc[w] = "asleep"
           Enough == Len(tasks_) <= Cardinality(Notifiers) + Cardinality(Lookers)
           Kept == /\ tasks_' = tasks_
                   /\ Sleeping' => Sleeping
                   /\ \A t \in Threads : pc[t] = "notify_one" => pc'[t] = "notify_one"
                   /\ \A w \in Workers : pc[w] = "loop" => pc'[w] = "loop"
<1> USE PoolAssumption DEF Threads
<1>0. /\ NoStrandedTask <=> (Sleeping => Enough)
      /\ NoStrandedTask' <=> (Sleeping => Enough)'
  BY DEF NoStrandedTask, Notifiers, Lookers, Asleep
<1>1. /\ IsFiniteSet(Threads) /\ IsFiniteSet(Workers)
      /\ Notifiers \in SUBSET Threads /\ Notifiers' \in SUBSET Threads
      /\ Lookers \in SUBSET Workers /\ Lookers' \in SUBSET Workers
      /\ Cardinality(Notifiers) \in Nat /\ Cardinality(Notifiers') \in Nat
      /\ Cardinality(Lookers) \in Nat /\ Cardinality(Lookers') \in Nat
      /\ tasks_ \in Seq(Tasks) /\ Len(tasks_) \in Nat /\ DOMAIN pc = Threads
  <2>1. /\ Notifiers \subseteq Threads /\ Notifiers' \subseteq Threads
        /\ Lookers \subseteq Workers /\ Lookers' \subseteq Workers
    BY DEF Notifiers, Lookers
  <2>2. tasks_ \in Seq(Tasks) /\ Len(tasks_) \in Nat /\ DOMAIN pc = Threads
    BY LenProperties DEF TypeOK
  <2>3. \A S : S \subseteq Threads => IsFiniteSet(S) /\ Cardinality(S) \in Nat
    BY FiniteThreads
  <2>4. QED  BY <2>1, <2>2, <2>3
<1>2. ASSUME Kept PROVE NoStrandedTask'
  <2>1. Notifiers \subseteq Notifiers' /\ Lookers \subseteq Lookers'
    BY <1>2 DEF Notifiers, Lookers
  <2>2. /\ Cardinality(Notifiers) <= Cardinality(Notifiers')
        /\ Cardinality(Lookers) <= Cardinality(Lookers')
    BY <1>1, <2>1, FiniteThreads, FS_Subset
  <2>3. QED  BY <1>0, <1>1, <1>2, <2>2
<1>3. ASSUME NEW t \in Threads, Push(t) PROVE NoStrandedTask'
  <2>1. /\ pc[t] = "push" /\ pc' = [pc EXCEPT ![t] = "notify_one"]
        /\ tasks_' = Append(tasks_, task[t]) /\ task[t] \in Tasks
    BY <1>3 DEF Push, Goto, PcInv
  <2>2. Sleeping' => Sleeping
    BY <1>1, <2>1
  <2>3. Lookers' = Lookers
    BY <1>1, <2>1 DEF Lookers
  <2>4. Notifiers' = Notifiers \cup {t} /\ t \notin Notifiers
    BY <1>1, <2>1 DEF Notifiers
  <2>5. Cardinality(Notifiers') = Cardinality(Notifiers) + 1
    BY <1>1, <2>4, CountJoin, FiniteThreads
  <2>6. Len(tasks_') = Len(tasks_) + 1
    BY <1>1, <2>1, AppendProperties
  <2>7. QED  BY <1>0, <1>1, <2>2, <2>3, <2>5, <2>6
<1>4. ASSUME NEW t \in Threads, NotifyOne(t) PROVE NoStrandedTask'
  <2>1. pc[t] = "notify_one" /\ tasks_' = tasks_ /\ Home(t) \in {"body", "idle"}
    BY <1>4 DEF NotifyOne, Home
  <2>2. CASE ~Sleeping
    <3>1. pc' = [pc EXCEPT ![t] = Home(t)]
      BY <1>4, <2>2 DEF NotifyOne, Asleep
    <3>2. ~Sleeping'
      BY <1>1, <2>1, <2>2, <3>1
    <3>3. QED  BY <1>0, <3>2
  <2>3. ASSUME NEW w \in Workers, pc[w] = "asleep",
               pc' = [pc EXCEPT ![t] = Home(t), ![w] = "loop"]
        PROVE  NoStrandedTask'
    <3>1. Notifiers' = Notifiers \ {t} /\ t \in Notifiers
      BY <1>1, <2>1, <2>3 DEF Notifiers
    <3>2. Lookers' = Lookers \cup {w} /\ w \notin Lookers
      BY <1>1, <2>1, <2>3 DEF Lookers
    <3>3. Cardinality(Notifiers') = Cardinality(Notifiers) - 1
      BY <1>1, <3>1, CountLeave, FiniteThreads
    <3>4. Cardinality(Lookers') = Cardinality(Lookers) + 1
      BY <1>1, <3>2, CountJoin, FiniteThreads
    <3>5. QED  BY <1>0, <1>1, <2>1, <2>3, <3>3, <3>4
  <2>4. QED  BY <1>4, <2>2, <2>3 DEF NotifyOne, Asleep
<1>5. ASSUME NEW w \in Workers, WorkerPops(w) PROVE NoStrandedTask'
  <2>1. /\ pc[w] = "loop" /\ pc' = [pc EXCEPT ![w] = "body"]
        /\ tasks_ # << >> /\ tasks_' = Tail(tasks_)
    BY <1>5 DEF WorkerPops, Goto
  <2>2. Sleeping' => Sleeping
    BY <1>1, <2>1
  <2>3. Notifiers' = Notifiers
    BY <1>1, <2>1 DEF Notifiers
  <2>4. Lookers' = Lookers \ {w} /\ w \in Lookers
    BY <1>1, <2>1 DEF Lookers
  <2>5. Cardinality(Lookers') = Cardinality(Lookers) - 1
    BY <1>1, <2>4, CountLeave, FiniteThreads
  <2>6. Len(tasks_') = Len(tasks_) - 1
    BY <1>1, <2>1, HeadTailProperties
  <2>7. QED  BY <1>0, <1>1, <2>2, <2>3, <2>5, <2>6
<1>6. ASSUME NEW w \in Workers, WorkerSleeps(w) \/ WorkerExits(w) PROVE NoStrandedTask'
  <2>1. tasks_' = << >>
    BY <1>6 DEF WorkerSleeps, WorkerExits
  <2>2. Len(tasks_') = 0
    BY <2>1
  <2>3. QED  BY <1>0, <1>1, <2>2
<1> USE DEF TypeOK, PcInv, BodySteps, Goto, Home
<1>7. ASSUME NEW t \in Threads, Enqueue(t) PROVE Kept
  BY <1>7 DEF Enqueue
<1>8. ASSUME NEW t \in Threads, EnqueueOnStopped(t) PROVE Kept
  BY <1>8 DEF EnqueueOnStopped
<1>9. ASSUME NEW c \in Clients, WaitAll(c) \/ WaitStep(c) PROVE Kept
  BY <1>9 DEF WaitAll, WaitStep, WaitAllReturns, WaitAllMustWait, WaitAllSleeps
<1>10. ASSUME NEW w \in Workers, BodyEnds(w) \/ UncountActive(w) PROVE Kept
  BY <1>10 DEF BodyEnds, UncountActive
<1>11. ASSUME NEW w \in Workers, NotifyFinished(w) PROVE Kept
  BY <1>11 DEF NotifyFinished, Asleep
<1>12. ASSUME DestructorStops PROVE Kept
  BY <1>12 DEF DestructorStops
<1>13. ASSUME DestructorNotifies PROVE Kept
  BY <1>13 DEF DestructorNotifies, Asleep
<1>14. ASSUME NEW t \in Threads, SpuriousWakeup(t) PROVE Kept
  BY <1>14 DEF SpuriousWakeup
<1>15. ASSUME Finished \/ UNCHANGED vars PROVE Kept
  BY <1>15 DEF Finished, vars
<1> HIDE DEF Kept
<1>16. QED
  BY <1>2, <1>3, <1>4, <1>5, <1>6, <1>7, <1>8, <1>9, <1>10, <1>11, <1>12, <1>13,
     <1>14, <1>15
  DEF Next, EnqueueStep, WorkerStep

(* After notify_all of the destructor no worker falls asleep again. *)
LEMMA SleeperStep ==
  ASSUME TypeOK, PcInv, StopInv, NoSleeperAtJoin, [Next]_vars
  PROVE  NoSleeperAtJoin'
<1> DEFINE Awake == \A w \in Workers : pc[w] # "asleep"
           Falls == \E w \in Workers : pc'[w] = "asleep" /\ pc[w] # "asleep"
<1> USE PoolAssumption DEF Threads, TypeOK, PcInv, BodySteps, Goto, Home
<1>0. /\ NoSleeperAtJoin <=> (destructor = "join" => Awake)
      /\ NoSleeperAtJoin' <=> (destructor = "join" => Awake)'
  BY DEF NoSleeperAtJoin, Asleep
<1>1. ASSUME destructor' = destructor, ~Falls PROVE NoSleeperAtJoin'
  BY <1>0, <1>1
<1>2. ASSUME NEW t \in Threads, Enqueue(t) \/ EnqueueOnStopped(t) \/ Push(t)
      PROVE  destructor' = destructor /\ ~Falls
  BY <1>2 DEF Enqueue, EnqueueOnStopped, Push
<1>3. ASSUME NEW t \in Threads, NotifyOne(t) \/ SpuriousWakeup(t)
      PROVE  destructor' = destructor /\ ~Falls
  BY <1>3 DEF NotifyOne, SpuriousWakeup, Asleep
<1>4. ASSUME NEW c \in Clients, WaitAll(c) \/ WaitStep(c)
      PROVE  destructor' = destructor /\ ~Falls
  BY <1>4 DEF WaitAll, WaitStep, WaitAllReturns, WaitAllMustWait, WaitAllSleeps
<1>5. ASSUME NEW w \in Workers, WorkerSleeps(w) PROVE NoSleeperAtJoin'
  <2>1. destructor = "not called" /\ destructor' = destructor
    BY <1>5 DEF WorkerSleeps, StopInv
  <2>2. QED  BY <1>0, <2>1
<1>6. ASSUME NEW w \in Workers, WorkerPops(w) \/ WorkerExits(w) \/ BodyEnds(w)
      PROVE  destructor' = destructor /\ ~Falls
  BY <1>6 DEF WorkerPops, WorkerExits, BodyEnds
<1>7. ASSUME NEW w \in Workers, UncountActive(w) \/ NotifyFinished(w)
      PROVE  destructor' = destructor /\ ~Falls
  BY <1>7 DEF UncountActive, NotifyFinished, Asleep
<1>8. CASE DestructorStops
  BY <1>0, <1>8 DEF DestructorStops
<1>9. CASE DestructorNotifies
  BY <1>0, <1>9 DEF DestructorNotifies, Asleep
<1>10. CASE Finished \/ UNCHANGED vars
  BY <1>10, <1>1 DEF Finished, vars
<1> HIDE DEF Falls
<1>11. QED
  BY <1>1, <1>2, <1>3, <1>4, <1>5, <1>6, <1>7, <1>8, <1>9, <1>10
  DEF Next, EnqueueStep, WorkerStep

-----------------------------------------------------------------------------
(***************************************************************************)
(* The theorems                                                            *)
(***************************************************************************)

(* The inductive invariant holds in every reachable state. *)
THEOREM Invariance == Spec => []IInv
<1>1. IInv /\ [Next]_vars => IInv'
  BY CountStep, TypeStep, PcStep, PlaceStep, StopStep, StrandedStep, SleeperStep
  DEF IInv, NoLostWakeup
<1>2. QED
  BY InitIInv, <1>1, PTL DEF Spec

(* The size_t active_tasks_ of threadpool.h:75 never wraps below zero, and *)
(* the rest of the state keeps its shape.                                  *)
THEOREM TypeCorrect == Spec => []TypeOK
<1>1. IInv => TypeOK
  BY DEF IInv
<1>2. QED
  BY Invariance, <1>1, PTL

(* No worker sleeps while it is needed: neither while a task waits that no *)
(* notification and no worker on its way to the queue accounts for         *)
(* (threadpool.h:118), nor while the destructor joins (threadpool.h:163).  *)
THEOREM NoWakeupIsLost == Spec => []NoLostWakeup
<1>1. IInv => NoLostWakeup
  BY DEF IInv
<1>2. QED
  BY Invariance, <1>1, PTL

(* When ~ThreadPool() (threadpool.h:153) has joined the workers,           *)
(* everything that was accepted has run.                                   *)
THEOREM DestructorDrains == Spec => []DrainedOnExit
<1>1. IInv => DrainedOnExit
  <2> SUFFICES ASSUME IInv, Joined
               PROVE  tasks_ = << >> /\ active_tasks_ = 0 /\ accepted = done
    BY DEF DrainedOnExit
  <2>1. tasks_ = << >>
    BY DEF IInv, StopInv, Joined
  <2>2. Active = {}
    BY DEF Joined, Active, BodySteps
  <2>3. active_tasks_ = 0
    BY <2>2, FS_EmptySet DEF IInv, CountInv
  <2>4. \A f \in Tasks : ~Running(f)
    BY DEF IInv, PcInv, Joined, Running, BodySteps
  <2>5. \A f \in Tasks : f \in accepted <=> f \in done
    BY <2>1, <2>4, EmptyQueue DEF IInv, PlaceInv
  <2>6. QED  BY <2>1, <2>3, <2>5 DEF IInv, TypeOK
<1>2. QED
  BY Invariance, <1>1, PTL

(* wait_all (threadpool.h:124) returns only when everything accepted has   *)
(* run: a task is counted before its critical section lets anyone look.    *)
THEOREM WaitAllIsExact == Spec => WaitAllWaits
<1>1. IInv /\ [Next]_vars =>
        [\A c \in Clients : WaitAllReturns(c) => accepted = done]_vars
  <2> SUFFICES ASSUME IInv, NEW c \in Clients, WaitAllReturns(c)
               PROVE  accepted = done
    OBVIOUS
  <2>1. tasks_ = << >> /\ active_tasks_ = 0
    BY DEF WaitAllReturns, AllFinished
  <2>2. Active = {}
    <3>1. Active \subseteq Threads
      BY DEF Active, Threads
    <3>2. QED  BY <2>1, <3>1, CountNone, FiniteThreads DEF IInv, CountInv
  <2>3. \A f \in Tasks : ~Running(f)
    BY <2>2 DEF IInv, PcInv, Active, Running
  <2>4. \A f \in Tasks : f \in accepted <=> f \in done
    BY <2>1, <2>3, EmptyQueue DEF IInv, PlaceInv
  <2>5. QED  BY <2>4 DEF IInv, TypeOK
<1>2. QED
  BY Invariance, <1>1, PTL DEF Spec, WaitAllWaits
=============================================================================
