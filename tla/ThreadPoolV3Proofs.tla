------------------------- MODULE ThreadPoolV3Proofs -------------------------
(***************************************************************************)
(* Proofs about ThreadPoolV3.  Every step of it is a step of the           *)
(* ThreadPoolV2 underneath or leaves it alone, so what ThreadPoolV2Proofs  *)
(* proves is reused; the rest is about the metrics and the second phase of *)
(* wait_all.                                                               *)
(***************************************************************************)
EXTENDS ThreadPoolV3, CountingLemmas

(* The pool underneath with its inductive invariant PP!IInv and the        *)
(* theorems about it; PP!A and P!A are the same formula.                   *)
PP == INSTANCE ThreadPoolV2Proofs

-----------------------------------------------------------------------------
(***************************************************************************)
(* The inductive invariant                                                 *)
(***************************************************************************)
InWrapper ==
  {"active_inc", "fn", "failed_inc", "observe", "completed_inc", "active_dec", "end",
   "submit"}
InPhase2 == {"load_submitted", "load_completed", "load_failed", "set_gauges"}

(* Where a thread is in the code of V3 tells where it is in that of V2. *)
ClientPlace(c) ==
  \/ where[c] \in {"idle", "submit"} \cup InPhase2 /\ pc[c] = "idle"
  \/ where[c] = "pool_enqueue" /\ pc[c] \in P!EnqueuePcs
  \/ where[c] = "pool_wait_all" /\ pc[c] \in {"wait_head", "wait_tail", "wait_active"}
WorkerPlace(w) ==
  \/ where[w] \in InWrapper /\ pc[w] = "body"
  \/ where[w] = "pool_enqueue" /\ pc[w] \in P!EnqueuePcs
  \/ where[w] = "idle" /\ pc[w] \notin {"body"} \cup P!EnqueuePcs
PlaceInv ==
  (\A c \in Clients : ClientPlace(c)) /\ (\A w \in Workers : WorkerPlace(w))

(* The tasks that a call of enqueue is or was about, and the threads whose *)
(* call is counted and has not come to its task.                           *)
Known == {f \in Tasks : fate[f] # "new"}
Submitting == {t \in Threads : where[t] = "submit"}

(* The wrapper on w has counted its task as completed or failed; it has    *)
(* observed its latency; its callable has come back.                       *)
Booked(w) == where[w] \in {"active_dec", "end"} \/ (where[w] = "observe" /\ ok[w] = FALSE)
Observed(w) == where[w] \in {"completed_inc", "active_dec", "end"}
CameBack(w) == where[w] \in {"failed_inc", "observe", "completed_inc", "active_dec", "end"}

BookedTasks ==
  {f \in Tasks : f \in done \/ \E w \in Workers : Booked(w) /\ running[w] = f}
ObservedTasks ==
  {f \in Tasks : f \in done \/ \E w \in Workers : Observed(w) /\ running[w] = f}

(* Every counter is the size of a set of tasks or calls. *)
SubmitBook ==
  /\ IsFiniteSet(Known)
  /\ tasks_submitted_ = Cardinality(Submitting) + Cardinality(Known)
FinishBook == tasks_completed_ + tasks_failed_ = Cardinality(BookedTasks)
LatencyBook == task_latency_ = Cardinality(ObservedTasks)

(* A task whose call has not ended is in the hands of a thread. *)
CallerInv == \A f \in Tasks : fate[f] = "submitting" => \E t \in Threads : future[t] = f

RanInv ==
  /\ done \subseteq ran
  /\ \A w \in Workers : CameBack(w) => running[w] \in ran

(* The gauge counts the wrappers between inc and dec, less those there     *)
(* were when it was last set to 0.                                         *)
GaugeInv ==
  \E k \in 0..Cardinality(Workers) : active_workers_ = Cardinality(Inside) - k

(* What wait_all has loaded is not ahead of the counters. *)
WaitInv ==
  \A c \in Clients :
    /\ \A f \in before[c] : fate[f] = "accepted"
    /\ where[c] = "load_failed" => completed[c] <= tasks_completed_
    /\ where[c] = "set_gauges" => submitted[c] <= tasks_completed_ + tasks_failed_

IInv ==
  /\ PP!IInv /\ TypeOK /\ PlaceInv
  /\ SubmitBook /\ FinishBook /\ LatencyBook /\ CallerInv /\ RanInv
  /\ GaugeInv /\ WaitInv

-----------------------------------------------------------------------------
(***************************************************************************)
(* The pool underneath                                                     *)
(***************************************************************************)

(* The two instances of ThreadPoolV2 are the same. *)
LEMMA SamePool ==
  (P!Init <=> PP!Init) /\ ([P!Next]_(P!vars) <=> [PP!Next]_(PP!vars))
<1>1. P!Next <=> PP!Next
  BY
    DEF P!EnqueueStep, P!TryEnqueue, P!TryEnqueueTakesEffect, P!TryEnqueueTrue,
        P!TryEnqueueFalse, P!EnqueueGivesUp, P!EnqueueRetries, P!EnqueueReturns,
        P!WaitStep, P!WaitAllLoadsHead, P!WaitAllLoadsTail, P!WaitAllYields,
        P!WaitAllReturns, P!WorkerStep, P!Poll, P!PollTakesEffect, P!PollGetsTask,
        P!PollGetsNothing, P!CountActive, P!Run, P!RunEmpty, P!BodyEnds,
        P!UncountActive, P!CountCompleted, P!KeepsGoing, P!StopLoadsHead,
        P!StopLoadsTail, P!Next, P!Enqueue, P!EnqueueOnStopped, P!WaitAll, P!Destroy,
        P!Joined, P!Finished, P!MayCall, P!Goto, P!Home, P!Leave, P!EmptyLoadsHead,
        P!EmptyLoadsTail, P!Threads, P!queue, P!counters, P!locals, P!history, P!vars,
        P!Q!CallEnqueue, P!Q!LinEnqueue, P!Q!ReturnTrue, P!Q!ReturnFalse,
        P!Q!CallDequeue, P!Q!LinDequeue, P!Q!ReturnItem, P!Q!ReturnNullopt, P!Q!Step,
        PP!EnqueueStep, PP!TryEnqueue, PP!TryEnqueueTakesEffect, PP!TryEnqueueTrue,
        PP!TryEnqueueFalse, PP!EnqueueGivesUp, PP!EnqueueRetries, PP!EnqueueReturns,
        PP!WaitStep, PP!WaitAllLoadsHead, PP!WaitAllLoadsTail, PP!WaitAllYields,
        PP!WaitAllReturns, PP!WorkerStep, PP!Poll, PP!PollTakesEffect,
        PP!PollGetsTask, PP!PollGetsNothing, PP!CountActive, PP!Run, PP!RunEmpty,
        PP!BodyEnds, PP!UncountActive, PP!CountCompleted, PP!KeepsGoing,
        PP!StopLoadsHead, PP!StopLoadsTail, PP!Next, PP!Enqueue, PP!EnqueueOnStopped,
        PP!WaitAll, PP!Destroy, PP!Joined, PP!Finished, PP!MayCall, PP!Goto, PP!Home,
        PP!Leave, PP!EmptyLoadsHead, PP!EmptyLoadsTail, PP!Threads, PP!queue,
        PP!counters, PP!locals, PP!history, PP!vars, PP!Q!CallEnqueue,
        PP!Q!LinEnqueue, PP!Q!ReturnTrue, PP!Q!ReturnFalse, PP!Q!CallDequeue,
        PP!Q!LinDequeue, PP!Q!ReturnItem, PP!Q!ReturnNullopt, PP!Q!Step
<1>2. P!Init <=> PP!Init
  BY DEF P!Init, PP!Init, P!Q!Init, PP!Q!Init, P!Threads, PP!Threads
<1>3. UNCHANGED P!vars <=> UNCHANGED PP!vars
  BY DEF P!vars, PP!vars, P!queue, PP!queue, P!counters, PP!counters, P!locals,
         PP!locals, P!history, PP!history
<1>4. QED
  BY <1>1, <1>2, <1>3

\* Cardinality is the same operator in both instances of the pool's module.
LEMMA SameFiniteSets ==
  ASSUME NEW S
  PROVE  (PP!IsFiniteSet(S) <=> IsFiniteSet(S)) /\ PP!Cardinality(S) = P!Cardinality(S)
<1>1. PP!IsFiniteSet(S) <=> IsFiniteSet(S)
  BY DEF PP!IsFiniteSet, IsFiniteSet
<1>2. PP!Cardinality(S) = P!Cardinality(S)
  BY DEF PP!Cardinality, P!Cardinality
<1>3. QED
  BY <1>1, <1>2

(* A step of V3 is a step of the pool, or leaves it alone. *)
LEMMA PoolStep == [Next]_vars => [P!Next]_(P!vars)
<1> SUFFICES ASSUME [Next]_vars PROVE P!Next \/ UNCHANGED P!vars
  OBVIOUS
<1> USE DEF P!Next, P!Threads, Threads
<1>1. UNCHANGED pool => UNCHANGED P!vars
  BY DEF pool, P!vars, P!queue, P!counters, P!locals, P!history
<1>2. CASE UNCHANGED vars
  BY <1>1, <1>2 DEF vars
<1>3. CASE Finished
  BY <1>1, <1>3 DEF Finished, vars
<1>4. CASE ~terminated /\ Destroy
  BY <1>4 DEF Destroy
<1>5. ASSUME ~terminated, NEW t \in Threads, Submit(t) \/ EnqueueStep(t)
      PROVE  P!Next \/ UNCHANGED P!vars
  BY <1>1, <1>5
  DEF Submit, EnqueueStep, PoolEnqueue, PoolEnqueueSteps, PoolEnqueueReturns,
      PoolEnqueueThrows, P!EnqueueStep
<1>6. ASSUME ~terminated, NEW c \in Clients, WaitAll(c) \/ WaitStep(c)
      PROVE  P!Next \/ UNCHANGED P!vars
  BY <1>1, <1>6
  DEF WaitAll, WaitStep, PoolWaitSteps, PoolWaitReturns, LoadSubmitted, LoadCompleted,
      LoadFailed, WaitAllReturns, P!WaitStep
<1>7. ASSUME ~terminated, NEW w \in Workers, WorkerStep(w)
      PROVE  P!Next \/ UNCHANGED P!vars
  BY <1>1, <1>7
  DEF WorkerStep, PoolWorkerSteps, WrapperBegins, WrapperActive, FnReturns, FnThrows,
      WrapperFailed, WrapperObserves, WrapperCompleted, WrapperInactive, WrapperEnds,
      P!WorkerStep
<1>8. QED
  BY <1>2, <1>3, <1>4, <1>5, <1>6, <1>7 DEF Next

(* The invariant of the pool is kept. *)
LEMMA PoolInit == Init => PP!IInv
  BY PP!InitIInv, PoolAssumption, SameFiniteSets, SamePool DEF Init

\* Every step of the instrumented pool keeps the inner pool's inductive
\* invariant.
LEMMA PoolKept == PP!IInv /\ [Next]_vars => PP!IInv'
<1>1. PP!IInv /\ [PP!Next]_(PP!vars) => PP!IInv'
  BY PP!NextIInv, PoolAssumption, SameFiniteSets
<1>2. QED
  BY <1>1, PoolStep, SamePool

(* What the rest needs of it: a task in a body or in done was queued once, *)
(* and an enqueue that is under way is about a task of its own.            *)
InBody(w) == pc[w] \in {"body"} \cup P!EnqueuePcs

\* What the inner pool's invariant says of a thread inside a wrapper or a
\* call.
LEMMA PoolFacts ==
  ASSUME PP!IInv
  PROVE  /\ P!TypeOK
         /\ \A c \in Clients : pc[c] \in P!ClientPcs
         /\ \A w \in Workers : InBody(w) => /\ running[w] \in Tasks
                                            /\ running[w] \notin done
                                            /\ fate[running[w]] \in {"submitting", "accepted"}
         /\ \A v, w \in Workers : InBody(v) /\ InBody(w) /\ running[v] = running[w] => v = w
         /\ \A f \in done : fate[f] \in {"submitting", "accepted"}
         /\ \A t \in Threads : /\ pc[t] \in P!EnqueuePcs <=> future[t] \in Tasks
                               /\ future[t] \in Tasks => fate[future[t]] = "submitting"
         /\ \A t, u \in Threads :
              pc[t] \in P!EnqueuePcs /\ pc[u] \in P!EnqueuePcs /\ future[t] = future[u]
                => t = u
<1>1. P!TypeOK
  BY DEF PP!IInv, PP!TypeOK, P!TypeOK, PP!Functions, P!Functions, PP!Threads, P!Threads,
         PP!ClientPcs, P!ClientPcs, PP!WorkerPcs, P!WorkerPcs, PP!EnqueuePcs, P!EnqueuePcs
<1>2. \A c \in Clients : pc[c] \in P!ClientPcs
  BY DEF PP!IInv, PP!CallInv, PP!ClientPcs, P!ClientPcs, PP!EnqueuePcs, P!EnqueuePcs
<1>3. \A f \in Tasks : PP!Taken(f) => fate[f] \in {"submitting", "accepted"}
  <2>1. \A n \in 1..taken : n \in 1..Len(log)
    BY DEF PP!IInv, PP!TypeOK, PP!HoldInv
  <2>2. QED  BY <2>1 DEF PP!IInv, PP!Taken, PP!LogInv, PP!QueuedFate
<1>4. \A w \in Workers : InBody(w) => running[w] \in Tasks /\ PP!Holds(w, running[w])
  BY DEF PP!IInv, PP!CallInv, PP!Holds, InBody, P!EnqueuePcs, PP!EnqueuePcs
<1>5. \A w \in Workers : InBody(w) => /\ running[w] \notin done
                                      /\ fate[running[w]] \in {"submitting", "accepted"}
  BY <1>3, <1>4 DEF PP!IInv, PP!HoldInv
<1>6. \A v, w \in Workers : InBody(v) /\ InBody(w) /\ running[v] = running[w] => v = w
  BY <1>4 DEF PP!IInv, PP!HoldInv
<1>7. \A f \in done : fate[f] \in {"submitting", "accepted"}
  BY <1>3 DEF PP!IInv, PP!HoldInv, PP!TypeOK
<1>8. \A t \in Threads : /\ pc[t] \in P!EnqueuePcs <=> future[t] \in Tasks
                         /\ future[t] \in Tasks => fate[future[t]] = "submitting"
  BY DEF PP!IInv, PP!CallInv, PP!LogInv, PP!CallFate, P!EnqueuePcs, PP!EnqueuePcs,
         PP!Threads, Threads
<1>9. \A t, u \in Threads :
        pc[t] \in P!EnqueuePcs /\ pc[u] \in P!EnqueuePcs /\ future[t] = future[u] => t = u
  BY <1>8 DEF PP!IInv, PP!LogInv, PP!OneCall, PP!Threads, Threads
<1>10. QED
  BY <1>1, <1>2, <1>4, <1>5, <1>6, <1>7, <1>8, <1>9

-----------------------------------------------------------------------------
(***************************************************************************)
(* What the steps change                                                   *)
(***************************************************************************)

(* A step of t moves no other thread. *)
Moves(t) ==
  \A u \in Threads \ {t} : where'[u] = where[u] /\ pc'[u] = pc[u] /\ future'[u] = future[u]

\* A step of one thread keeps the places of all if it keeps that thread's
\* own.
LEMMA PlaceOfOne ==
  ASSUME PlaceInv, NEW t \in Threads, Moves(t),
         t \in Clients => ClientPlace(t)', t \in Workers => WorkerPlace(t)'
  PROVE  PlaceInv'
<1>1. ASSUME NEW c \in Clients PROVE ClientPlace(c)'
  BY DEF PlaceInv, ClientPlace, Moves, Threads
<1>2. ASSUME NEW w \in Workers PROVE WorkerPlace(w)'
  BY DEF PlaceInv, WorkerPlace, Moves, Threads
<1>3. QED
  BY <1>1, <1>2 DEF PlaceInv

(* The steps inside a call of the pool. *)
InnerStep ==
  \/ \E t \in Threads : PoolEnqueueSteps(t)
  \/ \E c \in Clients : PoolWaitSteps(c)
  \/ \E w \in Workers : PoolWorkerSteps(w)

\* A step of the inner pool alone touches no metric and no wrapper.
LEMMA InnerEffect ==
  ASSUME PP!IInv, TypeOK, PlaceInv, InnerStep
  PROVE  /\ PlaceInv'
         /\ UNCHANGED <<metrics, where, locals, freed, history, fate, done, future>>
         /\ \A w \in Workers : where[w] # "idle" => running'[w] = running[w]
<1>0. P!TypeOK
  BY PoolFacts
<1> USE <1>0, PoolAssumption
    DEF P!TypeOK, P!Threads, Threads, P!Goto, P!EnqueuePcs, P!queue, P!counters, P!locals,
        P!history
<1>1. ASSUME NEW t \in Threads, PoolEnqueueSteps(t)
      PROVE  /\ PlaceInv'
             /\ UNCHANGED <<metrics, where, locals, freed, history, fate, done, future,
                            running>>
  <2>1. /\ UNCHANGED <<metrics, where, locals, freed, history, fate, done, future, running>>
        /\ pc[t] = "try" \/ pc[t] = "retry" \/ pc' = pc
        /\ pc'[t] \in P!EnqueuePcs \/ pc' = pc
        /\ \A u \in Threads \ {t} : pc'[u] = pc[u]
    BY <1>1
    DEF PoolEnqueueSteps, P!TryEnqueue, P!TryEnqueueTakesEffect, P!TryEnqueueTrue,
        P!TryEnqueueFalse, P!EnqueueRetries
  <2>2. PlaceInv'
    BY <2>1, PlaceOfOne DEF PlaceInv, ClientPlace, WorkerPlace, Moves, InWrapper, InPhase2
  <2>3. QED  BY <2>1, <2>2
<1>2. ASSUME NEW c \in Clients, PoolWaitSteps(c)
      PROVE  /\ PlaceInv'
             /\ UNCHANGED <<metrics, where, locals, freed, history, fate, done, future,
                            running>>
  <2>1. /\ UNCHANGED <<metrics, where, locals, freed, history, fate, done, future, running>>
        /\ pc[c] \in {"wait_head", "wait_tail", "wait_active"}
        /\ pc'[c] \in {"wait_head", "wait_tail", "wait_active"}
        /\ \A u \in Threads \ {c} : pc'[u] = pc[u]
    BY <1>2
    DEF PoolWaitSteps, P!WaitAllLoadsHead, P!WaitAllLoadsTail, P!WaitAllYields,
        P!EmptyLoadsHead, P!EmptyLoadsTail
  <2>2. PlaceInv'
    BY <2>1, PlaceOfOne DEF PlaceInv, ClientPlace, WorkerPlace, Moves, InWrapper, InPhase2
  <2>3. QED  BY <2>1, <2>2
<1>3. ASSUME NEW w \in Workers, PoolWorkerSteps(w)
      PROVE  /\ PlaceInv'
             /\ UNCHANGED <<metrics, where, locals, freed, history, fate, done, future>>
             /\ \A v \in Workers : where[v] # "idle" => running'[v] = running[v]
  <2>1. /\ UNCHANGED <<metrics, where, locals, freed, history, fate, done, future>>
        /\ \A u \in Threads \ {w} : pc'[u] = pc[u]
        /\ \A v \in Workers \ {w} : running'[v] = running[v]
    BY <1>3
    DEF PoolWorkerSteps, P!Poll, P!PollTakesEffect, P!PollGetsTask, P!PollGetsNothing,
        P!CountActive, P!RunEmpty, P!UncountActive, P!CountCompleted, P!KeepsGoing,
        P!StopLoadsHead, P!StopLoadsTail, P!EmptyLoadsHead, P!EmptyLoadsTail
  <2>2. \/ pc' = pc /\ running' = running
        \/ /\ pc[w] \notin {"body"} \cup P!EnqueuePcs
           /\ pc'[w] \notin {"body"} \cup P!EnqueuePcs
    BY <1>3
    DEF PoolWorkerSteps, P!Poll, P!PollTakesEffect, P!PollGetsTask, P!PollGetsNothing,
        P!CountActive, P!RunEmpty, P!UncountActive, P!CountCompleted, P!KeepsGoing,
        P!StopLoadsHead, P!StopLoadsTail, P!EmptyLoadsHead, P!EmptyLoadsTail
  <2>3. PlaceInv'
    BY <2>1, <2>2, PlaceOfOne
    DEF PlaceInv, ClientPlace, WorkerPlace, Moves, InWrapper, InPhase2
  <2>4. QED  BY <2>1, <2>2, <2>3 DEF PlaceInv, WorkerPlace
<1>4. QED
  BY <1>1, <1>2, <1>3 DEF InnerStep

(* The steps into and out of a call of enqueue. *)
EnqueueEdge(t) ==
  Submit(t) \/ PoolEnqueue(t) \/ PoolEnqueueReturns(t) \/ PoolEnqueueThrows(t)

\* Of the metrics the edges of enqueue change tasks_submitted_ only, and they
\* move only their caller.
LEMMA EnqueueEffect ==
  ASSUME PP!IInv, TypeOK, PlaceInv, NEW t \in Threads, EnqueueEdge(t)
  PROVE  /\ PlaceInv' /\ Moves(t)
         /\ UNCHANGED <<tasks_completed_, tasks_failed_, active_workers_, task_latency_,
                        locals, freed, history, done, running>>
         /\ where[t] \in {Home(t), "submit", "pool_enqueue"}
         /\ where'[t] \in {Home(t), "submit", "pool_enqueue"}
<1>0. P!TypeOK
  BY PoolFacts
<1> USE <1>0, PoolAssumption
    DEF P!TypeOK, TypeOK, P!Threads, Threads, P!Goto, P!Home, Home, Move, P!EnqueuePcs,
        P!locals, metrics, history, locals
<1> DEFINE Effect ==
             /\ Moves(t)
             /\ UNCHANGED <<tasks_completed_, tasks_failed_, active_workers_, task_latency_,
                            locals, freed, history, done, running>>
             /\ where[t] \in {Home(t), "submit", "pool_enqueue"}
             /\ where'[t] \in {Home(t), "submit", "pool_enqueue"}
           Placed == (t \in Clients => ClientPlace(t)') /\ (t \in Workers => WorkerPlace(t)')
<1>1. SUFFICES Effect /\ Placed
  BY PlaceOfOne
<1>2. CASE Submit(t)
  <2>1. Effect /\ pc' = pc /\ where[t] = Home(t) /\ where'[t] = "submit"
    BY <1>2 DEF Submit, pool, Moves
  <2>2. Placed
    BY <2>1 DEF PlaceInv, ClientPlace, WorkerPlace, InWrapper, InPhase2
  <2>3. QED  BY <2>1, <2>2
<1>3. CASE PoolEnqueue(t)
  <2>1. Effect /\ where'[t] = "pool_enqueue" /\ pc'[t] = "try"
    BY <1>3 DEF PoolEnqueue, P!Enqueue, Moves
  <2>2. Placed
    BY <2>1 DEF ClientPlace, WorkerPlace
  <2>3. QED  BY <2>1, <2>2
<1>4. CASE PoolEnqueueReturns(t)
  <2>1. Effect /\ where'[t] = Home(t) /\ pc'[t] = P!Home(t)
    BY <1>4 DEF PoolEnqueueReturns, P!EnqueueReturns, P!Leave, Moves
  <2>2. Placed
    BY <2>1 DEF ClientPlace, WorkerPlace, InWrapper, InPhase2
  <2>3. QED  BY <2>1, <2>2
<1>5. CASE PoolEnqueueThrows(t)
  <2>1. Effect /\ where'[t] = Home(t) /\ pc'[t] = P!Home(t)
    <3>1. CASE P!EnqueueOnStopped(t) /\ Move(t, "submit", Home(t))
      BY <1>5, <3>1 DEF PoolEnqueueThrows, P!EnqueueOnStopped, Moves
    <3>2. CASE P!EnqueueGivesUp(t) /\ Move(t, "pool_enqueue", Home(t))
      BY <1>5, <3>2 DEF PoolEnqueueThrows, P!EnqueueGivesUp, P!Leave, Moves
    <3>3. QED  BY <1>5, <3>1, <3>2 DEF PoolEnqueueThrows
  <2>2. Placed
    BY <2>1 DEF ClientPlace, WorkerPlace, InWrapper, InPhase2
  <2>3. QED  BY <2>1, <2>2
<1>6. QED
  BY <1>2, <1>3, <1>4, <1>5 DEF EnqueueEdge

(* The steps of the wrapper on w. *)
WrapperStep(w) ==
  \/ WrapperBegins(w) \/ WrapperActive(w) \/ FnReturns(w) \/ FnThrows(w)
  \/ WrapperFailed(w) \/ WrapperObserves(w) \/ WrapperCompleted(w)
  \/ WrapperInactive(w) \/ WrapperEnds(w)

\* The task wrapper leaves the submission counter alone, and moves only its
\* worker.
LEMMA WrapperEffect ==
  ASSUME PP!IInv, TypeOK, PlaceInv, NEW w \in Workers, WrapperStep(w)
  PROVE  /\ PlaceInv' /\ Moves(w)
         /\ UNCHANGED <<tasks_submitted_, submitted, completed, freed, before, fate, future,
                        running>>
         /\ where[w] # "submit" /\ where'[w] # "submit"
<1>0. P!TypeOK
  BY PoolFacts
<1> USE <1>0, PoolAssumption
    DEF P!TypeOK, TypeOK, P!Threads, Threads, P!Goto, Move, P!EnqueuePcs, P!locals,
        P!history, metrics, history, locals
<1> DEFINE Effect ==
             /\ Moves(w)
             /\ UNCHANGED <<tasks_submitted_, submitted, completed, freed, before, fate,
                            future, running>>
             /\ where[w] # "submit" /\ where'[w] # "submit"
<1>1. SUFFICES Effect /\ WorkerPlace(w)'
  BY PlaceOfOne
<1>2. CASE WrapperBegins(w)
  <2>1. Effect /\ where'[w] = "active_inc" /\ pc'[w] = "body"
    BY <1>2 DEF WrapperBegins, P!Run, Moves
  <2>2. QED  BY <2>1 DEF WorkerPlace, InWrapper
<1>3. CASE WrapperEnds(w)
  <2>1. Effect /\ where'[w] = "idle" /\ pc'[w] = "ran"
    BY <1>3 DEF WrapperEnds, P!BodyEnds, Moves
  <2>2. QED  BY <2>1 DEF WorkerPlace
<1>4. CASE \/ WrapperActive(w) \/ FnReturns(w) \/ FnThrows(w) \/ WrapperFailed(w)
           \/ WrapperObserves(w) \/ WrapperCompleted(w) \/ WrapperInactive(w)
  <2>1. /\ Effect /\ pc' = pc
        /\ where[w] \in InWrapper /\ where'[w] \in InWrapper
    BY <1>4
    DEF WrapperActive, FnReturns, FnThrows, WrapperFailed, WrapperObserves,
        WrapperCompleted, WrapperInactive, pool, Moves, InWrapper
  <2>2. QED  BY <2>1 DEF PlaceInv, WorkerPlace, InWrapper
<1>5. QED
  BY <1>2, <1>3, <1>4 DEF WrapperStep

(* The steps of wait_all outside pool_.wait_all(). *)
WaitEdge(c) ==
  \/ WaitAll(c) \/ PoolWaitReturns(c) \/ LoadSubmitted(c) \/ LoadCompleted(c)
  \/ LoadFailed(c) \/ WaitAllReturns(c)

\* The edges of wait_all leave the counters alone, and move only their
\* caller.
LEMMA WaitEffect ==
  ASSUME PP!IInv, TypeOK, PlaceInv, NEW c \in Clients, WaitEdge(c)
  PROVE  /\ PlaceInv' /\ Moves(c)
         /\ UNCHANGED <<tasks_submitted_, tasks_completed_, tasks_failed_, task_latency_,
                        ok, freed, ran, fate, done, future, running>>
         /\ where[c] # "submit" /\ where'[c] # "submit"
<1>0. P!TypeOK
  BY PoolFacts
<1> USE <1>0, PoolAssumption
    DEF P!TypeOK, TypeOK, P!Threads, Threads, P!Goto, Move, P!EnqueuePcs, P!locals,
        P!history, metrics, history, locals
<1> DEFINE Effect ==
             /\ Moves(c)
             /\ UNCHANGED <<tasks_submitted_, tasks_completed_, tasks_failed_,
                            task_latency_, ok, freed, ran, fate, done, future, running>>
             /\ where[c] # "submit" /\ where'[c] # "submit"
<1>1. SUFFICES Effect /\ ClientPlace(c)'
  BY PlaceOfOne
<1>2. CASE WaitAll(c)
  <2>1. Effect /\ where'[c] = "pool_wait_all" /\ pc'[c] = "wait_tail"
    BY <1>2 DEF WaitAll, P!WaitAll, P!EmptyLoadsHead, Moves
  <2>2. QED  BY <2>1 DEF ClientPlace
<1>3. CASE PoolWaitReturns(c)
  <2>1. Effect /\ where'[c] = "load_submitted" /\ pc'[c] = "idle"
    BY <1>3 DEF PoolWaitReturns, P!WaitAllReturns, Moves
  <2>2. QED  BY <2>1 DEF ClientPlace, InPhase2
<1>4. CASE LoadSubmitted(c) \/ LoadCompleted(c) \/ LoadFailed(c) \/ WaitAllReturns(c)
  <2>1. /\ Effect /\ pc' = pc /\ where[c] \in InPhase2
        /\ where'[c] \in {"idle"} \cup InPhase2
    BY <1>4
    DEF LoadSubmitted, LoadCompleted, LoadFailed, WaitAllReturns, pool, Moves, InPhase2
  <2>2. QED  BY <2>1 DEF PlaceInv, ClientPlace, InPhase2
<1>5. QED
  BY <1>2, <1>3, <1>4 DEF WaitEdge

(* The steps of V3 in these groups. *)
LEMMA StepGroups ==
  ASSUME Next
  PROVE  \/ InnerStep \/ Destroy \/ UNCHANGED vars
         \/ \E t \in Threads : EnqueueEdge(t)
         \/ \E w \in Workers : WrapperStep(w)
         \/ \E c \in Clients : WaitEdge(c)
  BY DEF Next, EnqueueStep, WorkerStep, WaitStep, InnerStep, EnqueueEdge, WrapperStep,
         WaitEdge, Finished

-----------------------------------------------------------------------------
(***************************************************************************)
(* The shape of the state                                                  *)
(***************************************************************************)
LEMMA PoolTypesKept ==
  ASSUME PP!IInv'
  PROVE  P!TypeOK'
  BY DEF PP!IInv, PP!TypeOK, P!TypeOK, PP!Functions, P!Functions, PP!Threads, P!Threads,
         PP!ClientPcs, P!ClientPcs, PP!WorkerPcs, P!WorkerPcs, PP!EnqueuePcs, P!EnqueuePcs

\* Every step keeps the types.
LEMMA TypeStep ==
  ASSUME PP!IInv, PP!IInv', TypeOK, PlaceInv, [Next]_vars
  PROVE  TypeOK'
<1>0. P!TypeOK'
  BY PoolTypesKept
<1>1. \A w \in Workers : where[w] = "fn" => running[w] \in Tasks
  BY PoolFacts DEF PlaceInv, WorkerPlace, InBody
<1> USE <1>0 DEF TypeOK, Threads, Home, Move, metrics, locals, history, UpdatesMetrics
<1>2. CASE UNCHANGED vars
  BY <1>2 DEF vars
<1>3. CASE InnerStep
  BY <1>3 DEF InnerStep, PoolEnqueueSteps, PoolWaitSteps, PoolWorkerSteps
<1>4. CASE Destroy
  BY <1>4, RegistryAssumption DEF Destroy
<1>5. ASSUME NEW t \in Threads, EnqueueEdge(t) PROVE TypeOK'
  BY <1>5
  DEF EnqueueEdge, Submit, PoolEnqueue, PoolEnqueueReturns, PoolEnqueueThrows
<1>6. ASSUME NEW w \in Workers, WrapperStep(w) PROVE TypeOK'
  <2>1. CASE WrapperBegins(w) \/ WrapperActive(w) \/ WrapperEnds(w)
    BY <2>1 DEF WrapperBegins, WrapperActive, WrapperEnds
  <2>2. CASE FnReturns(w) \/ FnThrows(w)
    BY <1>1, <2>2 DEF FnReturns, FnThrows
  <2>3. CASE WrapperFailed(w)
    BY <2>3 DEF WrapperFailed
  <2>4. CASE WrapperObserves(w)
    BY <2>4 DEF WrapperObserves
  <2>5. CASE WrapperCompleted(w)
    BY <2>5 DEF WrapperCompleted
  <2>6. CASE WrapperInactive(w)
    BY <2>6 DEF WrapperInactive
  <2>7. QED  BY <1>6, <2>1, <2>2, <2>3, <2>4, <2>5, <2>6 DEF WrapperStep
<1>7. ASSUME NEW c \in Clients, WaitEdge(c) PROVE TypeOK'
  <2>1. CASE WaitAll(c)
    BY <2>1 DEF WaitAll
  <2>2. CASE PoolWaitReturns(c) \/ LoadSubmitted(c)
    BY <2>2 DEF PoolWaitReturns, LoadSubmitted
  <2>3. CASE LoadCompleted(c) \/ LoadFailed(c)
    BY <2>3 DEF LoadCompleted, LoadFailed
  <2>4. CASE WaitAllReturns(c)
    BY <2>4 DEF WaitAllReturns
  <2>5. QED  BY <1>7, <2>1, <2>2, <2>3, <2>4 DEF WaitEdge
<1>8. QED
  BY <1>2, <1>3, <1>4, <1>5, <1>6, <1>7, StepGroups

\* Every step keeps the place in the wrapper and the place in the inner pool
\* in agreement.
LEMMA PlaceStep ==
  ASSUME PP!IInv, TypeOK, PlaceInv, [Next]_vars
  PROVE  PlaceInv'
<1>1. CASE UNCHANGED vars
  BY <1>1 DEF vars, pool, PlaceInv, ClientPlace, WorkerPlace
<1>2. CASE Destroy
  BY <1>2 DEF Destroy, P!Destroy, PlaceInv, ClientPlace, WorkerPlace
<1>3. QED
  BY <1>1, <1>2, InnerEffect, EnqueueEffect, WrapperEffect, WaitEffect, StepGroups

-----------------------------------------------------------------------------
(***************************************************************************)
(* The book of submissions                                                 *)
(***************************************************************************)
LEMMA SubmitKept ==
  ASSUME SubmitBook, CallerInv, UNCHANGED <<tasks_submitted_, future>>,
         \A f \in Tasks : fate'[f] = fate[f],
         \A t \in Threads : where'[t] = "submit" <=> where[t] = "submit"
  PROVE  SubmitBook' /\ CallerInv'
<1>1. Known' = Known /\ Submitting' = Submitting
  BY DEF Known, Submitting
<1>2. QED
  BY <1>1 DEF SubmitBook, CallerInv

\* A pool has finitely many workers and callers.
LEMMA FiniteThreads == IsFiniteSet(Workers) /\ IsFiniteSet(Threads)
  BY PoolAssumption, FS_Union DEF Threads

(* A call of enqueue comes to its task f. *)
LEMMA SubmitComes ==
  ASSUME TypeOK, SubmitBook, NEW t \in Threads, NEW f \in Tasks, fate[f] = "new",
         where[t] = "submit", where'[t] # "submit", Moves(t),
         tasks_submitted_' = tasks_submitted_,
         fate'[f] # "new", \A g \in Tasks \ {f} : fate'[g] = fate[g]
  PROVE  SubmitBook'
<1>1. f \notin Known /\ Known' = Known \cup {f}
  BY DEF Known
<1>2. t \in Submitting /\ Submitting' = Submitting \ {t}
  BY DEF Submitting, Moves
<1>3. /\ IsFiniteSet(Known') /\ Cardinality(Known') = Cardinality(Known) + 1
      /\ Cardinality(Known) \in Nat
  BY <1>1, FS_AddElement, FS_CardinalityType DEF SubmitBook
<1>4. IsFiniteSet(Submitting) /\ Cardinality(Submitting) \in Nat
  <2>1. Submitting \in SUBSET Threads
    BY DEF Submitting
  <2>2. QED  BY <2>1, FiniteThreads, CountType
<1>5. Cardinality(Submitting') = Cardinality(Submitting) - 1
  BY <1>2, <1>4, CountLeave
<1>6. QED
  BY <1>3, <1>4, <1>5 DEF SubmitBook

(* A call of enqueue ends, and its task stays known. *)
LEMMA SubmitEnds ==
  ASSUME PP!IInv, SubmitBook, CallerInv, NEW t \in Threads, future[t] \in Tasks,
         where[t] # "submit", where'[t] # "submit", Moves(t),
         tasks_submitted_' = tasks_submitted_,
         fate'[future[t]] \in {"accepted", "refused"},
         \A g \in Tasks \ {future[t]} : fate'[g] = fate[g]
  PROVE  SubmitBook' /\ CallerInv'
<1>1. fate[future[t]] = "submitting"
  BY PoolFacts
<1>2. Known' = Known
  BY <1>1 DEF Known
<1>3. Submitting' = Submitting
  BY DEF Submitting, Moves
<1>4. ASSUME NEW f \in Tasks, fate'[f] = "submitting" PROVE \E u \in Threads : future'[u] = f
  <2>1. f # future[t] /\ fate[f] = "submitting"
    BY <1>4
  <2>2. PICK u \in Threads : future[u] = f
    BY <2>1 DEF CallerInv
  <2>3. QED  BY <2>1, <2>2 DEF Moves
<1>5. QED
  BY <1>2, <1>3, <1>4 DEF SubmitBook, CallerInv

\* The edges of enqueue keep tasks_submitted_ equal to the number of calls
\* that have counted themselves.
LEMMA EnqueueSubmits ==
  ASSUME PP!IInv, TypeOK, PlaceInv, SubmitBook, CallerInv, NEW t \in Threads, EnqueueEdge(t)
  PROVE  SubmitBook' /\ CallerInv'
<1>0. P!TypeOK /\ Moves(t)
  BY PoolFacts, EnqueueEffect
<1> USE PoolAssumption
    DEF P!TypeOK, P!Threads, Threads, TypeOK, Move, Home, P!Home, P!Goto, metrics,
        P!locals
<1>1. CASE Submit(t)
  <2>1. /\ where[t] # "submit" /\ where'[t] = "submit"
        /\ tasks_submitted_' = tasks_submitted_ + 1 /\ UNCHANGED <<fate, future>>
    BY <1>1 DEF Submit, pool
  <2>2. Known' = Known /\ Submitting' = Submitting \cup {t} /\ t \notin Submitting
    BY <1>0, <2>1 DEF Known, Submitting, Moves
  <2>3. IsFiniteSet(Submitting) /\ Cardinality(Submitting) \in Nat
    <3>1. Submitting \in SUBSET (Clients \cup Workers)
      BY DEF Submitting
    <3>2. QED  BY <3>1, FiniteThreads, CountType
  <2>4. Cardinality(Submitting') = Cardinality(Submitting) + 1
    BY <2>2, <2>3, CountJoin
  <2>5. SubmitBook'
    <3>1. Cardinality(Known) \in Nat
      BY FS_CardinalityType DEF SubmitBook
    <3>2. QED  BY <2>1, <2>2, <2>3, <2>4, <3>1 DEF SubmitBook
  <2>6. QED  BY <2>1, <2>5 DEF CallerInv
<1>2. CASE PoolEnqueue(t)
  <2>1. PICK f \in Tasks : /\ fate[f] = "new" /\ fate' = [fate EXCEPT ![f] = "submitting"]
                           /\ future' = [future EXCEPT ![t] = f]
    BY <1>2 DEF PoolEnqueue, P!Enqueue
  <2>2. /\ where[t] = "submit" /\ where'[t] = "pool_enqueue"
        /\ tasks_submitted_' = tasks_submitted_ /\ pc[t] \in {"body", "idle"}
    BY <1>2 DEF PoolEnqueue, P!Enqueue
  <2>3. SubmitBook'
    BY <1>0, <2>1, <2>2, SubmitComes
  <2>4. future[t] \notin Tasks
    BY <2>2, PoolFacts DEF P!EnqueuePcs
  <2>5. ASSUME NEW g \in Tasks, fate'[g] = "submitting"
        PROVE  \E u \in Threads : future'[u] = g
    <3>1. CASE g = f
      BY <1>0, <2>1, <3>1
    <3>2. CASE g # f
      <4>1. fate[g] = "submitting"
        BY <1>0, <2>1, <2>5, <3>2
      <4>2. PICK u \in Threads : future[u] = g
        BY <4>1 DEF CallerInv
      <4>3. QED  BY <1>0, <2>4, <4>2 DEF Moves
    <3>3. QED  BY <3>1, <3>2
  <2>6. QED  BY <2>3, <2>5 DEF CallerInv
<1>3. CASE PoolEnqueueReturns(t) \/ (PoolEnqueueThrows(t) /\ P!EnqueueGivesUp(t))
  <2>1. /\ where[t] = "pool_enqueue" \/ where[t] = "submit"
        /\ where'[t] # "submit"
        /\ tasks_submitted_' = tasks_submitted_ /\ pc[t] \in {"count", "retry"}
        /\ \E r \in {"accepted", "refused"} : fate' = [fate EXCEPT ![future[t]] = r]
    BY <1>3
    DEF PoolEnqueueReturns, PoolEnqueueThrows, P!EnqueueReturns, P!EnqueueGivesUp, P!Leave
  <2>2. future[t] \in Tasks
    BY <2>1, PoolFacts DEF P!EnqueuePcs
  <2>3. where[t] # "submit"
    BY <2>1 DEF PlaceInv, ClientPlace, WorkerPlace, InPhase2
  <2>4. QED  BY <1>0, <2>1, <2>2, <2>3, SubmitEnds
<1>4. CASE PoolEnqueueThrows(t) /\ P!EnqueueOnStopped(t)
  <2>1. PICK f \in Tasks : fate[f] = "new" /\ fate' = [fate EXCEPT ![f] = "refused"]
    BY <1>4 DEF P!EnqueueOnStopped
  <2>2. /\ where[t] = "submit" /\ where'[t] # "submit" /\ future' = future
        /\ tasks_submitted_' = tasks_submitted_
    <3>1. pc[t] \in {"body", "idle"} /\ future' = future /\ pc' = pc
      BY <1>4 DEF P!EnqueueOnStopped
    <3>2. ~P!EnqueueGivesUp(t)
      BY <3>1 DEF P!EnqueueGivesUp, P!Leave
    <3>3. QED  BY <1>4, <3>1, <3>2 DEF PoolEnqueueThrows
  <2>3. SubmitBook'
    BY <1>0, <2>1, <2>2, SubmitComes
  <2>4. CallerInv'
    BY <1>0, <2>1, <2>2 DEF CallerInv
  <2>5. QED  BY <2>3, <2>4
<1>5. QED
  BY <1>1, <1>2, <1>3, <1>4 DEF EnqueueEdge, PoolEnqueueThrows

\* Every step keeps the submission side of the books.
LEMMA SubmitStep ==
  ASSUME PP!IInv, TypeOK, PlaceInv, SubmitBook, CallerInv, [Next]_vars
  PROVE  SubmitBook' /\ CallerInv'
<1>1. CASE UNCHANGED vars
  BY <1>1, SubmitKept DEF vars, pool, metrics
<1>2. CASE Destroy
  BY <1>2, SubmitKept DEF Destroy, P!Destroy, P!locals, P!history, metrics
<1>3. CASE InnerStep
  BY <1>3, InnerEffect, SubmitKept DEF metrics
<1>4. ASSUME NEW w \in Workers, WrapperStep(w) PROVE SubmitBook' /\ CallerInv'
  <2>1. \A t \in Threads : where'[t] = "submit" <=> where[t] = "submit"
    BY <1>4, WrapperEffect DEF Moves
  <2>2. QED  BY <1>4, <2>1, WrapperEffect, SubmitKept
<1>5. ASSUME NEW c \in Clients, WaitEdge(c) PROVE SubmitBook' /\ CallerInv'
  <2>1. \A t \in Threads : where'[t] = "submit" <=> where[t] = "submit"
    BY <1>5, WaitEffect DEF Moves
  <2>2. QED  BY <1>5, <2>1, WaitEffect, SubmitKept
<1>6. QED
  BY <1>1, <1>2, <1>3, <1>4, <1>5, EnqueueSubmits, StepGroups

-----------------------------------------------------------------------------
(***************************************************************************)
(* The books of what has run                                               *)
(***************************************************************************)

(* No wrapper passes one of its increments, and no body ends. *)
RunsKept ==
  /\ UNCHANGED <<done, ran, tasks_completed_, tasks_failed_, task_latency_>>
  /\ \A w \in Workers :
       \/ /\ where'[w] = where[w] /\ ok'[w] = ok[w]
          /\ where[w] # "idle" => running'[w] = running[w]
       \/ /\ where[w] \in {"fn", "submit", "pool_enqueue"}
          /\ where'[w] \in {"fn", "submit", "pool_enqueue"}

\* A step that moves no wrapper, but for an enqueue its task makes, keeps the
\* completion side of the books.
LEMMA BooksKept ==
  ASSUME FinishBook, LatencyBook, RanInv, RunsKept
  PROVE  FinishBook' /\ LatencyBook' /\ RanInv' /\ Inside' = Inside
<1>1. \A w \in Workers :
        /\ Booked(w)' <=> Booked(w)
        /\ Observed(w)' <=> Observed(w)
        /\ CameBack(w)' <=> CameBack(w)
        /\ CameBack(w) => running'[w] = running[w]
        /\ Booked(w) \/ Observed(w) => CameBack(w)
  BY DEF RunsKept, Booked, Observed, CameBack
<1>2. BookedTasks' = BookedTasks /\ ObservedTasks' = ObservedTasks
  BY <1>1 DEF BookedTasks, ObservedTasks, RunsKept
<1>3. RanInv'
  BY <1>1 DEF RanInv, RunsKept
<1>4. Inside' = Inside
  BY DEF Inside, RunsKept
<1>5. QED
  BY <1>2, <1>3, <1>4 DEF FinishBook, LatencyBook, RunsKept

(* A worker whose wrapper has counted or observed its task is in the body  *)
(* of that task, and what is in the books was queued and not refused.      *)
LEMMA BookedFacts ==
  ASSUME PP!IInv, TypeOK, PlaceInv, SubmitBook
  PROVE  /\ \A w \in Workers : CameBack(w) \/ where[w] = "fn" => InBody(w)
         /\ \A w \in Workers : Booked(w) \/ Observed(w) => CameBack(w)
         /\ BookedTasks \subseteq Known \ Refused /\ ObservedTasks \subseteq Known
         /\ IsFiniteSet(BookedTasks) /\ IsFiniteSet(ObservedTasks)
         /\ Cardinality(BookedTasks) \in Nat /\ Cardinality(ObservedTasks) \in Nat
<1>1. \A w \in Workers : CameBack(w) \/ where[w] = "fn" => InBody(w)
  BY DEF PlaceInv, WorkerPlace, CameBack, InBody
<1>2. \A w \in Workers : Booked(w) \/ Observed(w) => CameBack(w)
  BY DEF Booked, Observed, CameBack
<1>3. BookedTasks \subseteq Known \ Refused /\ ObservedTasks \subseteq Known
  BY <1>1, <1>2, PoolFacts DEF BookedTasks, ObservedTasks, Known, Refused
<1>4. BookedTasks \in SUBSET Known /\ ObservedTasks \in SUBSET Known
  BY <1>3
<1>5. /\ IsFiniteSet(BookedTasks) /\ IsFiniteSet(ObservedTasks)
      /\ Cardinality(BookedTasks) \in Nat /\ Cardinality(ObservedTasks) \in Nat
  BY <1>4, CountType DEF SubmitBook
<1>6. QED
  BY <1>1, <1>2, <1>3, <1>5

(* A wrapper counts its task as completed or as failed. *)
LEMMA WrapperBooks ==
  ASSUME PP!IInv, TypeOK, PlaceInv, SubmitBook, FinishBook, LatencyBook, RanInv,
         NEW w \in Workers, WrapperFailed(w) \/ WrapperCompleted(w)
  PROVE  FinishBook' /\ LatencyBook' /\ RanInv'
<1> DEFINE x == running[w]
<1>1. /\ UNCHANGED <<done, ran, running, task_latency_>>
      /\ tasks_completed_' + tasks_failed_' = tasks_completed_ + tasks_failed_ + 1
      /\ \A v \in Workers \ {w} : where'[v] = where[v] /\ ok'[v] = ok[v]
      /\ where[w] \in {"failed_inc", "completed_inc"}
      /\ where[w] = "failed_inc" => where'[w] = "observe" /\ ok'[w] = FALSE
      /\ where[w] = "completed_inc" => where'[w] = "active_dec"
  BY DEF WrapperFailed, WrapperCompleted, Move, TypeOK, Threads, pool, history, locals
<1>2. CameBack(w) /\ CameBack(w)' /\ ~Booked(w) /\ Booked(w)' /\ (Observed(w)' <=> Observed(w))
  BY <1>1 DEF CameBack, Booked, Observed
<1>3. \A v \in Workers \ {w} : /\ Booked(v)' <=> Booked(v)
                               /\ Observed(v)' <=> Observed(v)
                               /\ CameBack(v)' <=> CameBack(v)
  BY <1>1 DEF CameBack, Booked, Observed
<1>4. x \in Tasks /\ x \notin done
  BY <1>2, BookedFacts, PoolFacts
<1>5. x \notin BookedTasks
  <2>1. \A v \in Workers : Booked(v) => running[v] # x
    BY <1>2, BookedFacts, PoolFacts
  <2>2. QED  BY <1>4, <2>1 DEF BookedTasks
<1>6. BookedTasks' = BookedTasks \cup {x}
  BY <1>1, <1>2, <1>3, <1>4 DEF BookedTasks
<1>7. ObservedTasks' = ObservedTasks
  BY <1>1, <1>2, <1>3 DEF ObservedTasks
<1>8. Cardinality(BookedTasks') = Cardinality(BookedTasks) + 1
  BY <1>5, <1>6, BookedFacts, CountJoin
<1>9. RanInv'
  BY <1>1, <1>2, <1>3 DEF RanInv
<1>10. QED
  BY <1>1, <1>7, <1>8, <1>9 DEF FinishBook, LatencyBook

(* A wrapper observes the latency of its task. *)
LEMMA WrapperLatency ==
  ASSUME PP!IInv, TypeOK, PlaceInv, SubmitBook, FinishBook, LatencyBook, RanInv,
         NEW w \in Workers, WrapperObserves(w)
  PROVE  FinishBook' /\ LatencyBook' /\ RanInv'
<1> DEFINE x == running[w]
<1>1. /\ UNCHANGED <<done, ran, running, ok, tasks_completed_, tasks_failed_>>
      /\ task_latency_' = task_latency_ + 1
      /\ \A v \in Workers \ {w} : where'[v] = where[v]
      /\ where[w] = "observe" /\ where'[w] = IF ok[w] THEN "completed_inc" ELSE "active_dec"
      /\ ok[w] \in BOOLEAN
  BY DEF WrapperObserves, Move, TypeOK, Threads, pool, history, locals
<1>2. CameBack(w) /\ CameBack(w)' /\ ~Observed(w) /\ Observed(w)' /\ (Booked(w)' <=> Booked(w))
  BY <1>1 DEF CameBack, Booked, Observed
<1>3. \A v \in Workers \ {w} : /\ Booked(v)' <=> Booked(v)
                               /\ Observed(v)' <=> Observed(v)
                               /\ CameBack(v)' <=> CameBack(v)
  BY <1>1 DEF CameBack, Booked, Observed
<1>4. x \in Tasks /\ x \notin done
  BY <1>2, BookedFacts, PoolFacts
<1>5. x \notin ObservedTasks
  <2>1. \A v \in Workers : Observed(v) => running[v] # x
    BY <1>2, BookedFacts, PoolFacts
  <2>2. QED  BY <1>4, <2>1 DEF ObservedTasks
<1>6. ObservedTasks' = ObservedTasks \cup {x}
  BY <1>1, <1>2, <1>3, <1>4 DEF ObservedTasks
<1>7. BookedTasks' = BookedTasks
  BY <1>1, <1>2, <1>3 DEF BookedTasks
<1>8. Cardinality(ObservedTasks') = Cardinality(ObservedTasks) + 1
  BY <1>5, <1>6, BookedFacts, CountJoin
<1>9. RanInv'
  BY <1>1, <1>2, <1>3 DEF RanInv
<1>10. QED
  BY <1>1, <1>7, <1>8, <1>9 DEF FinishBook, LatencyBook

(* The wrapper and with it the body of the task end: from here on the task *)
(* is in done.                                                             *)
LEMMA WrapperLeaves ==
  ASSUME PP!IInv, TypeOK, PlaceInv, FinishBook, LatencyBook, RanInv,
         NEW w \in Workers, WrapperEnds(w)
  PROVE  FinishBook' /\ LatencyBook' /\ RanInv'
<1> DEFINE x == running[w]
<1>1. /\ UNCHANGED <<ran, running, ok, tasks_completed_, tasks_failed_, task_latency_>>
      /\ done' = done \cup {x}
      /\ \A v \in Workers \ {w} : where'[v] = where[v]
      /\ where[w] = "end" /\ where'[w] = "idle"
  BY DEF WrapperEnds, P!BodyEnds, Move, TypeOK, Threads, P!locals, history, locals, metrics
<1>2. CameBack(w) /\ Booked(w) /\ Observed(w) /\ ~CameBack(w)' /\ ~Booked(w)' /\ ~Observed(w)'
  BY <1>1 DEF CameBack, Booked, Observed
<1>3. \A v \in Workers \ {w} : /\ Booked(v)' <=> Booked(v)
                               /\ Observed(v)' <=> Observed(v)
                               /\ CameBack(v)' <=> CameBack(v)
  BY <1>1 DEF CameBack, Booked, Observed
<1>4. BookedTasks' = BookedTasks
  BY <1>1, <1>2, <1>3 DEF BookedTasks
<1>5. ObservedTasks' = ObservedTasks
  BY <1>1, <1>2, <1>3 DEF ObservedTasks
<1>6. RanInv'
  BY <1>1, <1>2, <1>3 DEF RanInv
<1>7. QED
  BY <1>1, <1>4, <1>5, <1>6 DEF FinishBook, LatencyBook

(* The steps of the wrapper that add nothing to the books. *)
LEMMA WrapperGoesOn ==
  ASSUME TypeOK, FinishBook, LatencyBook, RanInv, NEW w \in Workers,
         \/ WrapperBegins(w) \/ WrapperActive(w) \/ FnReturns(w) \/ FnThrows(w)
         \/ WrapperInactive(w)
  PROVE  FinishBook' /\ LatencyBook' /\ RanInv'
<1>1. /\ UNCHANGED <<done, running, tasks_completed_, tasks_failed_, task_latency_>>
      /\ \A v \in Workers \ {w} : where'[v] = where[v] /\ ok'[v] = ok[v]
  BY DEF WrapperBegins, P!Run, WrapperActive, FnReturns, FnThrows, WrapperInactive, Move,
         TypeOK, Threads, pool, P!locals, P!history, history, locals, metrics
<1>2. /\ Booked(w)' <=> Booked(w)
      /\ Observed(w)' <=> Observed(w)
      /\ ran' = ran \/ ran' = ran \cup {running[w]}
      /\ CameBack(w)' => CameBack(w) \/ running[w] \in ran'
  BY DEF WrapperBegins, WrapperActive, FnReturns, FnThrows, WrapperInactive, Move,
         TypeOK, Threads, history, Booked, Observed, CameBack
<1>3. \A v \in Workers \ {w} : /\ Booked(v)' <=> Booked(v)
                               /\ Observed(v)' <=> Observed(v)
                               /\ CameBack(v)' <=> CameBack(v)
  BY <1>1 DEF CameBack, Booked, Observed
<1>4. BookedTasks' = BookedTasks
  BY <1>1, <1>2, <1>3 DEF BookedTasks
<1>5. ObservedTasks' = ObservedTasks
  BY <1>1, <1>2, <1>3 DEF ObservedTasks
<1>6. RanInv'
  BY <1>1, <1>2, <1>3 DEF RanInv
<1>7. QED
  BY <1>1, <1>4, <1>5, <1>6 DEF FinishBook, LatencyBook

(* The steps of the other groups. *)
LEMMA OthersKeepRuns ==
  ASSUME PP!IInv, TypeOK, PlaceInv,
         \/ InnerStep \/ Destroy \/ UNCHANGED vars
         \/ \E t \in Threads : EnqueueEdge(t)
         \/ \E c \in Clients : WaitEdge(c)
  PROVE  RunsKept
<1>1. CASE InnerStep
  BY <1>1, InnerEffect DEF RunsKept, metrics, history, locals
<1>2. CASE Destroy \/ UNCHANGED vars
  BY <1>2
  DEF RunsKept, Destroy, P!Destroy, vars, pool, P!locals, P!history, metrics, history,
      locals
<1>3. ASSUME NEW t \in Threads, EnqueueEdge(t) PROVE RunsKept
  BY <1>3, EnqueueEffect DEF RunsKept, Moves, locals, history, Home, Threads
<1>4. ASSUME NEW c \in Clients, WaitEdge(c) PROVE RunsKept
  BY <1>4, WaitEffect, PoolAssumption DEF RunsKept, Moves, Threads
<1>5. QED
  BY <1>1, <1>2, <1>3, <1>4

\* Every step keeps the completion side of the books: completed, failed and
\* latency count.
LEMMA BookStep ==
  ASSUME PP!IInv, TypeOK, PlaceInv, SubmitBook, FinishBook, LatencyBook, RanInv, [Next]_vars
  PROVE  FinishBook' /\ LatencyBook' /\ RanInv'
<1>1. ASSUME NEW w \in Workers, WrapperStep(w) PROVE FinishBook' /\ LatencyBook' /\ RanInv'
  BY <1>1, WrapperBooks, WrapperLatency, WrapperLeaves, WrapperGoesOn DEF WrapperStep
<1>2. QED
  BY <1>1, OthersKeepRuns, BooksKept, StepGroups

-----------------------------------------------------------------------------
(***************************************************************************)
(* The gauge active_workers_                                               *)
(***************************************************************************)
LEMMA InsideCount ==
  /\ IsFiniteSet(Inside) /\ Cardinality(Inside) \in Nat /\ Cardinality(Workers) \in Nat
  /\ Cardinality(Inside) <= Cardinality(Workers)
<1>1. Inside \subseteq Workers
  BY DEF Inside
<1>2. QED
  BY <1>1, FiniteThreads, FS_Subset, FS_CardinalityType

(* A step of the wrapper on w counts in the gauge what it does to Inside. *)
LEMMA WrapperGauge ==
  ASSUME TypeOK, PlaceInv, GaugeInv, NEW w \in Workers, WrapperStep(w)
  PROVE  GaugeInv'
<1> DEFINE a == Cardinality(Inside)
           b == Cardinality(Inside')
<1>1. Inside \in SUBSET Workers /\ Inside' \in SUBSET Workers
  BY DEF Inside
<1>2. \A v \in Workers \ {w} : where'[v] = where[v]
  BY DEF WrapperStep, WrapperBegins, WrapperActive, FnReturns, FnThrows, WrapperFailed,
         WrapperObserves, WrapperCompleted, WrapperInactive, WrapperEnds, Move, TypeOK,
         Threads
<1>3. \A v \in Workers \ {w} : v \in Inside <=> v \in Inside'
  BY <1>2 DEF Inside
<1>4. /\ a \in Nat /\ b \in Nat
      /\ (w \in Inside <=> w \in Inside') => b = a
      /\ w \notin Inside /\ w \in Inside' => b = a + 1
      /\ w \in Inside /\ w \notin Inside' => b = a - 1
  BY <1>1, <1>3, FiniteThreads, CountUpdate
<1>5. active_workers_' - active_workers_ = b - a
  <2>1. CASE WrapperActive(w)
    <3>1. /\ active_workers_' = active_workers_ + 1
          /\ where[w] = "active_inc" /\ where'[w] = "fn"
      BY <2>1 DEF WrapperActive, Move, TypeOK, Threads
    <3>2. w \notin Inside /\ w \in Inside'
      BY <3>1 DEF Inside
    <3>3. QED  BY <1>4, <3>1, <3>2 DEF TypeOK
  <2>2. CASE WrapperInactive(w)
    <3>1. /\ active_workers_' = active_workers_ - 1
          /\ where[w] = "active_dec" /\ where'[w] = "end"
      BY <2>2 DEF WrapperInactive, Move, TypeOK, Threads
    <3>2. w \in Inside /\ w \notin Inside'
      BY <3>1 DEF Inside
    <3>3. QED  BY <1>4, <3>1, <3>2 DEF TypeOK
  <2>3. CASE \/ WrapperBegins(w) \/ FnReturns(w) \/ FnThrows(w) \/ WrapperFailed(w)
             \/ WrapperObserves(w) \/ WrapperCompleted(w) \/ WrapperEnds(w)
    <3>1. active_workers_' = active_workers_
      BY <2>3
      DEF WrapperBegins, FnReturns, FnThrows, WrapperFailed, WrapperObserves,
          WrapperCompleted, WrapperEnds, metrics
    <3>2. w \in Inside <=> w \in Inside'
      BY <2>3
      DEF WrapperBegins, FnReturns, FnThrows, WrapperFailed, WrapperObserves,
          WrapperCompleted, WrapperEnds, Move, TypeOK, Threads, Inside
    <3>3. QED  BY <1>4, <3>1, <3>2 DEF TypeOK
  <2>4. QED  BY <2>1, <2>2, <2>3 DEF WrapperStep
<1>6. PICK k \in 0..Cardinality(Workers) : active_workers_ = a - k
  BY DEF GaugeInv
<1>7. active_workers_' \in Int
  BY DEF WrapperStep, WrapperBegins, WrapperActive, FnReturns, FnThrows, WrapperFailed,
         WrapperObserves, WrapperCompleted, WrapperInactive, WrapperEnds, metrics, TypeOK
<1>8. active_workers_' = b - k
  <2>1. k \in Int
    BY <1>6, InsideCount
  <2>2. QED  BY <1>4, <1>5, <1>6, <1>7, <2>1
<1>9. QED
  BY <1>6, <1>8 DEF GaugeInv

\* Every step keeps the gauge at the wrappers inside, less at most one per
\* worker.
LEMMA GaugeStep ==
  ASSUME PP!IInv, TypeOK, PlaceInv, FinishBook, LatencyBook, RanInv, GaugeInv, [Next]_vars
  PROVE  GaugeInv'
<1>1. ASSUME RunsKept, active_workers_' = active_workers_ PROVE GaugeInv'
  BY <1>1, BooksKept DEF GaugeInv
<1>2. CASE InnerStep
  BY <1>1, <1>2, OthersKeepRuns, InnerEffect DEF metrics
<1>3. CASE Destroy \/ UNCHANGED vars
  BY <1>1, <1>3, OthersKeepRuns DEF Destroy, vars, metrics
<1>4. ASSUME NEW t \in Threads, EnqueueEdge(t) PROVE GaugeInv'
  BY <1>1, <1>4, OthersKeepRuns, EnqueueEffect
<1>5. ASSUME NEW c \in Clients, WaitEdge(c) PROVE GaugeInv'
  <2>1. RunsKept
    BY <1>5, OthersKeepRuns
  <2>2. CASE WaitAllReturns(c)
    <3>1. active_workers_' = 0 /\ Inside' = Inside
      BY <2>1, <2>2, BooksKept DEF WaitAllReturns
    <3>2. Cardinality(Inside) \in 0..Cardinality(Workers)
      BY InsideCount
    <3>3. active_workers_' = Cardinality(Inside') - Cardinality(Inside)
      BY <3>1, InsideCount
    <3>4. QED  BY <3>2, <3>3 DEF GaugeInv
  <2>3. CASE ~WaitAllReturns(c)
    BY <1>1, <1>5, <2>1, <2>3
    DEF WaitEdge, WaitAll, PoolWaitReturns, LoadSubmitted, LoadCompleted, LoadFailed,
        metrics
  <2>4. QED  BY <2>2, <2>3
<1>6. QED
  BY <1>2, <1>3, <1>4, <1>5, WrapperGauge, StepGroups

-----------------------------------------------------------------------------
(***************************************************************************)
(* The second phase of wait_all                                            *)
(***************************************************************************)

(* The counters that wait_all sums up only grow, and an accepted task      *)
(* stays accepted.                                                         *)
Grows ==
  /\ tasks_completed_ <= tasks_completed_' /\ tasks_failed_ <= tasks_failed_'
  /\ \A f \in Tasks : fate[f] = "accepted" => fate'[f] = "accepted"

\* The completion counters never go down, and an accepted task stays
\* accepted.
LEMMA GrowsStep ==
  ASSUME PP!IInv, TypeOK, PlaceInv, [Next]_vars
  PROVE  Grows
<1>0. P!TypeOK
  BY PoolFacts
<1>1. CASE InnerStep
  BY <1>1, InnerEffect DEF Grows, metrics, TypeOK
<1>2. CASE Destroy \/ UNCHANGED vars
  BY <1>2 DEF Grows, Destroy, P!Destroy, P!history, vars, pool, metrics, TypeOK
<1>3. ASSUME NEW t \in Threads, EnqueueEdge(t) PROVE Grows
  <2>1. UNCHANGED <<tasks_completed_, tasks_failed_>>
    BY <1>3, EnqueueEffect
  <2>2. \/ \E f \in Tasks, r \in {"submitting", "refused"} :
             fate[f] = "new" /\ fate' = [fate EXCEPT ![f] = r]
        \/ /\ pc[t] \in {"count", "retry"}
           /\ \E r \in {"accepted", "refused"} : fate' = [fate EXCEPT ![future[t]] = r]
        \/ fate' = fate
    BY <1>3
    DEF EnqueueEdge, Submit, pool, PoolEnqueue, P!Enqueue, PoolEnqueueReturns,
        P!EnqueueReturns, PoolEnqueueThrows, P!EnqueueOnStopped, P!EnqueueGivesUp, P!Leave,
        P!Goto
  <2>3. pc[t] \in {"count", "retry"} => fate[future[t]] = "submitting"
    BY PoolFacts DEF P!EnqueuePcs
  <2>4. \A f \in Tasks : fate[f] = "accepted" => fate'[f] = "accepted"
    BY <1>0, <2>2, <2>3 DEF P!TypeOK
  <2>5. QED  BY <2>1, <2>4 DEF Grows, TypeOK
<1>4. ASSUME NEW w \in Workers, WrapperStep(w) PROVE Grows
  <2>1. fate' = fate
    BY <1>4, WrapperEffect
  <2>2. tasks_completed_ <= tasks_completed_' /\ tasks_failed_ <= tasks_failed_'
    BY <1>4
    DEF WrapperStep, WrapperBegins, WrapperActive, FnReturns, FnThrows, WrapperFailed,
        WrapperObserves, WrapperCompleted, WrapperInactive, WrapperEnds, metrics, TypeOK
  <2>3. QED  BY <2>1, <2>2 DEF Grows
<1>5. ASSUME NEW c \in Clients, WaitEdge(c) PROVE Grows
  BY <1>5, WaitEffect DEF Grows, TypeOK
<1>6. QED
  BY <1>1, <1>2, <1>3, <1>4, <1>5, StepGroups

(* What the invariant says of one client. *)
WaitOk(c) ==
  /\ \A f \in before[c] : fate[f] = "accepted"
  /\ where[c] = "load_failed" => completed[c] <= tasks_completed_
  /\ where[c] = "set_gauges" => submitted[c] <= tasks_completed_ + tasks_failed_

\* What wait_all has loaded stays below the counters while others step.
LEMMA WaitOkKept ==
  ASSUME TypeOK, TypeOK', Grows, NEW c \in Clients, WaitOk(c),
         where'[c] = where[c] \/ where'[c] \notin {"load_failed", "set_gauges"},
         before'[c] = before[c], completed'[c] = completed[c], submitted'[c] = submitted[c]
  PROVE  WaitOk(c)'
<1>1. /\ tasks_completed_ \in Nat /\ tasks_completed_' \in Nat /\ tasks_failed_ \in Nat
      /\ tasks_failed_' \in Nat /\ completed[c] \in Nat /\ submitted[c] \in Nat
      /\ before[c] \subseteq Tasks
  BY DEF TypeOK
<1>2. tasks_completed_ <= tasks_completed_' /\ tasks_failed_ <= tasks_failed_'
  BY DEF Grows
<1>3. \A f \in before'[c] : fate'[f] = "accepted"
  BY <1>1 DEF WaitOk, Grows
<1>4. where'[c] = "load_failed" => completed'[c] <= tasks_completed_'
  BY <1>1, <1>2 DEF WaitOk
<1>5. where'[c] = "set_gauges" => submitted'[c] <= tasks_completed_' + tasks_failed_'
  BY <1>1, <1>2 DEF WaitOk
<1>6. QED
  BY <1>3, <1>4, <1>5 DEF WaitOk

\* What wait_all loads in a step of its own is not ahead of the counters.
LEMMA WaitEdgeOk ==
  ASSUME PP!IInv, TypeOK, TypeOK', PlaceInv, Grows, NEW c \in Clients, WaitOk(c), WaitEdge(c)
  PROVE  WaitOk(c)'
<1>0. /\ tasks_completed_ \in Nat /\ tasks_failed_ \in Nat
      /\ completed[c] \in Nat /\ submitted[c] \in Nat /\ c \in Threads
      /\ where \in [Threads -> {where[t] : t \in Threads}]
      /\ completed \in [Clients -> Nat] /\ submitted \in [Clients -> Nat]
      /\ before \in [Clients -> SUBSET Tasks]
  BY DEF TypeOK, Threads
<1>1. UNCHANGED <<fate, tasks_completed_, tasks_failed_>>
  BY WaitEffect
<1> USE <1>0, <1>1 DEF Move, locals, history
<1>2. CASE WaitAll(c)
  <2>1. /\ where'[c] = "pool_wait_all"
        /\ before'[c] = {f \in Tasks : fate[f] = "accepted"}
    BY <1>2 DEF WaitAll
  <2>2. QED  BY <2>1 DEF WaitOk
<1>3. CASE PoolWaitReturns(c) \/ LoadSubmitted(c)
  BY <1>3 DEF PoolWaitReturns, LoadSubmitted, WaitOk
<1>4. CASE LoadCompleted(c)
  BY <1>4 DEF LoadCompleted, WaitOk
<1>5. CASE LoadFailed(c)
  <2>1. /\ where[c] = "load_failed" /\ UNCHANGED <<before, submitted, completed>>
        /\ where'[c] = IF completed[c] + tasks_failed_ < submitted[c]
                       THEN "load_completed" ELSE "set_gauges"
    BY <1>5 DEF LoadFailed
  <2>2. completed[c] <= tasks_completed_
    BY <2>1 DEF WaitOk
  <2>3. where'[c] = "set_gauges" => submitted[c] <= tasks_completed_ + tasks_failed_
    BY <2>1, <2>2
  <2>4. QED  BY <2>1, <2>3 DEF WaitOk
<1>6. CASE WaitAllReturns(c)
  BY <1>6 DEF WaitAllReturns, WaitOk
<1>7. QED
  BY <1>2, <1>3, <1>4, <1>5, <1>6 DEF WaitEdge

\* Every step keeps what each wait_all has loaded not ahead of the counters.
LEMMA WaitInvStep ==
  ASSUME PP!IInv, TypeOK, TypeOK', PlaceInv, WaitInv, [Next]_vars
  PROVE  WaitInv'
<1>0. Grows
  BY GrowsStep
<1> SUFFICES ASSUME NEW c \in Clients PROVE WaitOk(c)'
  BY DEF WaitInv, WaitOk
<1>1. WaitOk(c) /\ c \in Threads /\ c \notin Workers
  BY PoolAssumption DEF WaitInv, WaitOk, Threads
<1>2. CASE InnerStep
  BY <1>0, <1>1, <1>2, InnerEffect, WaitOkKept DEF locals, history
<1>3. CASE Destroy \/ UNCHANGED vars
  BY <1>0, <1>1, <1>3, WaitOkKept DEF Destroy, vars, locals, history
<1>4. ASSUME NEW t \in Threads, EnqueueEdge(t) PROVE WaitOk(c)'
  <2>1. UNCHANGED <<before, submitted, completed>>
    BY <1>4, EnqueueEffect DEF locals, history
  <2>2. where'[c] = where[c] \/ where'[c] \notin {"load_failed", "set_gauges"}
    BY <1>1, <1>4, EnqueueEffect DEF Moves, Home
  <2>3. QED  BY <1>0, <1>1, <2>1, <2>2, WaitOkKept
<1>5. ASSUME NEW w \in Workers, WrapperStep(w) PROVE WaitOk(c)'
  <2>1. UNCHANGED <<before, submitted, completed>> /\ where'[c] = where[c]
    BY <1>1, <1>5, WrapperEffect DEF Moves
  <2>2. QED  BY <1>0, <1>1, <2>1, WaitOkKept
<1>6. ASSUME NEW d \in Clients, WaitEdge(d) PROVE WaitOk(c)'
  <2>1. CASE d = c
    BY <1>0, <1>1, <1>6, <2>1, WaitEdgeOk
  <2>2. CASE d # c
    <3>1. where'[c] = where[c]
      BY <1>1, <1>6, <2>2, WaitEffect DEF Moves
    <3>2. /\ before'[c] = before[c] /\ completed'[c] = completed[c]
          /\ submitted'[c] = submitted[c]
      BY <1>6, <2>2
      DEF WaitEdge, WaitAll, PoolWaitReturns, LoadSubmitted, LoadCompleted, LoadFailed,
          WaitAllReturns, locals, history, TypeOK
    <3>3. QED  BY <1>0, <1>1, <3>1, <3>2, WaitOkKept
  <2>3. QED  BY <2>1, <2>2
<1>7. QED
  BY <1>2, <1>3, <1>4, <1>5, <1>6, StepGroups

-----------------------------------------------------------------------------
(***************************************************************************)
(* The theorems                                                            *)
(***************************************************************************)
LEMMA InitIInv == Init => IInv
<1> SUFFICES ASSUME Init PROVE IInv
  OBVIOUS
<1>1. PP!IInv /\ P!TypeOK
  BY PoolInit, PoolFacts
<1>2. TypeOK
  <2>1. /\ submitted \in [Clients -> Nat] /\ completed \in [Clients -> Nat]
        /\ before \in [Clients -> SUBSET Tasks] /\ ok \in [Workers -> BOOLEAN]
    BY DEF Init
  <2>2. where \in [Threads -> {"idle"}] /\ ran \subseteq Tasks /\ freed \in BOOLEAN
    BY DEF Init
  <2>3. /\ tasks_submitted_ = 0 /\ tasks_completed_ = 0 /\ tasks_failed_ = 0
        /\ active_workers_ = 0 /\ task_latency_ = 0
    BY DEF Init
  <2>4. QED  BY <1>1, <2>1, <2>2, <2>3 DEF TypeOK
<1>3. PlaceInv
  BY PoolAssumption
  DEF Init, P!Init, P!Threads, Threads, PlaceInv, ClientPlace, WorkerPlace, P!EnqueuePcs
<1>4. Known = {} /\ Submitting = {} /\ BookedTasks = {} /\ ObservedTasks = {} /\ Inside = {}
  BY DEF Init, P!Init, Threads, Known, Submitting, BookedTasks, ObservedTasks, Booked,
         Observed, Inside
<1>5. IsFiniteSet({}) /\ Cardinality({}) = 0
  BY FS_EmptySet
<1>6. SubmitBook /\ FinishBook /\ LatencyBook
  BY <1>4, <1>5 DEF Init, SubmitBook, FinishBook, LatencyBook
<1>7. CallerInv /\ RanInv
  BY DEF Init, P!Init, Threads, CallerInv, RanInv, CameBack
<1>8. GaugeInv
  <2>1. 0 \in 0..Cardinality(Workers)
    BY InsideCount
  <2>2. active_workers_ = Cardinality(Inside) - 0
    BY <1>4, <1>5 DEF Init
  <2>3. QED  BY <2>1, <2>2 DEF GaugeInv
<1>9. WaitInv
  BY DEF Init, Threads, WaitInv
<1>10. QED
  BY <1>1, <1>2, <1>3, <1>6, <1>7, <1>8, <1>9 DEF IInv

(* The invariant holds in every state of every execution of the code of    *)
(* threadpool_v3.h.                                                        *)
THEOREM Invariance == Spec => []IInv
<1>1. IInv /\ [Next]_vars => IInv'
  <2> SUFFICES ASSUME IInv, [Next]_vars PROVE IInv'
    OBVIOUS
  <2> USE DEF IInv
  <2>1. PP!IInv'
    BY PoolKept
  <2>2. TypeOK' /\ PlaceInv'
    BY <2>1, TypeStep, PlaceStep
  <2>3. SubmitBook' /\ CallerInv'
    BY SubmitStep
  <2>4. FinishBook' /\ LatencyBook' /\ RanInv'
    BY BookStep
  <2>5. GaugeInv' /\ WaitInv'
    BY <2>2, GaugeStep, WaitInvStep
  <2>6. QED  BY <2>1, <2>2, <2>3, <2>4, <2>5
<1>2. QED
  BY InitIInv, <1>1, PTL DEF Spec

(* The uint64_t counters of the registry (metrics.h:31) never go below     *)
(* zero, and the rest of the state keeps its shape.                        *)
THEOREM TypeCorrect == Spec => []TypeOK
<1>1. IInv => TypeOK
  BY DEF IInv
<1>2. QED
  BY Invariance, <1>1, PTL

(* The wrappers of threadpool_v3.h:78-104 are bodies of tasks to the pool  *)
(* underneath: V3 makes no step that V2 could not make.                    *)
THEOREM ImplementsPool == Spec => P!Spec
<1>1. Init => P!Init
  BY DEF Init
<1>2. QED
  BY <1>1, PoolStep, PTL DEF Spec, P!Spec

(* So no task runs twice, none that was refused runs, and the destructor   *)
(* of pool_ drains the queue (threadpool_v2.h:160).                        *)
THEOREM PoolPromise == Spec => []PoolKeepsPromise
<1>1. P!Spec => PP!Spec
  BY SamePool, PTL DEF P!Spec, PP!Spec
<1>2. PP!Spec => []PP!RunsOnce
  BY PP!TasksRunOnce, PoolAssumption, SameFiniteSets
<1>3. PP!Spec => []PP!DrainedOnExit
  BY PP!DestructorDrains, PoolAssumption, SameFiniteSets
<1>4. PP!RunsOnce => P!RunsOnce
  BY SameFiniteSets
  DEF PP!RunsOnce, P!RunsOnce, PP!Holds, P!Holds, PP!EnqueuePcs, P!EnqueuePcs
<1>5. PP!DrainedOnExit => P!DrainedOnExit
  BY DEF PP!DrainedOnExit, P!DrainedOnExit, PP!Joined, P!Joined
<1>6. PP!RunsOnce /\ PP!DrainedOnExit => PoolKeepsPromise
  BY <1>4, <1>5 DEF PoolKeepsPromise
<1>7. QED
  BY ImplementsPool, <1>1, <1>2, <1>3, <1>6, PTL

(* The sizes of the books. *)
LEMMA Books ==
  ASSUME IInv
  PROVE  /\ IsFiniteSet(Known) /\ Cardinality(Known) \in Nat
         /\ Cardinality(Submitting) \in Nat
         /\ tasks_submitted_ = Cardinality(Submitting) + Cardinality(Known)
         /\ BookedTasks \subseteq Known \ Refused /\ Refused \subseteq Known
         /\ IsFiniteSet(Refused) /\ Cardinality(Refused) \in Nat
         /\ IsFiniteSet(BookedTasks) /\ Cardinality(BookedTasks) \in Nat
         /\ Cardinality(BookedTasks \cup Refused)
              = Cardinality(BookedTasks) + Cardinality(Refused)
         /\ Cardinality(BookedTasks \cup Refused) <= Cardinality(Known)
<1>1. IsFiniteSet(Known) /\ tasks_submitted_ = Cardinality(Submitting) + Cardinality(Known)
  BY DEF IInv, SubmitBook
<1>2. Cardinality(Known) \in Nat
  BY <1>1, FS_CardinalityType
<1>3. Cardinality(Submitting) \in Nat
  <2>1. Submitting \in SUBSET Threads
    BY DEF Submitting
  <2>2. QED  BY <2>1, FiniteThreads, CountType
<1>4. Refused \subseteq Known
  BY DEF Refused, Known
<1>5. IsFiniteSet(Refused) /\ Cardinality(Refused) \in Nat
  BY <1>1, <1>4, CountType
<1>6. /\ BookedTasks \subseteq Known \ Refused
      /\ IsFiniteSet(BookedTasks) /\ Cardinality(BookedTasks) \in Nat
  BY BookedFacts DEF IInv
<1>7. BookedTasks \cap Refused = {}
  BY <1>6
<1>8. Cardinality(BookedTasks \cup Refused) = Cardinality(BookedTasks) + Cardinality(Refused)
  <2>1. Cardinality(BookedTasks \cap Refused) = 0
    BY <1>7, FS_EmptySet
  <2>2. Cardinality(BookedTasks \cup Refused)
          = Cardinality(BookedTasks) + Cardinality(Refused)
              - Cardinality(BookedTasks \cap Refused)
    BY <1>5, <1>6, FS_Union
  <2>3. QED  BY <1>5, <1>6, <2>1, <2>2
<1>9. Cardinality(BookedTasks \cup Refused) <= Cardinality(Known)
  <2>1. BookedTasks \cup Refused \subseteq Known
    BY <1>4, <1>6
  <2>2. QED  BY <1>1, <2>1, FS_Subset
<1>10. QED
  BY <1>1, <1>2, <1>3, <1>4, <1>5, <1>6, <1>8, <1>9

(* At rest, whatever a call of enqueue was about has run or was refused. *)
LEMMA RestIsDone ==
  ASSUME IInv, AtRest
  PROVE  /\ Submitting = {} /\ BookedTasks = done /\ ObservedTasks = done
         /\ Known = done \cup Refused
<1>1. Submitting = {}
  BY DEF AtRest, Submitting
<1>2. \A w \in Workers : ~Booked(w) /\ ~Observed(w) /\ ~InBody(w) /\ pc[w] \notin {"got", "run"}
  BY DEF AtRest, Booked, Observed, IInv, PlaceInv, WorkerPlace, InBody, InWrapper, P!InGap
<1>3. done \subseteq Tasks
  BY PoolFacts DEF IInv, P!TypeOK
<1>4. BookedTasks = done /\ ObservedTasks = done
  BY <1>2, <1>3 DEF BookedTasks, ObservedTasks
<1>5. \A f \in Tasks : fate[f] # "submitting"
  <2>1. \A t \in Threads : pc[t] \notin P!EnqueuePcs
    BY DEF AtRest, IInv, PlaceInv, ClientPlace, WorkerPlace, Threads, P!EnqueuePcs
  <2>2. QED  BY <2>1, PoolFacts DEF IInv, CallerInv
<1>6. \A f : PP!InLog(f) => f \in done
  <2>1. \A w \in Workers : \A f : ~PP!Holds(w, f)
    BY <1>2 DEF PP!Holds, InBody, PP!EnqueuePcs, P!EnqueuePcs, AtRest, P!InGap
  <2>2. QED  BY <2>1 DEF IInv, PP!IInv, PP!HoldInv, PP!InLog, AtRest
<1>7. \A f \in Tasks : fate[f] = "accepted" => f \in done
  BY <1>3, <1>6, PoolAssumption DEF IInv, PP!IInv, PP!LogInv, PP!AcceptedIn
<1>8. \A f \in Tasks : fate[f] \in {"new", "submitting", "accepted", "refused"}
  BY PoolFacts DEF IInv, P!TypeOK
<1>9. Known = done \cup Refused
  BY <1>3, <1>5, <1>7, <1>8, PoolFacts DEF IInv, Known, Refused
<1>10. QED
  BY <1>1, <1>4, <1>9

(* Never more tasks are counted as finished (threadpool_v3.h:88, 98) than  *)
(* were submitted (threadpool_v3.h:74), and at rest the books balance.     *)
THEOREM BooksAreBalanced == Spec => []BooksBalance
<1>1. ASSUME IInv
      PROVE  tasks_completed_ + tasks_failed_ + Cardinality(Refused) <= tasks_submitted_
  BY <1>1, Books DEF IInv, FinishBook
<1>2. ASSUME IInv, AtRest
      PROVE  /\ tasks_submitted_ = tasks_completed_ + tasks_failed_ + Cardinality(Refused)
             /\ task_latency_ = tasks_completed_ + tasks_failed_
  <2>1. Cardinality(Submitting) = 0
    BY <1>2, RestIsDone, FS_EmptySet
  <2>2. Cardinality(Known) = Cardinality(BookedTasks) + Cardinality(Refused)
    BY <1>2, RestIsDone, Books
  <2>3. tasks_submitted_ = Cardinality(BookedTasks) + Cardinality(Refused)
    BY <1>2, <2>1, <2>2, Books
  <2>4. Cardinality(BookedTasks) = tasks_completed_ + tasks_failed_
    BY <1>2 DEF IInv, FinishBook
  <2>5. task_latency_ = Cardinality(BookedTasks)
    BY <1>2, RestIsDone DEF IInv, LatencyBook
  <2>6. QED  BY <2>3, <2>4, <2>5
<1>3. IInv => BooksBalance
  BY <1>1, <1>2 DEF BooksBalance
<1>4. QED
  BY Invariance, <1>3, PTL

(* active_workers_->set(0) (threadpool_v3.h:136) races with the inc and    *)
(* dec of running wrappers, but the gauge is never off by more than the    *)
(* number of workers.                                                      *)
THEOREM GaugeErrorBounded == Spec => []GaugeDriftBounded
<1>1. IInv => GaugeDriftBounded
  <2> SUFFICES ASSUME IInv
               PROVE  Cardinality(Inside) - active_workers_ \in 0..Cardinality(Workers)
    BY DEF GaugeDriftBounded
  <2>1. PICK k \in 0..Cardinality(Workers) : active_workers_ = Cardinality(Inside) - k
    BY DEF IInv, GaugeInv
  <2>2. QED  BY <2>1, InsideCount
<1>2. QED
  BY Invariance, <1>1, PTL

(* A wait_all (threadpool_v3.h:112) that returns while nothing has been    *)
(* submitted since it loaded tasks_submitted_ has waited for every task    *)
(* accepted before it: the tasks it counts are then all there are.         *)
THEOREM AloneWaitAllWaits == Spec => WaitAllWaitsIfAlone
<1>1. ASSUME IInv, NEW c \in Clients, WaitAllReturns(c), tasks_submitted_ = submitted[c]
      PROVE  before[c] \subseteq ran
  <2>1. submitted[c] <= tasks_completed_ + tasks_failed_
    BY <1>1 DEF IInv, WaitInv, WaitAllReturns, Move
  <2>2. Cardinality(BookedTasks) = Cardinality(Known)
    <3>1. Cardinality(BookedTasks) = tasks_completed_ + tasks_failed_
      BY <1>1 DEF IInv, FinishBook
    <3>2. Cardinality(Submitting) + Cardinality(Known) <= Cardinality(BookedTasks)
      BY <1>1, <2>1, <3>1, Books
    <3>3. Cardinality(BookedTasks) <= Cardinality(Known)
      BY <1>1, Books
    <3>4. QED  BY <1>1, <3>2, <3>3, Books
  <2>3. BookedTasks = Known
    BY <1>1, <2>2, Books, FS_Subset
  <2>4. before[c] \subseteq BookedTasks
    BY <1>1, <2>3 DEF IInv, WaitInv, TypeOK, Known
  <2>5. BookedTasks \subseteq ran
    BY <1>1, BookedFacts DEF IInv, RanInv, BookedTasks
  <2>6. QED  BY <2>4, <2>5
<1>2. IInv /\ [Next]_vars =>
        [\A c \in Clients : WaitAllReturns(c) /\ tasks_submitted_ = submitted[c] =>
           before[c] \subseteq ran]_vars
  BY <1>1
<1>3. QED
  BY Invariance, <1>2, PTL DEF Spec, WaitAllWaitsIfAlone
=============================================================================
