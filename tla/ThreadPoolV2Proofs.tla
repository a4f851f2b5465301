------------------------- MODULE ThreadPoolV2Proofs -------------------------
(***************************************************************************)
(* Proofs about ThreadPoolV2, for every finite set of clients and workers, *)
(* every set of tasks, every capacity and every number of retries.         *)
(***************************************************************************)
EXTENDS ThreadPoolV2, CountingLemmas

-----------------------------------------------------------------------------
(***************************************************************************)
(* The inductive invariant                                                 *)
(***************************************************************************)
InLog(f) == \E n \in 1..Len(log) : log[n] = f
Taken(f) == \E n \in 1..taken : log[n] = f

(* The call of t has not put anything into the queue, or it has. *)
Unsent(t) == pc[t] = "retry" \/ (pc[t] = "try" /\ op[t] # "enqueued")
Sent(t) == op[t] = "enqueued" \/ pc[t] = "count"

(* The workers that active_tasks_ counts; those with a task that           *)
(* total_completed_ does not count yet; and the calls that                 *)
(* total_enqueued_ does not count yet.                                     *)
ActiveWorkers == {w \in Workers : Counted(w)}
Incomplete == {w \in Workers : InGap(w) \/ Counted(w) \/ pc[w] = "completed"}
Unreturned == {t \in Threads : Sent(t)}

(* A thread is in a call of the queue only where its code makes one, and   *)
(* its locals belong to the task its enqueue is about; only a function     *)
(* with a target gets past the call of it.                                 *)
CallInv ==
  /\ \A c \in Clients : pc[c] \in ClientPcs
  /\ \A w \in Workers : pc[w] \in WorkerPcs
  /\ \A t \in Threads :
       /\ op[t] \in {"enq", "enqueued"} => pc[t] = "try"
       /\ op[t] \in {"deq", "dequeued"} => pc[t] = "poll"
       /\ pc[t] \in EnqueuePcs <=> future[t] \in Tasks
       /\ pc[t] \in EnqueuePcs => task[t] \in {future[t], EmptyFn}
       /\ op[t] = "enq" => val[t] \in {future[t], EmptyFn}
  /\ \A w \in Workers :
       pc[w] \in {"body", "ran", "completed"} \cup EnqueuePcs => running[w] \in Tasks

CountInv ==
  /\ active_tasks_ = Cardinality(ActiveWorkers)
  /\ taken = total_completed_ + Cardinality(Incomplete)
  /\ Len(log) = total_enqueued_ + Cardinality(Unreturned)

(* A task is queued at most once, by the one call that is about it, and    *)
(* stays out of the queue when that call gives up.  What an accepted call  *)
(* has queued is its task, or the empty function a retry leaves of it.     *)
QueuedOnce ==
  \A m, n \in 1..Len(log) : log[m] \in Tasks /\ log[m] = log[n] => m = n
QueuedFate ==
  \A n \in 1..Len(log) :
    log[n] \in Tasks => fate[log[n]] \in {"submitting", "accepted"}
CallFate ==
  \A t \in Threads : future[t] \in Tasks => fate[future[t]] = "submitting"
OneCall ==
  \A t, u \in Threads : future[t] \in Tasks /\ future[t] = future[u] => t = u
UnsentOut == \A t \in Threads : Unsent(t) => ~InLog(future[t])
SentIn == \A t \in Threads : Sent(t) => InLog(future[t]) \/ InLog(EmptyFn)
AcceptedIn == \A f \in Tasks : fate[f] = "accepted" => InLog(f) \/ InLog(EmptyFn)
LogInv ==
  /\ QueuedOnce /\ QueuedFate /\ CallFate /\ OneCall
  /\ UnsentOut /\ SentIn /\ AcceptedIn

(* What has left the queue is in the hands of one worker, or has run. *)
HoldInv ==
  /\ taken <= Len(log)
  /\ \A w \in Workers, f \in Tasks : Holds(w, f) => Taken(f) /\ f \notin done
  /\ \A v, w \in Workers, f \in Tasks : Holds(v, f) /\ Holds(w, f) => v = w
  /\ \A f \in done : Taken(f)
  /\ \A n \in 1..taken : log[n] \in done \/ \E w \in Workers : Holds(w, log[n])

(* A position loaded from head_ is not ahead of it.  A worker leaves when  *)
(* the destructor has set stop_, and the last one leaves an empty queue;   *)
(* wait_all reads active_tasks_ when all it waits for has left the queue.  *)
StopInv ==
  /\ \A t \in Threads : head[t] <= taken
  /\ stop_ = TRUE => \A c \in Clients : pc[c] = "idle"
  /\ \A w \in Workers : pc[w] \in {"stop_tail", "exited"} => stop_ = TRUE
  /\ Joined => taken = Len(log)
  /\ \A c \in Clients : /\ mark[c] <= Len(log)
                        /\ pc[c] = "wait_active" => mark[c] <= taken

IInv == TypeOK /\ CallInv /\ CountInv /\ LogInv /\ HoldInv /\ StopInv

-----------------------------------------------------------------------------
(***************************************************************************)
(* Steps of one thread                                                     *)
(***************************************************************************)

(* A step of t changes the program counters, locals and queue calls of no  *)
(* other thread.                                                           *)
Own(t) ==
  /\ \A u \in Threads \ {t} :
       /\ pc'[u] = pc[u] /\ op'[u] = op[u] /\ val'[u] = val[u]
       /\ task'[u] = task[u] /\ future'[u] = future[u] /\ head'[u] = head[u]
  /\ \A w \in Workers \ {t} : running'[w] = running[w]

\* A step of enqueue changes the local state of its caller only.
LEMMA EnqueueOwn ==
  ASSUME TypeOK, NEW t \in Threads,
         Enqueue(t) \/ EnqueueOnStopped(t) \/ EnqueueStep(t)
  PROVE  Own(t)
<1> USE DEF TypeOK, Threads, Own, Goto, locals, queue
<1>1. CASE Enqueue(t)                BY <1>1 DEF Enqueue
<1>2. CASE EnqueueOnStopped(t)       BY <1>2 DEF EnqueueOnStopped
<1>3. CASE TryEnqueue(t)             BY <1>3 DEF TryEnqueue, Q!CallEnqueue, Q!Step
<1>4. CASE TryEnqueueTakesEffect(t)  BY <1>4 DEF TryEnqueueTakesEffect, Q!LinEnqueue, Q!Step
<1>5. CASE TryEnqueueTrue(t)         BY <1>5 DEF TryEnqueueTrue, Q!ReturnTrue, Q!Step
<1>6. CASE TryEnqueueFalse(t)        BY <1>6 DEF TryEnqueueFalse, Q!ReturnFalse, Q!Step
<1>7. CASE EnqueueGivesUp(t)         BY <1>7 DEF EnqueueGivesUp, Leave
<1>8. CASE EnqueueRetries(t)         BY <1>8 DEF EnqueueRetries
<1>9. CASE EnqueueReturns(t)         BY <1>9 DEF EnqueueReturns, Leave
<1>10. QED
  BY <1>1, <1>2, <1>3, <1>4, <1>5, <1>6, <1>7, <1>8, <1>9 DEF EnqueueStep

\* A step of wait_all changes the local state of its caller only.
LEMMA WaitOwn ==
  ASSUME TypeOK, NEW c \in Clients, WaitAll(c) \/ WaitStep(c)
  PROVE  Own(c)
<1> USE DEF TypeOK, Threads, Own, Goto, locals, queue
<1>1. CASE WaitAll(c)           BY <1>1 DEF WaitAll, EmptyLoadsHead
<1>2. CASE WaitAllLoadsHead(c)  BY <1>2 DEF WaitAllLoadsHead, EmptyLoadsHead
<1>3. CASE WaitAllLoadsTail(c)  BY <1>3 DEF WaitAllLoadsTail, EmptyLoadsTail
<1>4. CASE WaitAllYields(c)     BY <1>4 DEF WaitAllYields
<1>5. CASE WaitAllReturns(c)    BY <1>5 DEF WaitAllReturns
<1>6. QED
  BY <1>1, <1>2, <1>3, <1>4, <1>5 DEF WaitStep

\* A step of worker_loop changes the local state of its worker only.
LEMMA WorkerOwn ==
  ASSUME TypeOK, NEW w \in Workers, WorkerStep(w)
  PROVE  Own(w)
<1> USE DEF TypeOK, Threads, Own, Goto, locals, queue
<1>1. CASE Poll(w)             BY <1>1 DEF Poll, Q!CallDequeue, Q!Step
<1>2. CASE PollTakesEffect(w)  BY <1>2 DEF PollTakesEffect, Q!LinDequeue, Q!Step
<1>3. CASE PollGetsTask(w)     BY <1>3 DEF PollGetsTask, Q!ReturnItem, Q!Step
<1>4. CASE PollGetsNothing(w)  BY <1>4 DEF PollGetsNothing, Q!ReturnNullopt, Q!Step
<1>5. CASE CountActive(w)      BY <1>5 DEF CountActive
<1>6. CASE Run(w)              BY <1>6 DEF Run
<1>7. CASE RunEmpty(w)         BY <1>7 DEF RunEmpty
<1>8. CASE BodyEnds(w)         BY <1>8 DEF BodyEnds
<1>9. CASE UncountActive(w)    BY <1>9 DEF UncountActive
<1>10. CASE CountCompleted(w)  BY <1>10 DEF CountCompleted
<1>11. CASE KeepsGoing(w)      BY <1>11 DEF KeepsGoing
<1>12. CASE StopLoadsHead(w)   BY <1>12 DEF StopLoadsHead, EmptyLoadsHead
<1>13. CASE StopLoadsTail(w)   BY <1>13 DEF StopLoadsTail, EmptyLoadsTail
<1>14. QED
  BY <1>1, <1>2, <1>3, <1>4, <1>5, <1>6, <1>7, <1>8, <1>9, <1>10, <1>11, <1>12, <1>13
  DEF WorkerStep

-----------------------------------------------------------------------------
(***************************************************************************)
(* The invariant holds at the start                                        *)
(***************************************************************************)
LEMMA InitIInv == Init => IInv
<1> SUFFICES ASSUME Init PROVE IInv
  OBVIOUS
<1>0. /\ log = << >> /\ taken = 0 /\ op = [t \in Threads |-> "idle"]
      /\ val = [t \in Threads |-> EmptyFn] /\ at = [t \in Threads |-> 0]
  BY DEF Init, Q!Init
<1>1. Len(log) = 0 /\ log \in Seq(Functions) /\ \A n \in 1..0 : FALSE
  BY <1>0
<1>2. \A f : ~InLog(f)
  BY <1>1 DEF InLog
<1> USE PoolAssumption DEF Init, Threads
<1>3. TypeOK
  <2>1. pc \in [Threads -> ClientPcs \cup WorkerPcs]
    BY DEF ClientPcs, WorkerPcs
  <2>2. /\ retries \in [Threads -> 0..MaxRetries] /\ head \in [Threads -> Nat]
        /\ mark \in [Clients -> Nat]
    OBVIOUS
  <2>3. QED  BY <1>0, <1>1, <2>1, <2>2 DEF TypeOK, Functions
<1>4. CallInv
  BY <1>0 DEF CallInv, ClientPcs, WorkerPcs, EnqueuePcs
<1>5. CountInv
  <2>1. ActiveWorkers = {} /\ Incomplete = {} /\ Unreturned = {}
    BY <1>0 DEF ActiveWorkers, Incomplete, Unreturned, Counted, InGap, Sent, EnqueuePcs
  <2>2. QED  BY <1>0, <1>1, <2>1, FS_EmptySet DEF CountInv
<1>6. LogInv
  BY <1>0, <1>1, <1>2
  DEF LogInv, QueuedOnce, QueuedFate, CallFate, OneCall, UnsentOut, SentIn, AcceptedIn,
      Unsent, Sent
<1>7. HoldInv
  BY <1>0, <1>1 DEF HoldInv, Holds, EnqueuePcs
<1>8. StopInv
  BY <1>0, <1>1 DEF StopInv, Joined
<1>9. QED
  BY <1>3, <1>4, <1>5, <1>6, <1>7, <1>8 DEF IInv

-----------------------------------------------------------------------------
(***************************************************************************)
(* The counters                                                            *)
(***************************************************************************)
LEMMA FiniteThreads == IsFiniteSet(Workers) /\ IsFiniteSet(Threads)
  BY PoolAssumption, FS_Union DEF Threads

(* A step of t changes a count by at most the part of t in it. *)
LEMMA ActiveCount ==
  ASSUME NEW t \in Threads, Own(t)
  PROVE  LET a == Cardinality(ActiveWorkers)
             b == Cardinality(ActiveWorkers')
         IN  /\ a \in Nat /\ b \in Nat
             /\ (t \in ActiveWorkers <=> t \in ActiveWorkers') => b = a
             /\ t \notin ActiveWorkers /\ t \in ActiveWorkers' => b = a + 1
             /\ t \in ActiveWorkers /\ t \notin ActiveWorkers' => b = a - 1
<1>1. ActiveWorkers \in SUBSET Workers /\ ActiveWorkers' \in SUBSET Workers
  BY DEF ActiveWorkers
<1>2. \A w \in Workers \ {t} : w \in ActiveWorkers <=> w \in ActiveWorkers'
  BY DEF ActiveWorkers, Counted, Own, Threads
<1>3. QED
  BY <1>1, <1>2, FiniteThreads, CountUpdate

\* A step of one thread changes the number of tasks taken and not yet counted
\* as completed by its own part.
LEMMA IncompleteCount ==
  ASSUME NEW t \in Threads, Own(t)
  PROVE  LET a == Cardinality(Incomplete)
             b == Cardinality(Incomplete')
         IN  /\ a \in Nat /\ b \in Nat
             /\ (t \in Incomplete <=> t \in Incomplete') => b = a
             /\ t \notin Incomplete /\ t \in Incomplete' => b = a + 1
             /\ t \in Incomplete /\ t \notin Incomplete' => b = a - 1
<1>1. Incomplete \in SUBSET Workers /\ Incomplete' \in SUBSET Workers
  BY DEF Incomplete
<1>2. \A w \in Workers \ {t} : w \in Incomplete <=> w \in Incomplete'
  BY DEF Incomplete, InGap, Counted, Own, Threads
<1>3. QED
  BY <1>1, <1>2, FiniteThreads, CountUpdate

\* A step of one thread changes the number of tasks queued and not yet
\* counted as enqueued by its own part.
LEMMA UnreturnedCount ==
  ASSUME NEW t \in Threads, Own(t)
  PROVE  LET a == Cardinality(Unreturned)
             b == Cardinality(Unreturned')
         IN  /\ a \in Nat /\ b \in Nat
             /\ (t \in Unreturned <=> t \in Unreturned') => b = a
             /\ t \notin Unreturned /\ t \in Unreturned' => b = a + 1
             /\ t \in Unreturned /\ t \notin Unreturned' => b = a - 1
<1>1. Unreturned \in SUBSET Threads /\ Unreturned' \in SUBSET Threads
  BY DEF Unreturned
<1>2. \A u \in Threads \ {t} : u \in Unreturned <=> u \in Unreturned'
  BY DEF Unreturned, Sent, Own
<1>3. QED
  BY <1>1, <1>2, FiniteThreads, CountUpdate


(* The parts of t in the three counts stay as they are. *)
Kept(t) ==
  /\ t \in ActiveWorkers <=> t \in ActiveWorkers'
  /\ t \in Incomplete <=> t \in Incomplete'
  /\ t \in Unreturned <=> t \in Unreturned'

CountsSound == CountInv' /\ active_tasks_' \in Nat

\* A step that touches no counter, and keeps its thread's standing, keeps the
\* accounts.
LEMMA CountsKept ==
  ASSUME TypeOK, CountInv, NEW t \in Threads, Own(t), Kept(t),
         UNCHANGED <<counters, taken, log>>
  PROVE  CountsSound
  BY ActiveCount, IncompleteCount, UnreturnedCount
  DEF CountInv, CountsSound, Kept, counters, TypeOK

\* enqueue keeps the accounts: total_enqueued_ lags the queue by the calls
\* that have not counted theirs.
LEMMA EnqueueCounts ==
  ASSUME TypeOK, CallInv, CountInv, NEW t \in Threads,
         Enqueue(t) \/ EnqueueOnStopped(t) \/ EnqueueStep(t)
  PROVE  CountsSound
<1>0. Own(t)
  BY EnqueueOwn
<1>1. /\ Cardinality(ActiveWorkers) \in Nat /\ Cardinality(Incomplete) \in Nat
      /\ Cardinality(Unreturned) \in Nat
  BY <1>0, ActiveCount, IncompleteCount, UnreturnedCount
<1> USE PoolAssumption
    DEF TypeOK, Threads, CallInv, Goto, Home, EnqueuePcs, ClientPcs, WorkerPcs,
        locals, queue
<1>2. CASE Enqueue(t)
  <2>1. Kept(t) /\ UNCHANGED <<counters, taken, log>>
    BY <1>2 DEF Enqueue, Kept, ActiveWorkers, Incomplete, Unreturned, Counted, InGap, Sent
  <2>2. QED  BY <1>0, <2>1, CountsKept
<1>3. CASE EnqueueOnStopped(t)
  <2>1. Kept(t) /\ UNCHANGED <<counters, taken, log>>
    BY <1>3
    DEF EnqueueOnStopped, Kept, ActiveWorkers, Incomplete, Unreturned, Counted, InGap, Sent
  <2>2. QED  BY <1>0, <2>1, CountsKept
<1>4. CASE TryEnqueue(t)
  <2>1. Kept(t) /\ UNCHANGED <<counters, taken, log>>
    BY <1>4
    DEF TryEnqueue, Q!CallEnqueue, Q!Step, Kept, ActiveWorkers, Incomplete, Unreturned,
        Counted, InGap, Sent
  <2>2. QED  BY <1>0, <2>1, CountsKept
<1>5. CASE TryEnqueueTakesEffect(t)
  <2>1. /\ op[t] = "enq" /\ op'[t] = "enqueued" /\ pc[t] = "try" /\ pc' = pc
        /\ log' = Append(log, val[t]) /\ UNCHANGED <<counters, taken>>
    BY <1>5 DEF TryEnqueueTakesEffect, Q!LinEnqueue, Q!Step
  <2>2. /\ t \in ActiveWorkers <=> t \in ActiveWorkers'
        /\ t \in Incomplete <=> t \in Incomplete'
    BY <2>1 DEF ActiveWorkers, Incomplete, Counted, InGap
  <2>3. t \notin Unreturned /\ t \in Unreturned'
    BY <2>1 DEF Unreturned, Sent
  <2>4. Len(log') = Len(log) + 1
    BY <2>1, AppendProperties
  <2>5. /\ Cardinality(ActiveWorkers') = Cardinality(ActiveWorkers)
        /\ Cardinality(Incomplete') = Cardinality(Incomplete)
        /\ Cardinality(Unreturned') = Cardinality(Unreturned) + 1
    BY <1>0, <2>2, <2>3, ActiveCount, IncompleteCount, UnreturnedCount
  <2>6. QED  BY <1>1, <2>1, <2>4, <2>5 DEF CountInv, CountsSound, counters
<1>6. CASE TryEnqueueTrue(t)
  <2>1. Kept(t) /\ UNCHANGED <<counters, taken, log>>
    BY <1>6
    DEF TryEnqueueTrue, Q!ReturnTrue, Q!Step, Kept, ActiveWorkers, Incomplete,
        Unreturned, Counted, InGap, Sent
  <2>2. QED  BY <1>0, <2>1, CountsKept
<1>7. CASE TryEnqueueFalse(t)
  <2>1. Kept(t) /\ UNCHANGED <<counters, taken, log>>
    BY <1>7
    DEF TryEnqueueFalse, Q!ReturnFalse, Q!Step, Kept, ActiveWorkers, Incomplete,
        Unreturned, Counted, InGap, Sent
  <2>2. QED  BY <1>0, <2>1, CountsKept
<1>8. CASE EnqueueGivesUp(t)
  <2>1. Kept(t) /\ UNCHANGED <<counters, taken, log>>
    BY <1>8
    DEF EnqueueGivesUp, Leave, Kept, ActiveWorkers, Incomplete, Unreturned, Counted,
        InGap, Sent
  <2>2. QED  BY <1>0, <2>1, CountsKept
<1>9. CASE EnqueueRetries(t)
  <2>1. Kept(t) /\ UNCHANGED <<counters, taken, log>>
    BY <1>9
    DEF EnqueueRetries, Kept, ActiveWorkers, Incomplete, Unreturned, Counted, InGap, Sent
  <2>2. QED  BY <1>0, <2>1, CountsKept
<1>10. CASE EnqueueReturns(t)
  <2>1. /\ pc[t] = "count" /\ pc'[t] = Home(t) /\ op' = op
        /\ total_enqueued_' = total_enqueued_ + 1
        /\ UNCHANGED <<active_tasks_, total_completed_, taken, log>>
    BY <1>10 DEF EnqueueReturns, Leave
  <2>2. /\ t \in ActiveWorkers <=> t \in ActiveWorkers'
        /\ t \in Incomplete <=> t \in Incomplete'
    BY <2>1 DEF ActiveWorkers, Incomplete, Counted, InGap
  <2>3. t \in Unreturned /\ t \notin Unreturned'
    BY <2>1 DEF Unreturned, Sent
  <2>4. /\ Cardinality(ActiveWorkers') = Cardinality(ActiveWorkers)
        /\ Cardinality(Incomplete') = Cardinality(Incomplete)
        /\ Cardinality(Unreturned') = Cardinality(Unreturned) - 1
    BY <1>0, <2>2, <2>3, ActiveCount, IncompleteCount, UnreturnedCount
  <2>5. /\ active_tasks_ = Cardinality(ActiveWorkers) /\ active_tasks_ \in Nat
        /\ taken = total_completed_ + Cardinality(Incomplete)
        /\ Len(log) = total_enqueued_ + Cardinality(Unreturned)
        /\ total_enqueued_ \in Nat
    BY DEF CountInv
  <2>6. active_tasks_' = Cardinality(ActiveWorkers') /\ active_tasks_' \in Nat
    BY <2>1, <2>4, <2>5
  <2>7. taken' = total_completed_' + Cardinality(Incomplete')
    BY <2>1, <2>4, <2>5
  <2>8. Len(log') = total_enqueued_' + Cardinality(Unreturned')
    <3>1. Len(log') = Len(log)
      BY <2>1
    <3>2. total_enqueued_ + Cardinality(Unreturned)
            = (total_enqueued_ + 1) + (Cardinality(Unreturned) - 1)
      BY <1>1, <2>5
    <3>3. QED  BY <2>1, <2>4, <2>5, <3>1, <3>2
  <2>9. QED  BY <2>6, <2>7, <2>8 DEF CountInv, CountsSound
<1>11. QED
  BY <1>2, <1>3, <1>4, <1>5, <1>6, <1>7, <1>8, <1>9, <1>10 DEF EnqueueStep

\* wait_all keeps the accounts: it only reads the counters.
LEMMA WaitCounts ==
  ASSUME TypeOK, CallInv, CountInv, NEW c \in Clients, WaitAll(c) \/ WaitStep(c)
  PROVE  CountsSound
<1>1. Own(c) /\ c \in Threads
  BY WaitOwn DEF Threads
<1>2. Kept(c) /\ UNCHANGED <<counters, taken, log>>
  BY PoolAssumption
  DEF WaitAll, WaitStep, WaitAllLoadsHead, WaitAllLoadsTail, WaitAllYields,
      WaitAllReturns, EmptyLoadsHead, EmptyLoadsTail, TypeOK, Threads, Goto, queue,
      Kept, ActiveWorkers, Incomplete, Unreturned, Sent
<1>3. QED
  BY <1>1, <1>2, CountsKept

\* worker_loop keeps the accounts: active_tasks_ counts the workers between
\* its two updates.
LEMMA WorkerCounts ==
  ASSUME TypeOK, CallInv, CountInv, NEW w \in Workers, WorkerStep(w)
  PROVE  CountsSound
<1>0. Own(w) /\ w \in Threads
  BY WorkerOwn DEF Threads
<1>1. /\ Cardinality(ActiveWorkers) \in Nat /\ Cardinality(Incomplete) \in Nat
      /\ Cardinality(Unreturned) \in Nat /\ Cardinality(ActiveWorkers') \in Nat
  BY <1>0, ActiveCount, IncompleteCount, UnreturnedCount
<1> USE PoolAssumption
    DEF TypeOK, Threads, CallInv, Goto, EnqueuePcs, WorkerPcs, locals, queue
<1>2. CASE Poll(w)
  <2>1. Kept(w) /\ UNCHANGED <<counters, taken, log>>
    BY <1>2
    DEF Poll, Q!CallDequeue, Q!Step, Kept, ActiveWorkers, Incomplete, Unreturned,
        Counted, InGap, Sent
  <2>2. QED  BY <1>0, <2>1, CountsKept
<1>3. CASE PollTakesEffect(w)
  <2>1. /\ op[w] = "deq" /\ op'[w] = "dequeued" /\ pc[w] = "poll" /\ pc' = pc
        /\ taken' = taken + 1 /\ UNCHANGED <<counters, log>>
    BY <1>3 DEF PollTakesEffect, Q!LinDequeue, Q!Step
  <2>2. /\ w \in ActiveWorkers <=> w \in ActiveWorkers'
        /\ w \in Unreturned <=> w \in Unreturned'
    BY <2>1 DEF ActiveWorkers, Unreturned, Counted, Sent
  <2>3. w \notin Incomplete /\ w \in Incomplete'
    BY <2>1 DEF Incomplete, InGap, Counted
  <2>4. /\ Cardinality(ActiveWorkers') = Cardinality(ActiveWorkers)
        /\ Cardinality(Incomplete') = Cardinality(Incomplete) + 1
        /\ Cardinality(Unreturned') = Cardinality(Unreturned)
    BY <1>0, <2>2, <2>3, ActiveCount, IncompleteCount, UnreturnedCount
  <2>5. QED  BY <1>1, <2>1, <2>4 DEF CountInv, CountsSound, counters
<1>4. CASE PollGetsTask(w)
  <2>1. Kept(w) /\ UNCHANGED <<counters, taken, log>>
    BY <1>4
    DEF PollGetsTask, Q!ReturnItem, Q!Step, Kept, ActiveWorkers, Incomplete,
        Unreturned, Counted, InGap, Sent
  <2>2. QED  BY <1>0, <2>1, CountsKept
<1>5. CASE PollGetsNothing(w)
  <2>1. Kept(w) /\ UNCHANGED <<counters, taken, log>>
    BY <1>5
    DEF PollGetsNothing, Q!ReturnNullopt, Q!Step, Kept, ActiveWorkers, Incomplete,
        Unreturned, Counted, InGap, Sent
  <2>2. QED  BY <1>0, <2>1, CountsKept
<1>6. CASE CountActive(w)
  <2>1. /\ pc[w] = "got" /\ pc'[w] = "run" /\ op' = op
        /\ active_tasks_' = active_tasks_ + 1
        /\ UNCHANGED <<total_enqueued_, total_completed_, taken, log>>
    BY <1>6 DEF CountActive
  <2>2. /\ w \in Incomplete <=> w \in Incomplete'
        /\ w \in Unreturned <=> w \in Unreturned'
        /\ w \notin ActiveWorkers /\ w \in ActiveWorkers'
    BY <2>1 DEF ActiveWorkers, Incomplete, Unreturned, Counted, InGap, Sent
  <2>3. /\ Cardinality(ActiveWorkers') = Cardinality(ActiveWorkers) + 1
        /\ Cardinality(Incomplete') = Cardinality(Incomplete)
        /\ Cardinality(Unreturned') = Cardinality(Unreturned)
    BY <1>0, <2>2, ActiveCount, IncompleteCount, UnreturnedCount
  <2>4. QED  BY <1>1, <2>1, <2>3 DEF CountInv, CountsSound
<1>7. CASE Run(w) \/ RunEmpty(w) \/ BodyEnds(w)
  <2>1. Kept(w) /\ UNCHANGED <<counters, taken, log>>
    BY <1>7
    DEF Run, RunEmpty, BodyEnds, Kept, ActiveWorkers, Incomplete, Unreturned, Counted,
        InGap, Sent
  <2>2. QED  BY <1>0, <2>1, CountsKept
<1>8. CASE UncountActive(w)
  <2>1. /\ pc[w] = "ran" /\ pc'[w] = "completed" /\ op' = op
        /\ active_tasks_' = active_tasks_ - 1
        /\ UNCHANGED <<total_enqueued_, total_completed_, taken, log>>
    BY <1>8 DEF UncountActive
  <2>2. /\ w \in Incomplete <=> w \in Incomplete'
        /\ w \in Unreturned <=> w \in Unreturned'
        /\ w \in ActiveWorkers /\ w \notin ActiveWorkers'
    BY <2>1 DEF ActiveWorkers, Incomplete, Unreturned, Counted, InGap, Sent
  <2>3. /\ Cardinality(ActiveWorkers') = Cardinality(ActiveWorkers) - 1
        /\ Cardinality(Incomplete') = Cardinality(Incomplete)
        /\ Cardinality(Unreturned') = Cardinality(Unreturned)
    BY <1>0, <2>2, ActiveCount, IncompleteCount, UnreturnedCount
  <2>4. QED  BY <1>1, <2>1, <2>3 DEF CountInv, CountsSound
<1>9. CASE CountCompleted(w)
  <2>1. /\ pc[w] = "completed" /\ pc'[w] = "poll" /\ op' = op
        /\ total_completed_' = total_completed_ + 1
        /\ UNCHANGED <<total_enqueued_, active_tasks_, taken, log>>
    BY <1>9 DEF CountCompleted
  <2>2. /\ w \in ActiveWorkers <=> w \in ActiveWorkers'
        /\ w \in Unreturned <=> w \in Unreturned'
        /\ w \in Incomplete /\ w \notin Incomplete'
    BY <2>1 DEF ActiveWorkers, Incomplete, Unreturned, Counted, InGap, Sent
  <2>3. /\ Cardinality(ActiveWorkers') = Cardinality(ActiveWorkers)
        /\ Cardinality(Incomplete') = Cardinality(Incomplete) - 1
        /\ Cardinality(Unreturned') = Cardinality(Unreturned)
    BY <1>0, <2>2, ActiveCount, IncompleteCount, UnreturnedCount
  <2>4. QED  BY <1>1, <2>1, <2>3 DEF CountInv, CountsSound
<1>10. CASE KeepsGoing(w) \/ StopLoadsHead(w) \/ StopLoadsTail(w)
  <2>1. Kept(w) /\ UNCHANGED <<counters, taken, log>>
    BY <1>10
    DEF KeepsGoing, StopLoadsHead, StopLoadsTail, EmptyLoadsHead, EmptyLoadsTail,
        Kept, ActiveWorkers, Incomplete, Unreturned, Counted, InGap, Sent
  <2>2. QED  BY <1>0, <2>1, CountsKept
<1>11. QED
  BY <1>2, <1>3, <1>4, <1>5, <1>6, <1>7, <1>8, <1>9, <1>10 DEF WorkerStep

-----------------------------------------------------------------------------
(***************************************************************************)
(* The shape of the state                                                  *)
(***************************************************************************)
LEMMA EnqueueTypes ==
  ASSUME TypeOK, CallInv, active_tasks_' \in Nat, NEW t \in Threads,
         Enqueue(t) \/ EnqueueOnStopped(t) \/ EnqueueStep(t)
  PROVE  TypeOK'
<1>0. /\ Home(t) \in ClientPcs \cup WorkerPcs
      /\ {"try", "retry", "count"} \subseteq ClientPcs \cup WorkerPcs
      /\ EmptyFn \in Functions /\ Tasks \subseteq Functions
  BY DEF Home, ClientPcs, WorkerPcs, EnqueuePcs, Functions
<1> USE PoolAssumption, <1>0
    DEF TypeOK, Goto, locals, queue, counters, history
<1>1. CASE Enqueue(t)                BY <1>1 DEF Enqueue
<1>2. CASE EnqueueOnStopped(t)       BY <1>2 DEF EnqueueOnStopped
<1>3. CASE TryEnqueue(t)
  BY <1>3 DEF TryEnqueue, Q!CallEnqueue, Q!Step, Functions
<1>4. CASE TryEnqueueTakesEffect(t)
  <2>1. Append(log, val[t]) \in Seq(Functions) /\ Len(log) \in Nat
    BY AppendProperties
  <2>2. QED  BY <1>4, <2>1 DEF TryEnqueueTakesEffect, Q!LinEnqueue, Q!Step
<1>5. CASE TryEnqueueTrue(t)         BY <1>5 DEF TryEnqueueTrue, Q!ReturnTrue, Q!Step
<1>6. CASE TryEnqueueFalse(t)        BY <1>6 DEF TryEnqueueFalse, Q!ReturnFalse, Q!Step
<1>7. ASSUME NEW from, NEW result \in {"accepted", "refused"}, Leave(t, from, result)
      PROVE  /\ pc' \in [Threads -> ClientPcs \cup WorkerPcs]
             /\ fate' \in [Tasks -> {"new", "submitting", "accepted", "refused"}]
             /\ future' \in [Threads -> Functions]
             /\ retries' \in [Threads -> 0..MaxRetries]
  <2>1. 0 \in 0..MaxRetries
    OBVIOUS
  <2>2. QED  BY <1>7, <2>1 DEF Leave
<1>8. CASE EnqueueGivesUp(t)
  <2>1. Leave(t, "retry", "refused")
    BY <1>8 DEF EnqueueGivesUp
  <2>2. QED  BY <1>7, <1>8, <2>1 DEF EnqueueGivesUp
<1>9. CASE EnqueueRetries(t)         BY <1>9 DEF EnqueueRetries
<1>10. CASE EnqueueReturns(t)
  <2>1. Leave(t, "count", "accepted")
    BY <1>10 DEF EnqueueReturns
  <2>2. QED  BY <1>7, <1>10, <2>1 DEF EnqueueReturns
<1>11. QED
  BY <1>1, <1>2, <1>3, <1>4, <1>5, <1>6, <1>8, <1>9, <1>10 DEF EnqueueStep

\* wait_all keeps the types.
LEMMA WaitTypes ==
  ASSUME TypeOK, active_tasks_' \in Nat, NEW c \in Clients, WaitAll(c) \/ WaitStep(c)
  PROVE  TypeOK'
<1>0. /\ ClientPcs \subseteq ClientPcs \cup WorkerPcs /\ Len(log) \in Nat
      /\ {"idle", "wait_head", "wait_tail", "wait_active"} \subseteq ClientPcs
  BY DEF ClientPcs, TypeOK
<1> USE PoolAssumption, <1>0
    DEF TypeOK, Goto, locals, queue, counters, history, Threads
<1>1. CASE WaitAll(c)           BY <1>1 DEF WaitAll, EmptyLoadsHead
<1>2. CASE WaitAllLoadsHead(c)  BY <1>2 DEF WaitAllLoadsHead, EmptyLoadsHead
<1>3. CASE WaitAllLoadsTail(c)  BY <1>3 DEF WaitAllLoadsTail, EmptyLoadsTail
<1>4. CASE WaitAllYields(c)     BY <1>4 DEF WaitAllYields
<1>5. CASE WaitAllReturns(c)    BY <1>5 DEF WaitAllReturns
<1>6. QED
  BY <1>1, <1>2, <1>3, <1>4, <1>5 DEF WaitStep

\* worker_loop keeps the types.
LEMMA WorkerTypes ==
  ASSUME TypeOK, CallInv, active_tasks_' \in Nat, NEW w \in Workers, WorkerStep(w)
  PROVE  TypeOK'
<1>0. /\ WorkerPcs \subseteq ClientPcs \cup WorkerPcs
      /\ {"poll", "got", "run", "body", "ran", "completed", "stopping", "stop_tail",
          "exited"} \subseteq WorkerPcs
      /\ EmptyFn \in Functions
  BY DEF WorkerPcs, Functions
<1> USE PoolAssumption, <1>0
    DEF TypeOK, Goto, locals, queue, counters, history, Threads
<1>1. CASE Poll(w)             BY <1>1 DEF Poll, Q!CallDequeue, Q!Step
<1>2. CASE PollTakesEffect(w)
  <2>1. taken < Len(log) /\ Len(log) \in Nat
    BY <1>2 DEF PollTakesEffect, Q!LinDequeue
  <2>2. taken + 1 \in 1..Len(log)
    BY <2>1
  <2>3. log[taken + 1] \in Functions /\ taken + 1 \in Nat
    BY <2>2, ElementOfSeq
  <2>4. QED  BY <1>2, <2>3 DEF PollTakesEffect, Q!LinDequeue, Q!Step
<1>3. CASE PollGetsTask(w)     BY <1>3 DEF PollGetsTask, Q!ReturnItem, Q!Step
<1>4. CASE PollGetsNothing(w)  BY <1>4 DEF PollGetsNothing, Q!ReturnNullopt, Q!Step
<1>5. CASE CountActive(w)      BY <1>5 DEF CountActive
<1>6. CASE Run(w)              BY <1>6 DEF Run
<1>7. CASE RunEmpty(w)         BY <1>7 DEF RunEmpty
<1>8. CASE BodyEnds(w)         BY <1>8 DEF BodyEnds, CallInv
<1>9. CASE UncountActive(w)    BY <1>9 DEF UncountActive
<1>10. CASE CountCompleted(w)  BY <1>10 DEF CountCompleted
<1>11. CASE KeepsGoing(w)      BY <1>11 DEF KeepsGoing
<1>12. CASE StopLoadsHead(w)   BY <1>12 DEF StopLoadsHead, EmptyLoadsHead
<1>13. CASE StopLoadsTail(w)   BY <1>13 DEF StopLoadsTail, EmptyLoadsTail
<1>14. QED
  BY <1>1, <1>2, <1>3, <1>4, <1>5, <1>6, <1>7, <1>8, <1>9, <1>10, <1>11, <1>12, <1>13
  DEF WorkerStep

-----------------------------------------------------------------------------
(***************************************************************************)
(* Calls and locals.  Only the part of the stepping thread can change.     *)
(***************************************************************************)
CallOk(t) ==
  /\ t \in Clients => pc[t] \in ClientPcs
  /\ t \in Workers => pc[t] \in WorkerPcs
  /\ op[t] \in {"enq", "enqueued"} => pc[t] = "try"
  /\ op[t] \in {"deq", "dequeued"} => pc[t] = "poll"
  /\ pc[t] \in EnqueuePcs <=> future[t] \in Tasks
  /\ pc[t] \in EnqueuePcs => task[t] \in {future[t], EmptyFn}
  /\ op[t] = "enq" => val[t] \in {future[t], EmptyFn}
  /\ t \in Workers => (pc[t] \in {"body", "ran", "completed"} \cup EnqueuePcs
                         => running[t] \in Tasks)

\* The invariant on calls in progress is a statement about each thread by
\* itself.
LEMMA CallSplit == CallInv <=> \A t \in Threads : CallOk(t)
  BY DEF CallInv, CallOk, Threads

\* A step of one thread keeps the invariant on calls if it keeps that
\* thread's part.
LEMMA CallOfOne ==
  ASSUME CallInv, NEW t \in Threads, Own(t), CallOk(t)'
  PROVE  CallInv'
<1>1. \A u \in Threads : CallOk(u)
  BY CallSplit
<1>2. ASSUME NEW u \in Threads, u # t PROVE CallOk(u)'
  <2>1. CallOk(u)
    BY <1>1
  <2>2. u \in Threads \ {t} /\ (u \in Workers => u \in Workers \ {t})
    BY <1>2
  <2>3. QED  BY <2>1, <2>2 DEF Own, CallOk
<1>3. \A u \in Threads : CallOk(u)'
  BY <1>2
<1>4. QED
  BY <1>3 DEF CallInv, CallOk, Threads

\* enqueue keeps its caller's place and locals in agreement.
LEMMA EnqueueCalls ==
  ASSUME TypeOK, CallInv, NEW t \in Threads,
         Enqueue(t) \/ EnqueueOnStopped(t) \/ EnqueueStep(t)
  PROVE  CallInv'
<1>0. Own(t) /\ CallOk(t)
  BY EnqueueOwn, CallSplit
<1> USE PoolAssumption, <1>0
    DEF TypeOK, Threads, Goto, Home, locals, queue, Functions, CallOk, EnqueuePcs,
        ClientPcs, WorkerPcs
<1>1. CASE Enqueue(t)
  <2>1. CallOk(t)'
    BY <1>1 DEF Enqueue
  <2>2. QED  BY <2>1, CallOfOne
<1>2. CASE EnqueueOnStopped(t)
  <2>1. CallOk(t)'
    BY <1>2 DEF EnqueueOnStopped
  <2>2. QED  BY <2>1, CallOfOne
<1>3. CASE TryEnqueue(t)
  <2>1. CallOk(t)'
    BY <1>3 DEF TryEnqueue, Q!CallEnqueue, Q!Step
  <2>2. QED  BY <2>1, CallOfOne
<1>4. CASE TryEnqueueTakesEffect(t)
  <2>1. CallOk(t)'
    BY <1>4 DEF TryEnqueueTakesEffect, Q!LinEnqueue, Q!Step
  <2>2. QED  BY <2>1, CallOfOne
<1>5. CASE TryEnqueueTrue(t) \/ TryEnqueueFalse(t)
  <2>1. CallOk(t)'
    BY <1>5 DEF TryEnqueueTrue, Q!ReturnTrue, TryEnqueueFalse, Q!ReturnFalse, Q!Step
  <2>2. QED  BY <2>1, CallOfOne
<1>6. CASE EnqueueGivesUp(t) \/ EnqueueReturns(t)
  <2>1. CallOk(t)'
    BY <1>6 DEF EnqueueGivesUp, EnqueueReturns, Leave
  <2>2. QED  BY <2>1, CallOfOne
<1>7. CASE EnqueueRetries(t)
  <2>1. CallOk(t)'
    BY <1>7 DEF EnqueueRetries
  <2>2. QED  BY <2>1, CallOfOne
<1>8. QED
  BY <1>1, <1>2, <1>3, <1>4, <1>5, <1>6, <1>7 DEF EnqueueStep

\* wait_all keeps its caller's place and locals in agreement.
LEMMA WaitCalls ==
  ASSUME TypeOK, CallInv, NEW c \in Clients, WaitAll(c) \/ WaitStep(c)
  PROVE  CallInv'
<1>0. Own(c) /\ CallOk(c) /\ c \in Threads
  BY WaitOwn, CallSplit DEF Threads
<1> USE PoolAssumption, <1>0
    DEF TypeOK, Threads, Goto, locals, queue, CallOk, EnqueuePcs, ClientPcs
<1>1. CASE WaitAll(c) \/ WaitAllLoadsHead(c)
  <2>1. CallOk(c)'
    BY <1>1 DEF WaitAll, WaitAllLoadsHead, EmptyLoadsHead
  <2>2. QED  BY <2>1, CallOfOne
<1>2. CASE WaitAllLoadsTail(c)
  <2>1. CallOk(c)'
    BY <1>2 DEF WaitAllLoadsTail, EmptyLoadsTail
  <2>2. QED  BY <2>1, CallOfOne
<1>3. CASE WaitAllYields(c) \/ WaitAllReturns(c)
  <2>1. CallOk(c)'
    BY <1>3 DEF WaitAllYields, WaitAllReturns
  <2>2. QED  BY <2>1, CallOfOne
<1>4. QED
  BY <1>1, <1>2, <1>3 DEF WaitStep

\* worker_loop keeps the worker's place and locals in agreement.
LEMMA WorkerCalls ==
  ASSUME TypeOK, CallInv, NEW w \in Workers, WorkerStep(w)
  PROVE  CallInv'
<1>0. Own(w) /\ CallOk(w) /\ w \in Threads
  BY WorkerOwn, CallSplit DEF Threads
<1> USE PoolAssumption, <1>0
    DEF TypeOK, Threads, Goto, locals, queue, Functions, CallOk, EnqueuePcs, WorkerPcs
<1>1. CASE Poll(w) \/ PollTakesEffect(w)
  <2>1. CallOk(w)'
    BY <1>1 DEF Poll, PollTakesEffect, Q!CallDequeue, Q!LinDequeue, Q!Step
  <2>2. QED  BY <2>1, CallOfOne
<1>2. CASE PollGetsTask(w) \/ PollGetsNothing(w)
  <2>1. CallOk(w)'
    BY <1>2 DEF PollGetsTask, PollGetsNothing, Q!ReturnItem, Q!ReturnNullopt, Q!Step
  <2>2. QED  BY <2>1, CallOfOne
<1>3. CASE CountActive(w) \/ Run(w) \/ RunEmpty(w)
  <2>1. CallOk(w)'
    BY <1>3 DEF CountActive, Run, RunEmpty
  <2>2. QED  BY <2>1, CallOfOne
<1>4. CASE BodyEnds(w) \/ UncountActive(w) \/ CountCompleted(w)
  <2>1. CallOk(w)'
    BY <1>4 DEF BodyEnds, UncountActive, CountCompleted
  <2>2. QED  BY <2>1, CallOfOne
<1>5. CASE KeepsGoing(w) \/ StopLoadsHead(w) \/ StopLoadsTail(w)
  <2>1. CallOk(w)'
    BY <1>5 DEF KeepsGoing, StopLoadsHead, StopLoadsTail, EmptyLoadsHead, EmptyLoadsTail
  <2>2. QED  BY <2>1, CallOfOne
<1>6. QED
  BY <1>1, <1>2, <1>3, <1>4, <1>5 DEF WorkerStep

-----------------------------------------------------------------------------
(***************************************************************************)
(* What is in the queue, and who put it there                              *)
(***************************************************************************)

(* A step that neither queues nor begins or ends an enqueue call. *)
LEMMA LogKept ==
  ASSUME LogInv, UNCHANGED <<log, fate>>,
         \A t \in Threads : /\ future'[t] = future[t]
                            /\ Unsent(t)' => Unsent(t)
                            /\ Sent(t)' => Sent(t)
  PROVE  LogInv'
<1>1. QueuedOnce' /\ QueuedFate' /\ AcceptedIn'
  BY DEF LogInv, QueuedOnce, QueuedFate, AcceptedIn, InLog
<1>2. CallFate' /\ OneCall'
  BY DEF LogInv, CallFate, OneCall
<1>3. UnsentOut'
  BY DEF LogInv, UnsentOut, InLog
<1>4. SentIn'
  BY DEF LogInv, SentIn, InLog
<1>5. QED
  BY <1>1, <1>2, <1>3, <1>4 DEF LogInv

(* A call of enqueue begins: its task is in no call and not in the queue.  *)
LEMMA BeginLog ==
  ASSUME TypeOK, LogInv, NEW t \in Threads, NEW f \in Tasks, fate[f] = "new",
         fate' = [fate EXCEPT ![f] = "submitting"], log' = log, Own(t),
         future'[t] = f, ~Sent(t)'
  PROVE  LogInv'
<1>1. /\ ~InLog(f) /\ \A u \in Threads : future[u] # f
      /\ fate \in [Tasks -> {"new", "submitting", "accepted", "refused"}]
  BY DEF LogInv, QueuedFate, CallFate, InLog, TypeOK
<1>2. \A u \in Threads \ {t} : /\ future'[u] = future[u]
                               /\ Unsent(u)' <=> Unsent(u)
                               /\ Sent(u)' <=> Sent(u)
  BY DEF Own, Unsent, Sent
<1>3. QueuedOnce'
  BY DEF LogInv, QueuedOnce
<1>4. QueuedFate' /\ AcceptedIn'
  BY <1>1 DEF LogInv, QueuedFate, AcceptedIn, InLog
<1>5. CallFate'
  BY <1>1, <1>2 DEF LogInv, CallFate
<1>6. OneCall'
  BY <1>1, <1>2 DEF LogInv, OneCall
<1>7. UnsentOut'
  BY <1>1, <1>2 DEF LogInv, UnsentOut, InLog
<1>8. SentIn'
  BY <1>2 DEF LogInv, SentIn, InLog
<1>9. QED
  BY <1>3, <1>4, <1>5, <1>6, <1>7, <1>8 DEF LogInv

(* A task is refused before its call has begun. *)
LEMMA RefuseLog ==
  ASSUME TypeOK, LogInv, NEW f \in Tasks, fate[f] = "new",
         fate' = [fate EXCEPT ![f] = "refused"], UNCHANGED <<log, future, pc, op>>
  PROVE  LogInv'
<1>1. /\ ~InLog(f) /\ \A u \in Threads : future[u] # f
      /\ fate \in [Tasks -> {"new", "submitting", "accepted", "refused"}]
  BY DEF LogInv, QueuedFate, CallFate, InLog, TypeOK
<1>2. QueuedOnce' /\ OneCall'
  BY DEF LogInv, QueuedOnce, OneCall
<1>3. QueuedFate' /\ AcceptedIn'
  BY <1>1 DEF LogInv, QueuedFate, AcceptedIn, InLog
<1>4. CallFate'
  BY <1>1 DEF LogInv, CallFate
<1>5. UnsentOut' /\ SentIn'
  BY DEF LogInv, UnsentOut, SentIn, InLog, Unsent, Sent
<1>6. QED
  BY <1>2, <1>3, <1>4, <1>5 DEF LogInv

(* A call of enqueue puts its task, or the empty function, into the queue. *)
LEMMA QueueLog ==
  ASSUME TypeOK, LogInv, NEW t \in Threads, Own(t), Unsent(t), ~Unsent(t)',
         \A u \in Threads : Unsent(u) => future[u] \in Tasks,
         val[t] \in {future[t], EmptyFn}, log' = Append(log, val[t]),
         UNCHANGED <<fate, future>>
  PROVE  LogInv'
<1>0. EmptyFn \notin Tasks
  BY PoolAssumption
<1>1. /\ Len(log) \in Nat /\ Len(log') = Len(log) + 1
      /\ \A n \in 1..Len(log) : log'[n] = log[n]
      /\ log'[Len(log) + 1] = val[t]
  BY AppendProperties DEF TypeOK
<1>2. /\ \A n \in 1..Len(log') : n \in 1..Len(log) \/ n = Len(log) + 1
      /\ \A n \in 1..Len(log) : n \in 1..Len(log')
      /\ Len(log) + 1 \in 1..Len(log')
  BY <1>1
<1>3. /\ future[t] \in Tasks /\ ~InLog(future[t])
  BY DEF LogInv, UnsentOut
<1>4. \A u \in Threads \ {t} : /\ future'[u] = future[u]
                               /\ Unsent(u)' <=> Unsent(u)
                               /\ Sent(u)' <=> Sent(u)
  BY DEF Own, Unsent, Sent
<1>5. QueuedOnce'
  <2> SUFFICES ASSUME NEW m \in 1..Len(log'), NEW n \in 1..Len(log'),
                      log'[m] \in Tasks, log'[m] = log'[n]
               PROVE  m = n
    BY DEF QueuedOnce
  <2>1. CASE m \in 1..Len(log) /\ n \in 1..Len(log)
    BY <1>1, <2>1 DEF LogInv, QueuedOnce
  <2>2. CASE m = Len(log) + 1 /\ n \in 1..Len(log)
    BY <1>0, <1>1, <1>3, <2>2 DEF InLog
  <2>3. CASE n = Len(log) + 1 /\ m \in 1..Len(log)
    BY <1>0, <1>1, <1>3, <2>3 DEF InLog
  <2>4. QED  BY <1>2, <2>1, <2>2, <2>3
<1>6. QueuedFate'
  BY <1>0, <1>1, <1>2, <1>3 DEF LogInv, QueuedFate, CallFate
<1>7. CallFate' /\ OneCall'
  BY DEF LogInv, CallFate, OneCall
<1>8. UnsentOut'
  <2> SUFFICES ASSUME NEW u \in Threads, Unsent(u)', NEW n \in 1..Len(log'),
                      log'[n] = future[u]
               PROVE  FALSE
    BY DEF UnsentOut, InLog
  <2>1. u # t /\ Unsent(u) /\ future[u] \in Tasks
    BY <1>4
  <2>2. ~InLog(future[u]) /\ future[u] # val[t]
    BY <1>0, <1>3, <2>1 DEF LogInv, UnsentOut, OneCall
  <2>3. QED  BY <1>1, <1>2, <2>2 DEF InLog
<1>9. \A g : InLog(g) \/ g = val[t] => InLog(g)'
  BY <1>1, <1>2 DEF InLog
<1>10. SentIn'
  <2> SUFFICES ASSUME NEW u \in Threads, Sent(u)'
               PROVE  (\E n \in 1..Len(log') : log'[n] = future[u]) \/ InLog(EmptyFn)'
    BY DEF SentIn, InLog
  <2>1. CASE u = t
    BY <1>9, <2>1 DEF InLog
  <2>2. CASE u # t
    <3>1. InLog(future[u]) \/ InLog(EmptyFn)
      BY <1>4, <2>2 DEF LogInv, SentIn
    <3>2. QED  BY <1>9, <3>1 DEF InLog
  <2>3. QED  BY <2>1, <2>2
<1>11. AcceptedIn'
  BY <1>9 DEF LogInv, AcceptedIn
<1>12. QED
  BY <1>5, <1>6, <1>7, <1>8, <1>10, <1>11 DEF LogInv

(* A call of enqueue ends, with its task queued or refused. *)
LEMMA LeaveLog ==
  ASSUME TypeOK, LogInv, NEW t \in Threads, Own(t), future[t] \in Tasks,
         NEW result \in {"accepted", "refused"},
         fate' = [fate EXCEPT ![future[t]] = result], log' = log,
         future'[t] = EmptyFn, ~Unsent(t)', ~Sent(t)',
         result = "accepted" => InLog(future[t]) \/ InLog(EmptyFn),
         result = "refused" => ~InLog(future[t])
  PROVE  LogInv'
<1>0. EmptyFn \notin Tasks
  BY PoolAssumption
<1>1. fate \in [Tasks -> {"new", "submitting", "accepted", "refused"}]
  BY DEF TypeOK
<1>2. \A u \in Threads \ {t} : /\ future'[u] = future[u] /\ future[u] # future[t]
                               /\ Unsent(u)' <=> Unsent(u)
                               /\ Sent(u)' <=> Sent(u)
  BY DEF Own, Unsent, Sent, LogInv, OneCall
<1>3. QueuedOnce'
  BY DEF LogInv, QueuedOnce
<1>4. QueuedFate'
  BY <1>1 DEF LogInv, QueuedFate, InLog
<1>5. CallFate'
  BY <1>0, <1>1, <1>2 DEF LogInv, CallFate
<1>6. OneCall'
  BY <1>0, <1>2 DEF LogInv, OneCall
<1>7. UnsentOut'
  BY <1>2 DEF LogInv, UnsentOut, InLog
<1>8. SentIn'
  BY <1>2 DEF LogInv, SentIn, InLog
<1>9. AcceptedIn'
  BY <1>1 DEF LogInv, AcceptedIn, InLog
<1>10. QED
  BY <1>3, <1>4, <1>5, <1>6, <1>7, <1>8, <1>9 DEF LogInv

\* enqueue queues a task at most once, and not at all when it gives up.
LEMMA EnqueueLog ==
  ASSUME TypeOK, CallInv, LogInv, NEW t \in Threads,
         Enqueue(t) \/ EnqueueOnStopped(t) \/ EnqueueStep(t)
  PROVE  LogInv'
<1>0. Own(t) /\ CallOk(t) /\ \A u \in Threads : CallOk(u)
  BY EnqueueOwn, CallSplit
<1>1. \A u \in Threads \ {t} : /\ future'[u] = future[u]
                               /\ Unsent(u)' <=> Unsent(u)
                               /\ Sent(u)' <=> Sent(u)
  BY <1>0 DEF Own, Unsent, Sent
<1>2. \A u \in Threads : Unsent(u) => future[u] \in Tasks
  BY <1>0 DEF CallOk, Unsent, EnqueuePcs
<1> DEFINE SameCall == /\ UNCHANGED <<log, fate>> /\ future'[t] = future[t]
                       /\ Unsent(t)' => Unsent(t)
                       /\ Sent(t)' => Sent(t)
<1>3. ASSUME SameCall PROVE LogInv'
  BY <1>1, <1>3, LogKept
<1> USE DEF TypeOK, Goto, queue, locals
<1>4. CASE TryEnqueue(t)
  <2>1. SameCall
    BY <1>4 DEF TryEnqueue, Q!CallEnqueue, Q!Step, Unsent, Sent, history
  <2>2. QED  BY <1>3, <2>1
<1>5. CASE TryEnqueueTrue(t)
  <2>1. SameCall
    BY <1>5 DEF TryEnqueueTrue, Q!ReturnTrue, Q!Step, Unsent, Sent, history
  <2>2. QED  BY <1>3, <2>1
<1>6. CASE TryEnqueueFalse(t)
  <2>1. SameCall
    BY <1>6 DEF TryEnqueueFalse, Q!ReturnFalse, Q!Step, Unsent, Sent, history
  <2>2. QED  BY <1>3, <2>1
<1>7. CASE EnqueueRetries(t)
  <2>1. SameCall
    BY <1>0, <1>7 DEF EnqueueRetries, CallOk, Unsent, Sent, history
  <2>2. QED  BY <1>3, <2>1
<1>8. CASE Enqueue(t)
  <2>1. PICK f \in Tasks : /\ fate[f] = "new"
                           /\ fate' = [fate EXCEPT ![f] = "submitting"]
                           /\ future' = [future EXCEPT ![t] = f]
    BY <1>8 DEF Enqueue
  <2>2. log' = log /\ pc'[t] = "try" /\ op' = op /\ pc[t] = Home(t)
    BY <1>8 DEF Enqueue
  <2>3. ~Sent(t)' /\ future'[t] = f
    BY <1>0, <2>1, <2>2 DEF CallOk, Home, Sent
  <2>4. QED  BY <1>0, <2>1, <2>2, <2>3, BeginLog
<1>9. CASE EnqueueOnStopped(t)
  <2>1. PICK f \in Tasks : fate[f] = "new" /\ fate' = [fate EXCEPT ![f] = "refused"]
    BY <1>9 DEF EnqueueOnStopped
  <2>2. UNCHANGED <<log, future, pc, op>>
    BY <1>9 DEF EnqueueOnStopped
  <2>3. QED  BY <2>1, <2>2, RefuseLog
<1>10. CASE TryEnqueueTakesEffect(t)
  <2>1. /\ op[t] = "enq" /\ op'[t] = "enqueued" /\ pc' = pc
        /\ log' = Append(log, val[t]) /\ UNCHANGED <<fate, future>>
    BY <1>10 DEF TryEnqueueTakesEffect, Q!LinEnqueue, Q!Step, history
  <2>2. val[t] \in {future[t], EmptyFn} /\ Unsent(t) /\ ~Unsent(t)'
    BY <1>0, <2>1 DEF CallOk, Unsent
  <2>3. QED  BY <1>0, <1>2, <2>1, <2>2, QueueLog
<1>11. CASE EnqueueGivesUp(t)
  <2>1. /\ pc[t] = "retry" /\ pc'[t] = Home(t) /\ op' = op /\ log' = log
        /\ fate' = [fate EXCEPT ![future[t]] = "refused"] /\ future'[t] = EmptyFn
    BY <1>11 DEF EnqueueGivesUp, Leave
  <2>2. future[t] \in Tasks /\ ~InLog(future[t])
    BY <1>2, <2>1 DEF LogInv, UnsentOut, Unsent
  <2>3. ~Unsent(t)' /\ ~Sent(t)'
    BY <1>0, <2>1 DEF CallOk, Unsent, Sent, Home
  <2>4. QED  BY <1>0, <2>1, <2>2, <2>3, LeaveLog
<1>12. CASE EnqueueReturns(t)
  <2>1. /\ pc[t] = "count" /\ pc'[t] = Home(t) /\ op' = op /\ log' = log
        /\ fate' = [fate EXCEPT ![future[t]] = "accepted"] /\ future'[t] = EmptyFn
    BY <1>12 DEF EnqueueReturns, Leave
  <2>2. future[t] \in Tasks /\ (InLog(future[t]) \/ InLog(EmptyFn))
    BY <1>0, <2>1 DEF CallOk, EnqueuePcs, LogInv, SentIn, Sent
  <2>3. ~Unsent(t)' /\ ~Sent(t)'
    BY <1>0, <2>1 DEF CallOk, Unsent, Sent, Home
  <2>4. QED  BY <1>0, <2>1, <2>2, <2>3, LeaveLog
<1>13. QED
  BY <1>4, <1>5, <1>6, <1>7, <1>8, <1>9, <1>10, <1>11, <1>12 DEF EnqueueStep

\* wait_all queues nothing.
LEMMA WaitLog ==
  ASSUME TypeOK, CallInv, LogInv, NEW c \in Clients, WaitAll(c) \/ WaitStep(c)
  PROVE  LogInv'
<1>0. Own(c) /\ c \in Threads
  BY WaitOwn DEF Threads
<1>1. /\ UNCHANGED <<log, fate, future, op>>
      /\ pc'[c] \in {"idle", "wait_head", "wait_tail", "wait_active"}
      /\ pc[c] \in {"idle", "wait_head", "wait_tail", "wait_active"}
  BY <1>0
  DEF WaitAll, WaitStep, WaitAllLoadsHead, WaitAllLoadsTail, WaitAllYields,
      WaitAllReturns, EmptyLoadsHead, EmptyLoadsTail, TypeOK, Goto, queue, locals, history
<1>2. \A u \in Threads : /\ future'[u] = future[u]
                         /\ Unsent(u)' => Unsent(u)
                         /\ Sent(u)' => Sent(u)
  BY <1>0, <1>1 DEF Own, Unsent, Sent
<1>3. QED
  BY <1>1, <1>2, LogKept

\* worker_loop itself queues nothing.
LEMMA WorkerLog ==
  ASSUME TypeOK, CallInv, LogInv, NEW w \in Workers, WorkerStep(w)
  PROVE  LogInv'
<1>0. Own(w) /\ w \in Threads /\ CallOk(w)
  BY WorkerOwn, CallSplit DEF Threads
<1> DEFINE Away == /\ UNCHANGED <<log, fate, future>>
                   /\ pc'[w] \notin EnqueuePcs /\ op'[w] # "enqueued"
<1> USE <1>0 DEF TypeOK, Goto, queue, locals, history, EnqueuePcs
<1>1. Away
  <2>1. CASE Poll(w) \/ PollTakesEffect(w)
    BY <2>1 DEF Poll, PollTakesEffect, Q!CallDequeue, Q!LinDequeue, Q!Step, CallOk
  <2>2. CASE ~(Poll(w) \/ PollTakesEffect(w))
    BY <2>2
    DEF WorkerStep, PollGetsTask, PollGetsNothing, Q!ReturnItem, Q!ReturnNullopt, Q!Step,
        CountActive, Run, RunEmpty, BodyEnds, UncountActive, CountCompleted, KeepsGoing,
        StopLoadsHead, StopLoadsTail, EmptyLoadsHead, EmptyLoadsTail, CallOk
  <2>3. QED  BY <2>1, <2>2
<1>2. \A u \in Threads : /\ future'[u] = future[u]
                         /\ Unsent(u)' => Unsent(u)
                         /\ Sent(u)' => Sent(u)
  BY <1>1 DEF Own, Unsent, Sent
<1>3. QED
  BY <1>1, <1>2, LogKept

-----------------------------------------------------------------------------
(***************************************************************************)
(* What has left the queue                                                 *)
(***************************************************************************)

(* A step that takes nothing from the queue and ends no body. *)
LEMMA HoldKept ==
  ASSUME HoldInv, TypeOK, UNCHANGED <<taken, done>>,
         log' = log \/ \E v \in Functions : log' = Append(log, v),
         \A w \in Workers, f \in Functions : Holds(w, f)' <=> Holds(w, f)
  PROVE  HoldInv'
<1>0. Len(log) \in Nat /\ taken \in Nat /\ Tasks \subseteq Functions /\ done \subseteq Tasks
  BY DEF TypeOK, Functions
<1>1. Len(log') >= Len(log) /\ \A n \in 1..Len(log) : log'[n] = log[n]
  BY <1>0, AppendProperties DEF TypeOK
<1>2. \A n \in 1..taken : n \in 1..Len(log) /\ log'[n] = log[n] /\ log[n] \in Functions
  BY <1>0, <1>1, ElementOfSeq DEF HoldInv, TypeOK
<1>3. \A f : Taken(f)' <=> Taken(f)
  BY <1>2 DEF Taken
<1>4. taken' <= Len(log')
  <2>1. Len(log') \in Nat
    BY <1>0, AppendProperties DEF TypeOK
  <2>2. QED  BY <1>0, <1>1, <2>1 DEF HoldInv
<1>5. \A n \in 1..taken' : log'[n] \in done' \/ \E w \in Workers : Holds(w, log[n])'
  <2> SUFFICES ASSUME NEW n \in 1..taken
               PROVE  log'[n] \in done \/ \E w \in Workers : Holds(w, log[n])'
    OBVIOUS
  <2>1. log[n] \in done \/ \E w \in Workers : Holds(w, log[n])
    BY DEF HoldInv
  <2>2. CASE log[n] \in done
    BY <1>2, <2>2
  <2>3. ASSUME NEW w \in Workers, Holds(w, log[n]) PROVE Holds(w, log[n])'
    <3>1. PICK f \in Functions : f = log[n]
      BY <1>2
    <3>2. Holds(w, f)'
      BY <2>3, <3>1
    <3>3. QED  BY <1>2, <3>1, <3>2 DEF Holds
  <2>4. QED  BY <2>1, <2>2, <2>3
<1>6. QED
  BY <1>0, <1>3, <1>4, <1>5 DEF HoldInv

(* The holders do not change when the queue calls, the program counters    *)
(* and the functions of the workers stay within the same part of the loop. *)
LEMMA HoldsOfOne ==
  ASSUME NEW t \in Threads, Own(t),
         t \in Workers => \A f \in Functions : Holds(t, f)' <=> Holds(t, f)
  PROVE  \A w \in Workers, f \in Functions : Holds(w, f)' <=> Holds(w, f)
<1> SUFFICES ASSUME NEW w \in Workers, NEW f \in Functions
             PROVE  Holds(w, f)' <=> Holds(w, f)
  OBVIOUS
<1>1. CASE w = t
  BY <1>1
<1>2. CASE w # t
  BY <1>2 DEF Own, Holds, Threads
<1>3. QED
  BY <1>1, <1>2

\* enqueue takes nothing out of the queue or out of a worker's hands.
LEMMA EnqueueHolds ==
  ASSUME TypeOK, CallInv, HoldInv, NEW t \in Threads,
         Enqueue(t) \/ EnqueueOnStopped(t) \/ EnqueueStep(t)
  PROVE  HoldInv'
<1>0. Own(t) /\ CallOk(t)
  BY EnqueueOwn, CallSplit
<1> DEFINE HoldsSame == \A f \in Functions : Holds(t, f)' <=> Holds(t, f)
           Grown == /\ UNCHANGED <<taken, done>>
                    /\ log' = log \/ \E v \in Functions : log' = Append(log, v)
<1>1. SUFFICES (t \in Workers => HoldsSame) /\ Grown
  BY <1>0, HoldsOfOne, HoldKept
<1> USE <1>0
    DEF TypeOK, Goto, queue, locals, history, Home, EnqueuePcs, CallOk, Threads, Holds
<1>2. CASE Enqueue(t)                BY <1>2 DEF Enqueue
<1>3. CASE EnqueueOnStopped(t)       BY <1>3 DEF EnqueueOnStopped
<1>4. CASE TryEnqueue(t)             BY <1>4 DEF TryEnqueue, Q!CallEnqueue, Q!Step
<1>5. CASE TryEnqueueTakesEffect(t)  BY <1>5 DEF TryEnqueueTakesEffect, Q!LinEnqueue, Q!Step
<1>6. CASE TryEnqueueTrue(t)         BY <1>6 DEF TryEnqueueTrue, Q!ReturnTrue, Q!Step
<1>7. CASE TryEnqueueFalse(t)        BY <1>7 DEF TryEnqueueFalse, Q!ReturnFalse, Q!Step
<1>8. CASE EnqueueGivesUp(t)         BY <1>8 DEF EnqueueGivesUp, Leave
<1>9. CASE EnqueueRetries(t)         BY <1>9 DEF EnqueueRetries
<1>10. CASE EnqueueReturns(t)        BY <1>10 DEF EnqueueReturns, Leave
<1>11. QED
  BY <1>2, <1>3, <1>4, <1>5, <1>6, <1>7, <1>8, <1>9, <1>10 DEF EnqueueStep

\* wait_all takes nothing out of the queue.
LEMMA WaitHolds ==
  ASSUME TypeOK, CallInv, HoldInv, NEW c \in Clients, WaitAll(c) \/ WaitStep(c)
  PROVE  HoldInv'
<1>0. Own(c) /\ c \in Threads /\ c \notin Workers
  BY WaitOwn, PoolAssumption DEF Threads
<1>1. UNCHANGED <<taken, done, log>>
  BY DEF WaitAll, WaitStep, WaitAllLoadsHead, WaitAllLoadsTail, WaitAllYields,
         WaitAllReturns, EmptyLoadsHead, EmptyLoadsTail, queue, history
<1>2. QED
  BY <1>0, <1>1, HoldsOfOne, HoldKept

(* A worker takes the oldest task: nobody holds it, and it has not run. *)
LEMMA TakeHolds ==
  ASSUME TypeOK, CallInv, LogInv, HoldInv, NEW w \in Workers, PollTakesEffect(w)
  PROVE  HoldInv'
<1> DEFINE x == log[taken + 1]
<1>0. Own(w) /\ w \in Threads /\ CallOk(w)
  BY WorkerOwn, CallSplit DEF Threads, WorkerStep
<1>1. /\ taken < Len(log) /\ taken' = taken + 1 /\ log' = log /\ done' = done
      /\ op[w] = "deq" /\ op'[w] = "dequeued" /\ val'[w] = x
      /\ pc' = pc /\ running' = running
  BY <1>0 DEF PollTakesEffect, Q!LinDequeue, Q!Step, TypeOK, locals, history
<1>2. taken \in Nat /\ Len(log) \in Nat /\ taken + 1 \in 1..Len(log) /\ x \in Functions
  BY <1>1, ElementOfSeq DEF TypeOK
<1>3. pc[w] = "poll"
  BY <1>0, <1>1 DEF CallOk
<1>4. \A f : ~Holds(w, f) /\ (Holds(w, f)' <=> f = x)
  BY <1>1, <1>3 DEF Holds, EnqueuePcs
<1>5. \A v \in Workers \ {w} : \A f : Holds(v, f)' <=> Holds(v, f)
  BY <1>0 DEF Own, Holds, Threads
<1>6. \A f : Taken(f)' <=> Taken(f) \/ f = x
  <2>1. \A n : n \in 1..taken' <=> n \in 1..taken \/ n = taken + 1
    BY <1>1, <1>2
  <2>2. QED  BY <1>1, <2>1 DEF Taken
<1>7. x \in Tasks => ~Taken(x)
  <2> SUFFICES ASSUME x \in Tasks, NEW n \in 1..taken, log[n] = x PROVE FALSE
    BY DEF Taken
  <2>1. n \in 1..Len(log) /\ n # taken + 1
    BY <1>1, <1>2
  <2>2. QED  BY <1>2, <2>1 DEF LogInv, QueuedOnce
<1>8. \A v \in Workers, f \in Tasks : Holds(v, f)' => Taken(f)' /\ f \notin done'
  <2> SUFFICES ASSUME NEW v \in Workers, NEW f \in Tasks, Holds(v, f)'
               PROVE  Taken(f)' /\ f \notin done
    BY <1>1
  <2>1. CASE v = w
    BY <1>4, <1>6, <1>7, <2>1 DEF HoldInv
  <2>2. CASE v # w
    BY <1>5, <1>6, <2>2 DEF HoldInv
  <2>3. QED  BY <2>1, <2>2
<1>9. \A u, v \in Workers, f \in Tasks : Holds(u, f)' /\ Holds(v, f)' => u = v
  BY <1>4, <1>5, <1>7 DEF HoldInv
<1>10. \A f \in done' : Taken(f)'
  BY <1>1, <1>6 DEF HoldInv
<1>11. ASSUME NEW n \in 1..taken'
       PROVE  log'[n] \in done' \/ \E v \in Workers : Holds(v, log[n])'
  <2>1. CASE n = taken + 1
    BY <1>1, <2>1 DEF Holds
  <2>2. CASE n \in 1..taken
    <3>1. CASE log[n] \in done
      BY <1>1, <3>1
    <3>2. ASSUME NEW v \in Workers, Holds(v, log[n]) PROVE Holds(v, log[n])'
      <4>1. v # w
        BY <1>4, <3>2
      <4>2. QED  BY <1>0, <1>1, <3>2, <4>1 DEF Own, Holds, Threads
    <3>3. QED  BY <2>2, <3>1, <3>2 DEF HoldInv
  <2>3. QED  BY <1>1, <1>2, <2>1, <2>2
<1>12. taken' <= Len(log')
  BY <1>1, <1>2
<1>13. QED
  BY <1>8, <1>9, <1>10, <1>11, <1>12 DEF HoldInv

(* A body ends: its task has run, and its worker holds it no longer. *)
LEMMA EndHolds ==
  ASSUME TypeOK, CallInv, HoldInv, NEW w \in Workers, BodyEnds(w)
  PROVE  HoldInv'
<1> DEFINE x == running[w]
<1>0. Own(w) /\ w \in Threads /\ CallOk(w)
  BY WorkerOwn, CallSplit DEF Threads, WorkerStep
<1>1. /\ pc[w] = "body" /\ pc'[w] = "ran" /\ done' = done \cup {x}
      /\ UNCHANGED <<taken, log, op, val, running>>
  BY <1>0 DEF BodyEnds, Goto, TypeOK, queue, locals
<1>2. x \in Tasks /\ op[w] # "dequeued"
  BY <1>0, <1>1 DEF CallOk
<1>3. \A f : (Holds(w, f) <=> f = x) /\ ~Holds(w, f)'
  BY <1>1, <1>2 DEF Holds, EnqueuePcs
<1>4. \A v \in Workers \ {w} : \A f : Holds(v, f)' <=> Holds(v, f)
  BY <1>0 DEF Own, Holds, Threads
<1>5. \A f : Taken(f)' <=> Taken(f)
  BY <1>1 DEF Taken
<1>6. \A v \in Workers, f \in Tasks : Holds(v, f)' => Taken(f)' /\ f \notin done'
  BY <1>1, <1>3, <1>4, <1>5 DEF HoldInv
<1>7. \A u, v \in Workers, f \in Tasks : Holds(u, f)' /\ Holds(v, f)' => u = v
  BY <1>3, <1>4 DEF HoldInv
<1>8. \A f \in done' : Taken(f)'
  BY <1>1, <1>2, <1>3, <1>5 DEF HoldInv
<1>9. ASSUME NEW n \in 1..taken'
      PROVE  log'[n] \in done' \/ \E v \in Workers : Holds(v, log[n])'
  <2>1. CASE log[n] \in done
    BY <1>1, <2>1
  <2>2. ASSUME NEW v \in Workers, Holds(v, log[n])
        PROVE  log'[n] \in done' \/ Holds(v, log[n])'
    <3>1. CASE v = w
      BY <1>1, <1>3, <2>2, <3>1
    <3>2. CASE v # w
      BY <1>0, <1>1, <2>2, <3>2 DEF Own, Holds, Threads
    <3>3. QED  BY <3>1, <3>2
  <2>3. QED  BY <1>1, <2>1, <2>2 DEF HoldInv
<1>10. taken' <= Len(log')
  BY <1>1 DEF HoldInv
<1>11. QED
  BY <1>6, <1>7, <1>8, <1>9, <1>10 DEF HoldInv

\* What worker_loop takes out of the queue is in the hands of one worker
\* until it has run.
LEMMA WorkerHolds ==
  ASSUME TypeOK, CallInv, LogInv, HoldInv, NEW w \in Workers, WorkerStep(w)
  PROVE  HoldInv'
<1>0. Own(w) /\ CallOk(w) /\ w \in Threads
  BY WorkerOwn, CallSplit DEF Threads
<1> DEFINE Same == /\ \A f \in Functions : Holds(w, f)' <=> Holds(w, f)
                   /\ UNCHANGED <<taken, done, log>>
<1>1. ASSUME Same PROVE HoldInv'
  BY <1>0, <1>1, HoldsOfOne, HoldKept
<1>2. CASE PollTakesEffect(w) \/ BodyEnds(w)
  BY <1>2, TakeHolds, EndHolds
<1> USE <1>0 DEF TypeOK, Goto, queue, locals, history, EnqueuePcs, CallOk, Holds
<1>3. CASE Poll(w)
  <2>1. Same
    BY <1>3 DEF Poll, Q!CallDequeue, Q!Step
  <2>2. QED  BY <1>1, <2>1
<1>4. CASE PollGetsTask(w)
  <2>1. Same
    BY <1>4 DEF PollGetsTask, Q!ReturnItem, Q!Step
  <2>2. QED  BY <1>1, <2>1
<1>5. CASE PollGetsNothing(w)
  <2>1. Same
    BY <1>5 DEF PollGetsNothing, Q!ReturnNullopt, Q!Step
  <2>2. QED  BY <1>1, <2>1
<1>6. CASE CountActive(w) \/ Run(w) \/ RunEmpty(w)
  <2>1. Same
    BY <1>6 DEF CountActive, Run, RunEmpty
  <2>2. QED  BY <1>1, <2>1
<1>7. CASE UncountActive(w) \/ CountCompleted(w) \/ KeepsGoing(w)
  <2>1. Same
    BY <1>7 DEF UncountActive, CountCompleted, KeepsGoing
  <2>2. QED  BY <1>1, <2>1
<1>8. CASE StopLoadsHead(w) \/ StopLoadsTail(w)
  <2>1. Same
    BY <1>8 DEF StopLoadsHead, StopLoadsTail, EmptyLoadsHead, EmptyLoadsTail
  <2>2. QED  BY <1>1, <2>1
<1>9. QED
  BY <1>2, <1>3, <1>4, <1>5, <1>6, <1>7, <1>8 DEF WorkerStep

-----------------------------------------------------------------------------
(***************************************************************************)
(* Shutdown and wait_all                                                   *)
(***************************************************************************)
LEMMA EnqueueStops ==
  ASSUME TypeOK, CallInv, HoldInv, StopInv, NEW t \in Threads,
         Enqueue(t) \/ EnqueueOnStopped(t) \/ EnqueueStep(t)
  PROVE  StopInv'
<1>0. Own(t) /\ CallOk(t)
  BY EnqueueOwn, CallSplit
<1>1. /\ UNCHANGED <<stop_, mark, head, taken>>
      /\ pc[t] \in {"body", "idle"} \cup EnqueuePcs
      /\ pc'[t] \in {"body", "idle"} \cup EnqueuePcs
      /\ t \in Clients => ~stop_
  <2> USE <1>0 DEF TypeOK, Goto, queue, locals, history, Home, EnqueuePcs, CallOk
  <2>1. CASE Enqueue(t) \/ EnqueueOnStopped(t)
    BY <2>1, PoolAssumption DEF Enqueue, EnqueueOnStopped, MayCall
  <2>2. CASE EnqueueStep(t)
    <3>1. UNCHANGED <<stop_, mark, head, taken>>
      BY <2>2
      DEF EnqueueStep, TryEnqueue, Q!CallEnqueue, TryEnqueueTakesEffect, Q!LinEnqueue,
          TryEnqueueTrue, Q!ReturnTrue, TryEnqueueFalse, Q!ReturnFalse, EnqueueGivesUp,
          EnqueueRetries, EnqueueReturns
    <3>2. pc[t] \in EnqueuePcs
      BY <2>2
      DEF EnqueueStep, TryEnqueue, TryEnqueueTakesEffect, Q!LinEnqueue, Q!Step,
          TryEnqueueTrue, TryEnqueueFalse, EnqueueGivesUp, EnqueueRetries,
          EnqueueReturns, Leave
    <3>3. pc'[t] \in {"body", "idle"} \cup EnqueuePcs
      BY <2>2, <3>2
      DEF EnqueueStep, TryEnqueue, TryEnqueueTakesEffect, TryEnqueueTrue,
          TryEnqueueFalse, EnqueueGivesUp, EnqueueRetries, EnqueueReturns, Leave
    <3>4. t \in Clients => ~stop_
      BY <3>2 DEF StopInv
    <3>5. QED  BY <3>1, <3>2, <3>3, <3>4
  <2>3. QED  BY <2>1, <2>2
<1>2. Len(log') >= Len(log) /\ Len(log) \in Nat /\ Len(log') \in Nat
  <2>1. log' = log \/ log' = Append(log, val[t])
    BY DEF Enqueue, EnqueueOnStopped, EnqueueStep, TryEnqueue, Q!CallEnqueue,
           TryEnqueueTakesEffect, Q!LinEnqueue, TryEnqueueTrue, Q!ReturnTrue,
           TryEnqueueFalse, Q!ReturnFalse, EnqueueGivesUp, EnqueueRetries,
           EnqueueReturns, queue
  <2>2. QED  BY <2>1, AppendProperties DEF TypeOK
<1>3. ~Joined'
  <2>1. SUFFICES ASSUME Joined' PROVE FALSE
    OBVIOUS
  <2>2. t \notin Workers
    BY <1>1, <2>1 DEF Joined, EnqueuePcs
  <2>3. t \in Clients /\ ~stop_
    BY <1>1, <2>2 DEF Threads
  <2>4. PICK w \in Workers : w # t
    BY <2>2, PoolAssumption
  <2>5. pc[w] = "exited"
    BY <1>0, <2>1, <2>4 DEF Own, Joined, Threads
  <2>6. QED  BY <2>3, <2>5 DEF StopInv
<1>4. stop_' = TRUE => \A c \in Clients : pc'[c] = "idle"
  <2> SUFFICES ASSUME stop_, NEW c \in Clients PROVE pc'[c] = "idle"
    BY <1>1
  <2>1. c # t
    BY <1>1
  <2>2. QED  BY <1>0, <2>1 DEF Own, Threads, StopInv
<1>5. \A w \in Workers : pc'[w] \in {"stop_tail", "exited"} => stop_' = TRUE
  BY <1>0, <1>1 DEF Own, Threads, StopInv, EnqueuePcs
<1>6. \A c \in Clients : /\ mark'[c] <= Len(log')
                         /\ pc'[c] = "wait_active" => mark'[c] <= taken'
  <2> SUFFICES ASSUME NEW c \in Clients
               PROVE  /\ mark'[c] <= Len(log')
                      /\ pc'[c] = "wait_active" => mark'[c] <= taken'
    OBVIOUS
  <2>1. mark'[c] = mark[c] /\ mark[c] \in Nat /\ mark[c] <= Len(log)
    BY <1>1 DEF StopInv, TypeOK
  <2>2. pc'[c] = "wait_active" => pc[c] = "wait_active"
    BY <1>0, <1>1 DEF Own, Threads, EnqueuePcs
  <2>3. QED  BY <1>1, <1>2, <2>1, <2>2 DEF StopInv
<1>7. QED
  BY <1>1, <1>3, <1>4, <1>5, <1>6 DEF StopInv

\* wait_all reads active_tasks_ when all it waits for has left the queue.
LEMMA WaitStops ==
  ASSUME TypeOK, CallInv, HoldInv, StopInv, NEW c \in Clients, WaitAll(c) \/ WaitStep(c)
  PROVE  StopInv'
<1>0. Own(c) /\ c \in Threads /\ c \notin Workers
  BY WaitOwn, PoolAssumption DEF Threads
<1>1. UNCHANGED <<stop_, taken, log>> /\ ~stop_
  BY <1>0
  DEF WaitAll, MayCall, WaitStep, WaitAllLoadsHead, WaitAllLoadsTail, WaitAllYields,
      WaitAllReturns, EmptyLoadsHead, EmptyLoadsTail, queue, StopInv, Goto, TypeOK
<1>2. \A w \in Workers : pc'[w] = pc[w]
  BY <1>0 DEF Own, Threads
<1>3. /\ taken \in Nat /\ Len(log) \in Nat /\ head[c] \in Nat /\ mark[c] \in Nat
      /\ mark \in [Clients -> Nat] /\ head \in [Threads -> Nat]
      /\ pc \in [Threads -> ClientPcs \cup WorkerPcs]
      /\ taken <= Len(log) /\ head[c] <= taken /\ mark[c] <= Len(log)
      /\ pc[c] = "wait_active" => mark[c] <= taken
  BY <1>0 DEF TypeOK, StopInv, HoldInv
<1>4. /\ head'[c] <= taken /\ mark'[c] <= Len(log)
      /\ pc'[c] = "wait_active" => mark'[c] <= taken
      /\ \A d \in Clients \ {c} : mark'[d] = mark[d]
  <2> USE <1>0, <1>3 DEF Goto
  <2>1. CASE WaitAll(c)           BY <2>1 DEF WaitAll, EmptyLoadsHead
  <2>2. CASE WaitAllLoadsHead(c)  BY <2>2 DEF WaitAllLoadsHead, EmptyLoadsHead
  <2>3. CASE WaitAllLoadsTail(c)  BY <2>3 DEF WaitAllLoadsTail, EmptyLoadsTail, history
  <2>4. CASE WaitAllYields(c)     BY <2>4 DEF WaitAllYields, locals, history
  <2>5. CASE WaitAllReturns(c)    BY <2>5 DEF WaitAllReturns, locals
  <2>6. QED  BY <2>1, <2>2, <2>3, <2>4, <2>5 DEF WaitStep
<1>5. \A t \in Threads : head'[t] <= taken'
  BY <1>0, <1>1, <1>4 DEF Own, StopInv
<1>6. \A w \in Workers : pc'[w] \in {"stop_tail", "exited"} => stop_' = TRUE
  BY <1>1, <1>2 DEF StopInv
<1>7. Joined' => taken' = Len(log')
  BY <1>1, <1>2 DEF StopInv, Joined
<1>8. \A d \in Clients : /\ mark'[d] <= Len(log')
                         /\ pc'[d] = "wait_active" => mark'[d] <= taken'
  BY <1>0, <1>1, <1>4 DEF Own, Threads, StopInv
<1>9. stop_' = TRUE => \A d \in Clients : pc'[d] = "idle"
  BY <1>1
<1>10. QED
  BY <1>5, <1>6, <1>7, <1>8, <1>9 DEF StopInv

\* A worker leaves when stop_ is set, and the last one leaves an empty queue.
LEMMA WorkerStops ==
  ASSUME TypeOK, CallInv, HoldInv, StopInv, NEW w \in Workers, WorkerStep(w)
  PROVE  StopInv'
<1>0. Own(w) /\ w \in Threads /\ w \notin Clients /\ CallOk(w)
  BY WorkerOwn, CallSplit, PoolAssumption DEF Threads
<1>1. UNCHANGED <<stop_, mark, log>>
  BY DEF WorkerStep, Poll, Q!CallDequeue, PollTakesEffect, Q!LinDequeue, PollGetsTask,
         Q!ReturnItem, PollGetsNothing, Q!ReturnNullopt, CountActive, Run, RunEmpty,
         BodyEnds, UncountActive, CountCompleted, KeepsGoing, StopLoadsHead,
         StopLoadsTail, EmptyLoadsHead, EmptyLoadsTail, queue, history
<1>2. \A c \in Clients : pc'[c] = pc[c]
  BY <1>0 DEF Own, Threads
<1>3. /\ taken \in Nat /\ Len(log) \in Nat /\ taken <= Len(log)
      /\ head[w] \in Nat /\ head[w] <= taken
      /\ head \in [Threads -> Nat] /\ pc \in [Threads -> ClientPcs \cup WorkerPcs]
      /\ mark \in [Clients -> Nat] /\ op \in [Threads -> {"idle", "enq", "enqueued", "deq", "dequeued"}]
  BY <1>0 DEF TypeOK, HoldInv, StopInv
<1>4. /\ taken' \in Nat /\ taken <= taken' /\ head'[w] <= taken'
      /\ pc'[w] \in {"stop_tail", "exited"} => stop_ = TRUE
      /\ pc'[w] = "exited" => taken' = Len(log)
  <2> USE <1>0, <1>3 DEF Goto, locals, queue
  <2>1. CASE Poll(w) \/ PollTakesEffect(w)
    <3>1. head' = head /\ pc' = pc /\ (taken' = taken \/ taken' = taken + 1)
      BY <2>1 DEF Poll, Q!CallDequeue, PollTakesEffect, Q!LinDequeue
    <3>2. pc[w] = "poll"
      BY <2>1 DEF Poll, PollTakesEffect, Q!LinDequeue, Q!Step, CallOk
    <3>3. QED  BY <3>1, <3>2
  <2>2. CASE PollGetsTask(w) \/ PollGetsNothing(w)
    BY <2>2 DEF PollGetsTask, Q!ReturnItem, PollGetsNothing, Q!ReturnNullopt
  <2>3. CASE CountActive(w) \/ Run(w) \/ RunEmpty(w) \/ BodyEnds(w)
    BY <2>3 DEF CountActive, Run, RunEmpty, BodyEnds
  <2>4. CASE UncountActive(w) \/ CountCompleted(w) \/ KeepsGoing(w)
    BY <2>4 DEF UncountActive, CountCompleted, KeepsGoing
  <2>5. CASE StopLoadsHead(w)
    BY <2>5 DEF StopLoadsHead, EmptyLoadsHead
  <2>6. CASE StopLoadsTail(w)
    <3>1. /\ pc[w] = "stop_tail" /\ head'[w] = 0 /\ taken' = taken
          /\ pc'[w] = IF Len(log) > head[w] THEN "poll" ELSE "exited"
      BY <2>6 DEF StopLoadsTail, EmptyLoadsTail
    <3>2. stop_ = TRUE
      BY <3>1 DEF StopInv
    <3>3. QED  BY <3>1, <3>2
  <2>7. QED  BY <2>1, <2>2, <2>3, <2>4, <2>5, <2>6 DEF WorkerStep
<1>5. \A t \in Threads : head'[t] <= taken'
  <2> SUFFICES ASSUME NEW t \in Threads PROVE head'[t] <= taken'
    OBVIOUS
  <2>1. head[t] \in Nat /\ head[t] <= taken /\ (t # w => head'[t] = head[t])
    BY <1>0 DEF TypeOK, StopInv, Own
  <2>2. QED  BY <1>3, <1>4, <2>1
<1>6. stop_' = TRUE => \A c \in Clients : pc'[c] = "idle"
  BY <1>1, <1>2 DEF StopInv
<1>7. \A v \in Workers : pc'[v] \in {"stop_tail", "exited"} => stop_' = TRUE
  BY <1>0, <1>1, <1>4 DEF StopInv, Own, Threads
<1>8. Joined' => taken' = Len(log')
  BY <1>1, <1>4 DEF Joined
<1>9. \A c \in Clients : /\ mark'[c] <= Len(log')
                         /\ pc'[c] = "wait_active" => mark'[c] <= taken'
  <2> SUFFICES ASSUME NEW c \in Clients
               PROVE  /\ mark'[c] <= Len(log')
                      /\ pc'[c] = "wait_active" => mark'[c] <= taken'
    OBVIOUS
  <2>1. mark'[c] = mark[c] /\ mark[c] \in Nat /\ mark[c] <= Len(log)
    BY <1>1 DEF TypeOK, StopInv
  <2>2. pc[c] = "wait_active" => mark[c] <= taken
    BY DEF StopInv
  <2>3. QED  BY <1>1, <1>2, <1>3, <1>4, <2>1, <2>2
<1>10. QED
  BY <1>5, <1>6, <1>7, <1>8, <1>9 DEF StopInv

-----------------------------------------------------------------------------
(***************************************************************************)
(* The whole step                                                          *)
(***************************************************************************)

(* Nothing but stop_ depends on what the destructor does. *)
LEMMA StutterIInv ==
  ASSUME IInv, stop_' \in BOOLEAN, StopInv',
         UNCHANGED <<queue, counters, pc, locals, history, terminated>>
  PROVE  IInv'
<1> USE DEF queue, counters, locals, history
<1>1. TypeOK'
  BY DEF IInv, TypeOK
<1>2. CallInv'
  BY DEF IInv, CallInv
<1>3. CountInv'
  <2>1. ActiveWorkers' = ActiveWorkers /\ Incomplete' = Incomplete /\ Unreturned' = Unreturned
    BY DEF ActiveWorkers, Incomplete, Unreturned, Counted, InGap, Sent
  <2>2. QED  BY <2>1 DEF IInv, CountInv
<1>4. LogInv'
  BY DEF IInv, LogInv, QueuedOnce, QueuedFate, CallFate, OneCall, UnsentOut, SentIn,
         AcceptedIn, Unsent, Sent, InLog
<1>5. HoldInv'
  BY DEF IInv, HoldInv, Holds, Taken
<1>6. QED
  BY <1>1, <1>2, <1>3, <1>4, <1>5 DEF IInv

\* The destructor, setting stop_, keeps the inductive invariant.
LEMMA DestroyIInv ==
  ASSUME IInv, Destroy
  PROVE  IInv'
<1>1. StopInv'
  BY DEF IInv, Destroy, StopInv, Joined, queue, locals, history
<1>2. QED
  BY <1>1, StutterIInv DEF Destroy

\* Stuttering keeps the inductive invariant.
LEMMA UnchangedIInv ==
  ASSUME IInv, UNCHANGED vars
  PROVE  IInv'
<1>1. StopInv' /\ stop_' \in BOOLEAN
  BY DEF IInv, TypeOK, StopInv, Joined, vars, queue, locals, history
<1>2. QED
  BY <1>1, StutterIInv DEF vars

\* Every step keeps the inductive invariant.
LEMMA NextIInv == IInv /\ [Next]_vars => IInv'
<1> SUFFICES ASSUME IInv, [Next]_vars PROVE IInv'
  OBVIOUS
<1> USE DEF IInv
<1>1. ASSUME NEW t \in Threads, Enqueue(t) \/ EnqueueOnStopped(t) \/ EnqueueStep(t)
      PROVE  IInv'
  <2>1. CountInv' /\ active_tasks_' \in Nat
    BY <1>1, EnqueueCounts DEF CountsSound
  <2>2. TypeOK'
    BY <1>1, <2>1, EnqueueTypes
  <2>3. CallInv'
    BY <1>1, EnqueueCalls
  <2>4. LogInv'
    BY <1>1, EnqueueLog
  <2>5. HoldInv' /\ StopInv'
    BY <1>1, EnqueueHolds, EnqueueStops
  <2>6. QED  BY <2>1, <2>2, <2>3, <2>4, <2>5
<1>2. ASSUME NEW c \in Clients, WaitAll(c) \/ WaitStep(c)
      PROVE  IInv'
  <2>1. CountInv' /\ active_tasks_' \in Nat
    BY <1>2, WaitCounts DEF CountsSound
  <2>2. TypeOK'
    BY <1>2, <2>1, WaitTypes
  <2>3. CallInv'
    BY <1>2, WaitCalls
  <2>4. LogInv'
    BY <1>2, WaitLog
  <2>5. HoldInv' /\ StopInv'
    BY <1>2, WaitHolds, WaitStops
  <2>6. QED  BY <2>1, <2>2, <2>3, <2>4, <2>5
<1>3. ASSUME NEW w \in Workers, WorkerStep(w)
      PROVE  IInv'
  <2>1. CountInv' /\ active_tasks_' \in Nat
    BY <1>3, WorkerCounts DEF CountsSound
  <2>2. TypeOK'
    BY <1>3, <2>1, WorkerTypes
  <2>3. CallInv'
    BY <1>3, WorkerCalls
  <2>4. LogInv'
    BY <1>3, WorkerLog
  <2>5. HoldInv' /\ StopInv'
    BY <1>3, WorkerHolds, WorkerStops
  <2>6. QED  BY <2>1, <2>2, <2>3, <2>4, <2>5
<1>4. CASE Destroy
  BY <1>4, DestroyIInv
<1>5. CASE Finished \/ UNCHANGED vars
  BY <1>5, UnchangedIInv DEF Finished
<1>6. QED
  BY <1>1, <1>2, <1>3, <1>4, <1>5 DEF Next

-----------------------------------------------------------------------------
(***************************************************************************)
(* The theorems                                                            *)
(***************************************************************************)

(* The invariant holds in every state of every execution of the code of    *)
(* threadpool_v2.h.                                                        *)
THEOREM Invariance == Spec => []IInv
  BY InitIInv, NextIInv, PTL DEF Spec

(* The size_t active_tasks_ never wraps below zero (threadpool_v2.h:203),  *)
(* and the rest of the state keeps its shape.                              *)
THEOREM TypeCorrect == Spec => []TypeOK
<1>1. IInv => TypeOK
  BY DEF IInv
<1>2. QED
  BY Invariance, <1>1, PTL

(* Where f is, given the inductive invariant. *)
LEMMA OnePlace ==
  ASSUME IInv, NEW f \in Tasks
  PROVE  /\ Cardinality({n \in (taken + 1)..Len(log) : log[n] = f})
              + Cardinality({w \in Workers : Holds(w, f)})
              + Cardinality(done \cap {f}) <= 1
         /\ ~InLog(f) =>
              Cardinality({n \in (taken + 1)..Len(log) : log[n] = f})
                + Cardinality({w \in Workers : Holds(w, f)})
                + Cardinality(done \cap {f}) <= 0
<1> DEFINE waiting == {n \in (taken + 1)..Len(log) : log[n] = f}
           holders == {w \in Workers : Holds(w, f)}
           ran == done \cap {f}
           a == Cardinality(waiting)
           b == Cardinality(holders)
           c == Cardinality(ran)
<1>1. taken \in Nat /\ Len(log) \in Nat /\ taken <= Len(log)
  BY DEF IInv, TypeOK, HoldInv
<1>2. \A n \in (taken + 1)..Len(log) : n \in 1..Len(log) /\ n \notin 1..taken
  BY <1>1
<1>3. \A n \in 1..taken : n \in 1..Len(log)
  BY <1>1
<1>4. a \in {0, 1} /\ (a = 0 <=> waiting = {})
  <2>1. \A m, n \in waiting : m = n
    BY <1>2 DEF IInv, LogInv, QueuedOnce
  <2>2. QED  BY <2>1, CountAtMostOne
<1>5. b \in {0, 1} /\ (b = 0 <=> holders = {})
  <2>1. \A v, w \in holders : v = w
    BY DEF IInv, HoldInv
  <2>2. QED  BY <2>1, CountAtMostOne
<1>6. c \in {0, 1} /\ (c = 0 <=> ran = {})
  <2>1. \A x, y \in ran : x = y
    OBVIOUS
  <2>2. QED  BY <2>1, CountAtMostOne
<1>7. holders # {} => Taken(f) /\ ran = {}
  BY DEF IInv, HoldInv
<1>8. ran # {} => Taken(f)
  BY DEF IInv, HoldInv
<1>9. Taken(f) => waiting = {}
  <2> SUFFICES ASSUME NEW m \in 1..taken, log[m] = f,
                      NEW n \in (taken + 1)..Len(log), log[n] = f
               PROVE  FALSE
    BY DEF Taken
  <2>1. m = n
    BY <1>2, <1>3 DEF IInv, LogInv, QueuedOnce
  <2>2. QED  BY <1>2, <2>1
<1>10. waiting # {} \/ Taken(f) => InLog(f)
  BY <1>2, <1>3 DEF InLog, Taken
<1>11. a + b + c <= 1
  BY <1>4, <1>5, <1>6, <1>7, <1>8, <1>9
<1>12. ~InLog(f) => a + b + c <= 0
  BY <1>4, <1>5, <1>6, <1>7, <1>8, <1>10
<1>13. QED
  BY <1>11, <1>12

(* The polls of the workers (threadpool_v2.h:194) and the retries of       *)
(* enqueue (threadpool_v2.h:110) leave every task at one place at most,    *)
(* and a task whose enqueue threw at none.                                 *)
THEOREM TasksRunOnce == Spec => []RunsOnce
<1>1. IInv => RunsOnce
  <2> SUFFICES ASSUME IInv, NEW f \in Tasks
               PROVE  Cardinality({n \in (taken + 1)..Len(log) : log[n] = f})
                        + Cardinality({w \in Workers : Holds(w, f)})
                        + Cardinality(done \cap {f})
                      <= IF fate[f] \in {"new", "refused"} THEN 0 ELSE 1
    BY DEF RunsOnce
  <2>1. fate[f] \in {"new", "refused"} => ~InLog(f)
    BY DEF IInv, LogInv, QueuedFate, InLog
  <2>2. QED
    BY <2>1, OnePlace
<1>2. QED
  BY Invariance, <1>1, PTL

(* When ~ThreadPoolV2() has joined the workers (threadpool_v2.h:163),      *)
(* every accepted task has run and the three counters agree.               *)
THEOREM DestructorDrains == Spec => []DrainedOnExit
<1>1. IInv => DrainedOnExit
  <2> SUFFICES ASSUME IInv, Joined
               PROVE  /\ taken = Len(log) /\ active_tasks_ = 0
                      /\ \A f \in Tasks : fate[f] = "accepted" => f \in done
                      /\ total_completed_ = Len(log) /\ total_enqueued_ = Len(log)
    BY DEF DrainedOnExit
  <2>1. taken = Len(log)
    BY DEF IInv, StopInv
  <2>2. \A t \in Threads : pc[t] \in {"idle", "exited"}
    <3>1. \E w \in Workers : pc[w] = "exited"
      BY PoolAssumption DEF Joined
    <3>2. \A c \in Clients : pc[c] = "idle"
      BY <3>1 DEF IInv, StopInv
    <3>3. QED  BY <3>2 DEF Joined, Threads
  <2>3. \A t \in Threads : op[t] \notin {"enqueued", "dequeued"}
    BY <2>2 DEF IInv, CallInv
  <2>4. ActiveWorkers = {} /\ Incomplete = {} /\ Unreturned = {}
    BY <2>2, <2>3
    DEF ActiveWorkers, Incomplete, Unreturned, Counted, InGap, Sent, EnqueuePcs, Threads
  <2>5. /\ active_tasks_ = 0 /\ taken = total_completed_ + 0
        /\ Len(log) = total_enqueued_ + 0
    BY <2>4, FS_EmptySet DEF IInv, CountInv
  <2>6. total_completed_ = Len(log) /\ total_enqueued_ = Len(log)
    <3>1. total_completed_ + 0 = total_completed_ /\ total_enqueued_ + 0 = total_enqueued_
      BY DEF IInv, TypeOK
    <3>2. QED  BY <2>1, <2>5, <3>1
  <2>7. \A f : InLog(f) => f \in done
    <3>1. \A w \in Workers : \A f : ~Holds(w, f)
      BY <2>2, <2>3 DEF Holds, EnqueuePcs, Threads
    <3>2. QED  BY <2>1, <3>1 DEF IInv, HoldInv, InLog
  <2>8. ~InLog(EmptyFn)
    BY <2>7, PoolAssumption DEF IInv, TypeOK
  <2>9. \A f \in Tasks : fate[f] = "accepted" => f \in done
    BY <2>7, <2>8 DEF IInv, LogInv, AcceptedIn
  <2>10. QED  BY <2>1, <2>5, <2>6, <2>9
<1>2. QED
  BY Invariance, <1>1, PTL

(* What a return of wait_all (threadpool_v2.h:130-149) tells its caller:   *)
(* all that was queued before the call has run, but for the tasks in the   *)
(* gap between try_dequeue and ++active_tasks_.                            *)
THEOREM WaitAllUpToTheGap == Spec => WaitAllUpToGap
<1>1. ASSUME IInv, NEW c \in Clients, WaitAllReturns(c)
      PROVE  /\ \A n \in 1..mark[c] :
                  \/ log[n] \in done
                  \/ \E w \in Workers : InGap(w) /\ Holds(w, log[n])
             /\ mark[c] <= total_completed_
                  + Cardinality({w \in Workers : InGap(w) \/ pc[w] = "completed"})
  <2>1. pc[c] = "wait_active" /\ active_tasks_ = 0
    BY <1>1 DEF WaitAllReturns, Goto
  <2>2. mark[c] \in Nat /\ taken \in Nat /\ mark[c] <= taken
    BY <1>1, <2>1 DEF IInv, TypeOK, StopInv
  <2>3. ActiveWorkers = {}
    <3>1. ActiveWorkers \subseteq Workers
      BY DEF ActiveWorkers
    <3>2. IsFiniteSet(ActiveWorkers)
      BY <3>1, FiniteThreads, CountType
    <3>3. QED  BY <1>1, <2>1, <3>2, CountNone DEF IInv, CountInv
  <2>4. \A w \in Workers : \A f : Holds(w, f) => InGap(w)
    BY <2>3 DEF ActiveWorkers, Counted, Holds, InGap
  <2>5. \A n \in 1..mark[c] :
          \/ log[n] \in done
          \/ \E w \in Workers : InGap(w) /\ Holds(w, log[n])
    <3>1. \A n \in 1..mark[c] : n \in 1..taken
      BY <2>2
    <3>2. QED  BY <1>1, <2>4, <3>1 DEF IInv, HoldInv
  <2>6. Incomplete = {w \in Workers : InGap(w) \/ pc[w] = "completed"}
    BY <2>3 DEF ActiveWorkers, Incomplete
  <2>7. taken = total_completed_
                  + Cardinality({w \in Workers : InGap(w) \/ pc[w] = "completed"})
    BY <1>1, <2>6 DEF IInv, CountInv
  <2>8. QED  BY <2>2, <2>5, <2>7
<1>2. IInv /\ [Next]_vars =>
        [\A c \in Clients : WaitAllReturns(c) =>
           /\ \A n \in 1..mark[c] :
                \/ log[n] \in done
                \/ \E w \in Workers : InGap(w) /\ Holds(w, log[n])
           /\ mark[c] <= total_completed_
                + Cardinality({w \in Workers : InGap(w) \/ pc[w] = "completed"})]_vars
  BY <1>1
<1>3. QED
  BY Invariance, <1>2, PTL DEF Spec, WaitAllUpToGap
=============================================================================
