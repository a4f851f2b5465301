---------------------------- MODULE ThreadPoolV3 ----------------------------
(***************************************************************************)
(* ThreadPoolV3 (include/threadpool_v3.h): ThreadPoolV2 with every task    *)
(* wrapped in a lambda that updates metrics, and a wait_all with a second  *)
(* phase that waits for the metrics.                                       *)
(*                                                                         *)
(* The pool underneath is ThreadPoolV2, step by step: P!A is its action A. *)
(* While it is in the body of a task (pc[w] = "body"), the wrapper of that *)
(* task takes its own steps; where[w] is its place in the code of V3.      *)
(* Counters and gauges are atomic; task_latency_ is the number of finished *)
(* calls of observe, whose inside is the module Histogram.  The gauges     *)
(* queue_depth_ and thread_count_ are written and never read by the pool;  *)
(* they are left out.                                                      *)
(***************************************************************************)
EXTENDS Integers, Sequences, FiniteSets

CONSTANTS
  Clients, Workers, Tasks, EmptyFn, Capacity, MaxRetries,
  Nested,           \* as in ThreadPoolV2
  PrivateRegistry   \* whether the constructor was given no registry

ASSUME PoolAssumption ==
  /\ Workers # {} /\ Clients \cap Workers = {}
  /\ IsFiniteSet(Workers) /\ IsFiniteSet(Clients)
  /\ EmptyFn \notin Tasks
  /\ Capacity \in Nat \ {0} /\ MaxRetries \in Nat /\ Nested \in BOOLEAN
ASSUME RegistryAssumption == PrivateRegistry \in BOOLEAN

VARIABLES
  log, taken, op, val, at,                                  \* pool_.queue_
  stop_, active_tasks_, total_enqueued_, total_completed_,  \* pool_
  pc, task, future, retries, head, running, fate, done, mark, terminated,
  tasks_submitted_, tasks_completed_, tasks_failed_,
  active_workers_,   \* the gauge
  task_latency_,     \* observations made
  where,             \* where[t]: the next step of t in the code of V3
  ok,                \* ok[w]: the local variable of the wrapper
  submitted,         \* submitted[c]: the local variable of wait_all
  completed,         \* completed[c]: the first operand of the sum in wait_all
  freed,             \* private_registry_ has been destroyed
  ran,               \* history: the tasks whose callable has returned or thrown
  before             \* history: the tasks accepted when c called wait_all

P == INSTANCE ThreadPoolV2

pool == <<log, taken, op, val, at, stop_, active_tasks_, total_enqueued_,
          total_completed_, pc, task, future, retries, head, running, fate, done,
          mark, terminated>>

metrics == <<tasks_submitted_, tasks_completed_, tasks_failed_, active_workers_,
             task_latency_>>
locals == <<ok, submitted, completed>>
history == <<ran, before>>
vars == <<pool, metrics, where, locals, freed, history>>

Threads == Clients \cup Workers

Move(t, from, to) == where[t] = from /\ where' = [where EXCEPT ![t] = to]

(* The body of a task runs inside fn(). *)
Home(t) == IF t \in Workers THEN "fn" ELSE "idle"

Init ==
  /\ P!Init
  /\ tasks_submitted_ = 0 /\ tasks_completed_ = 0 /\ tasks_failed_ = 0
  /\ active_workers_ = 0 /\ task_latency_ = 0
  /\ where = [t \in Threads |-> "idle"]
  /\ ok = [w \in Workers |-> TRUE]
  /\ submitted = [c \in Clients |-> 0] /\ completed = [c \in Clients |-> 0]
  /\ freed = FALSE
  /\ ran = {} /\ before = [c \in Clients |-> {}]

-----------------------------------------------------------------------------
(***************************************************************************)
(* enqueue(f)                                                              *)
(***************************************************************************)

(* Some task is left for one more call. *)
TaskLeft ==
  Cardinality({t \in Threads : where[t] = "submit"})
    < Cardinality({f \in Tasks : fate[f] = "new"})

(* tasks_submitted_->inc(), before anything is queued *)
Submit(t) ==
  /\ P!MayCall(t) /\ TaskLeft
  /\ Move(t, Home(t), "submit")
  /\ tasks_submitted_' = tasks_submitted_ + 1
  /\ UNCHANGED <<pool, tasks_completed_, tasks_failed_, active_workers_,
                 task_latency_, locals, freed, history>>

(* pool_.enqueue(std::move(wrapper)) *)
PoolEnqueue(t) ==
  /\ P!Enqueue(t)
  /\ Move(t, "submit", "pool_enqueue")
  /\ UNCHANGED <<metrics, locals, freed, history>>

PoolEnqueueSteps(t) ==
  /\ \/ P!TryEnqueue(t) \/ P!TryEnqueueTakesEffect(t)
     \/ P!TryEnqueueTrue(t) \/ P!TryEnqueueFalse(t) \/ P!EnqueueRetries(t)
  /\ UNCHANGED <<metrics, where, locals, freed, history>>

PoolEnqueueReturns(t) ==
  /\ P!EnqueueReturns(t)
  /\ Move(t, "pool_enqueue", Home(t))
  /\ UNCHANGED <<metrics, locals, freed, history>>

(* It throws, and so does enqueue: tasks_submitted_ stays as it is. *)
PoolEnqueueThrows(t) ==
  /\ \/ P!EnqueueOnStopped(t) /\ Move(t, "submit", Home(t))
     \/ P!EnqueueGivesUp(t) /\ Move(t, "pool_enqueue", Home(t))
  /\ UNCHANGED <<metrics, locals, freed, history>>

EnqueueStep(t) ==
  \/ PoolEnqueue(t) \/ PoolEnqueueSteps(t)
  \/ PoolEnqueueReturns(t) \/ PoolEnqueueThrows(t)

-----------------------------------------------------------------------------
(***************************************************************************)
(* The worker of pool_ and the wrapper that it runs                        *)
(***************************************************************************)
PoolWorkerSteps(w) ==
  /\ \/ P!Poll(w) \/ P!PollTakesEffect(w) \/ P!PollGetsTask(w) \/ P!PollGetsNothing(w)
     \/ P!CountActive(w) \/ P!RunEmpty(w) \/ P!UncountActive(w) \/ P!CountCompleted(w)
     \/ P!KeepsGoing(w) \/ P!StopLoadsHead(w) \/ P!StopLoadsTail(w)
  /\ UNCHANGED <<metrics, where, locals, freed, history>>

WrapperBegins(w) ==
  /\ P!Run(w)
  /\ Move(w, "idle", "active_inc")
  /\ UNCHANGED <<metrics, locals, freed, history>>

WrapperActive(w) ==
  /\ Move(w, "active_inc", "fn")
  /\ active_workers_' = active_workers_ + 1
  /\ UNCHANGED <<pool, tasks_submitted_, tasks_completed_, tasks_failed_,
                 task_latency_, locals, freed, history>>

(* fn() returns, or throws. *)
FnReturns(w) ==
  /\ Move(w, "fn", "observe")
  /\ ok' = [ok EXCEPT ![w] = TRUE]
  /\ ran' = ran \cup {running[w]}
  /\ UNCHANGED <<pool, metrics, submitted, completed, freed, before>>

FnThrows(w) ==
  /\ Move(w, "fn", "failed_inc")
  /\ ran' = ran \cup {running[w]}
  /\ UNCHANGED <<pool, metrics, locals, freed, before>>

(* Mutant: a failed task is not counted. *)
MutantFailed(w) ==
  /\ Move(w, "failed_inc", "observe")
  /\ ok' = [ok EXCEPT ![w] = FALSE]
  /\ UNCHANGED <<pool, metrics, submitted, completed, freed, history>>

(* Mutant: the task is taken back from tasks_completed_, where it never was. *)
MutantTakesBack(w) ==
  /\ Move(w, "failed_inc", "observe")
  /\ tasks_failed_' = tasks_failed_ + 1
  /\ tasks_completed_' = tasks_completed_ - 1
  /\ ok' = [ok EXCEPT ![w] = FALSE]
  /\ UNCHANGED <<pool, tasks_submitted_, active_workers_, task_latency_, submitted,
                 completed, freed, history>>

(* tasks_failed_->inc(); ok = false *)
WrapperFailed(w) ==
  /\ Move(w, "failed_inc", "observe")
  /\ tasks_failed_' = tasks_failed_ + 1
  /\ ok' = [ok EXCEPT ![w] = FALSE]
  /\ UNCHANGED <<pool, tasks_submitted_, tasks_completed_, active_workers_,
                 task_latency_, submitted, completed, freed, history>>

(* task_latency_->observe_since(submit_time) *)
WrapperObserves(w) ==
  /\ Move(w, "observe", IF ok[w] THEN "completed_inc" ELSE "active_dec")
  /\ task_latency_' = task_latency_ + 1
  /\ UNCHANGED <<pool, tasks_submitted_, tasks_completed_, tasks_failed_,
                 active_workers_, locals, freed, history>>

WrapperCompleted(w) ==
  /\ Move(w, "completed_inc", "active_dec")
  /\ tasks_completed_' = tasks_completed_ + 1
  /\ UNCHANGED <<pool, tasks_submitted_, tasks_failed_, active_workers_,
                 task_latency_, locals, freed, history>>

(* Mutant: active_workers_->dec() is missing. *)
MutantInactive(w) ==
  /\ Move(w, "active_dec", "end")
  /\ ok' = [ok EXCEPT ![w] = TRUE]
  /\ UNCHANGED <<pool, metrics, submitted, completed, freed, history>>

WrapperInactive(w) ==
  /\ Move(w, "active_dec", "end")
  /\ active_workers_' = active_workers_ - 1
  /\ ok' = [ok EXCEPT ![w] = TRUE]
  /\ UNCHANGED <<pool, tasks_submitted_, tasks_completed_, tasks_failed_,
                 task_latency_, submitted, completed, freed, history>>

WrapperEnds(w) ==
  /\ P!BodyEnds(w)
  /\ Move(w, "end", "idle")
  /\ UNCHANGED <<metrics, locals, freed, history>>

WorkerStep(w) ==
  \/ PoolWorkerSteps(w)
  \/ WrapperBegins(w) \/ WrapperActive(w) \/ FnReturns(w) \/ FnThrows(w)
  \/ WrapperFailed(w) \/ WrapperObserves(w) \/ WrapperCompleted(w)
  \/ WrapperInactive(w) \/ WrapperEnds(w)

-----------------------------------------------------------------------------
(***************************************************************************)
(* wait_all()                                                              *)
(***************************************************************************)

(* Phase 1: pool_.wait_all() *)
WaitAll(c) ==
  /\ P!WaitAll(c)
  /\ Move(c, "idle", "pool_wait_all")
  /\ before' = [before EXCEPT ![c] = {f \in Tasks : fate[f] = "accepted"}]
  /\ UNCHANGED <<metrics, locals, freed, ran>>

PoolWaitSteps(c) ==
  /\ P!WaitAllLoadsHead(c) \/ P!WaitAllLoadsTail(c) \/ P!WaitAllYields(c)
  /\ UNCHANGED <<metrics, where, locals, freed, history>>

PoolWaitReturns(c) ==
  /\ P!WaitAllReturns(c)
  /\ Move(c, "pool_wait_all", "load_submitted")
  /\ UNCHANGED <<metrics, locals, freed, history>>

(* Mutant: phase 2 does not wait. *)
MutantNoPhase2(c) ==
  /\ Move(c, "load_submitted", "set_gauges")
  /\ submitted' = [submitted EXCEPT ![c] = tasks_submitted_]
  /\ UNCHANGED <<pool, metrics, ok, completed, freed, history>>

(* Phase 2: spin until completed + failed reaches submitted *)
LoadSubmitted(c) ==
  /\ Move(c, "load_submitted", "load_completed")
  /\ submitted' = [submitted EXCEPT ![c] = tasks_submitted_]
  /\ UNCHANGED <<pool, metrics, ok, completed, freed, history>>

LoadCompleted(c) ==
  /\ Move(c, "load_completed", "load_failed")
  /\ completed' = [completed EXCEPT ![c] = tasks_completed_]
  /\ UNCHANGED <<pool, metrics, ok, submitted, freed, history>>

LoadFailed(c) ==
  /\ Move(c, "load_failed", IF completed[c] + tasks_failed_ < submitted[c]
                            THEN "load_completed" ELSE "set_gauges")
  /\ UNCHANGED <<pool, metrics, locals, freed, history>>

(* queue_depth_->set(0); active_workers_->set(0); return *)
WaitAllReturns(c) ==
  /\ Move(c, "set_gauges", "idle")
  /\ active_workers_' = 0
  /\ submitted' = [submitted EXCEPT ![c] = 0]
  /\ completed' = [completed EXCEPT ![c] = 0]
  /\ before' = [before EXCEPT ![c] = {}]
  /\ UNCHANGED <<pool, tasks_submitted_, tasks_completed_, tasks_failed_,
                 task_latency_, ok, freed, ran>>

WaitStep(c) ==
  \/ PoolWaitSteps(c) \/ PoolWaitReturns(c)
  \/ LoadSubmitted(c) \/ LoadCompleted(c) \/ LoadFailed(c) \/ WaitAllReturns(c)

-----------------------------------------------------------------------------
(* ~ThreadPoolV3(): the members are destroyed last to first, the private   *)
(* registry before pool_, whose destructor then drains the queue.          *)
Destroy ==
  /\ \A c \in Clients : where[c] = "idle"
  /\ P!Destroy
  /\ freed' = PrivateRegistry
  /\ UNCHANGED <<metrics, where, locals, history>>

Finished == (terminated \/ P!Joined) /\ UNCHANGED vars

Next ==
  \/ /\ ~terminated
     /\ \/ \E t \in Threads : Submit(t) \/ EnqueueStep(t)
        \/ \E c \in Clients : WaitAll(c) \/ WaitStep(c)
        \/ \E w \in Workers : WorkerStep(w)
        \/ Destroy
  \/ Finished

Spec == Init /\ [][Next]_vars

-----------------------------------------------------------------------------
(***************************************************************************)
(* Correctness                                                             *)
(***************************************************************************)
Refused == {f \in Tasks : fate[f] = "refused"}

(* What a wrapper has still to do to the metrics. *)
UpdatesMetrics ==
  {"active_inc", "failed_inc", "observe", "completed_inc", "active_dec"}

(* The shape of the state of V3, on top of that of the pool underneath; in *)
(* particular the uint64_t counters (metrics.h:31) never go below zero.    *)
TypeOK ==
  /\ P!TypeOK
  /\ tasks_submitted_ \in Nat /\ tasks_completed_ \in Nat /\ tasks_failed_ \in Nat
  /\ active_workers_ \in Int /\ task_latency_ \in Nat
  /\ where \in [Threads -> {"idle", "submit", "pool_enqueue", "fn", "end",
                            "pool_wait_all", "load_submitted", "load_completed",
                            "load_failed", "set_gauges"} \cup UpdatesMetrics]
  /\ ok \in [Workers -> BOOLEAN]
  /\ submitted \in [Clients -> Nat] /\ completed \in [Clients -> Nat]
  /\ freed \in BOOLEAN /\ ran \subseteq Tasks
  /\ before \in [Clients -> SUBSET Tasks]

(* Nothing is being submitted, queued or run, whatever the clients are     *)
(* waiting for.                                                            *)
AtRest ==
  /\ taken = Len(log)
  /\ \A t \in Threads : where[t] \notin {"submit", "pool_enqueue"}
  /\ \A w \in Workers : where[w] = "idle" /\ ~P!InGap(w) /\ pc[w] # "run"

(* The pool underneath keeps its promises with the wrappers' steps and the *)
(* failures of tasks in between (threadpool_v3.h:78-104): no task runs     *)
(* twice, none that was refused runs, and the destructor drains.           *)
PoolKeepsPromise == P!RunsOnce /\ P!DrainedOnExit

(* The books balance (threadpool_v3.h:25): never more tasks have finished  *)
(* than were submitted, and whenever the pool is at rest, and so after its *)
(* destructor, every submission was completed, failed or refused, and      *)
(* every task that ran was observed once.  Phase 2 of wait_all             *)
(* (threadpool_v3.h:131) spins until the first two add up, so it ends      *)
(* unless an enqueue was refused, and never ends if one was.               *)
BooksBalance ==
  /\ tasks_completed_ + tasks_failed_ + Cardinality(Refused) <= tasks_submitted_
  /\ AtRest =>
       /\ tasks_submitted_ = tasks_completed_ + tasks_failed_ + Cardinality(Refused)
       /\ task_latency_ = tasks_completed_ + tasks_failed_

(* The workers that a wrapper has counted into the gauge and not yet out.  *)
Inside ==
  {w \in Workers : where[w] \in {"fn", "failed_inc", "observe", "completed_inc",
                                 "active_dec", "submit", "pool_enqueue"}}

(* The gauge never shows more workers than are inside a wrapper, and at    *)
(* most one per worker too few (threadpool_v3.h:79, 102, 136): wait_all    *)
(* may set it to 0 while wrappers still have to decrement it, which leaves *)
(* it too low until the next wait_all, but the error does not add up.      *)
GaugeDriftBounded ==
  Cardinality(Inside) - active_workers_ \in 0..Cardinality(Workers)

(* When wait_all returns and nothing was submitted since it loaded         *)
(* tasks_submitted_, every task accepted before the call has run           *)
(* (threadpool_v3.h:112): phase 2 closes the gap of pool_.wait_all(),      *)
(* which may miss a task that has been dequeued and not counted.           *)
WaitAllWaitsIfAlone ==
  [][\A c \in Clients :
       WaitAllReturns(c) /\ tasks_submitted_ = submitted[c] =>
         before[c] \subseteq ran]_vars

(***************************************************************************)
(* What comments say, and the code does not do.                            *)
(***************************************************************************)

(* threadpool_v3.h:112: "block until every submitted task has fully        *)
(* finished": whatever is submitted meanwhile.                             *)
WaitAllWaits ==
  [][\A c \in Clients : WaitAllReturns(c) => before[c] \subseteq ran]_vars

(* threadpool_v2.h:160: "Drain any remaining tasks (graceful shutdown)":   *)
(* no wrapper that is drained updates metrics that have been destroyed.    *)
RegistryOutlivesTasks ==
  freed => \A w \in Workers : where[w] \notin UpdatesMetrics
=============================================================================
