---------------------------- MODULE ThreadPoolV2 ----------------------------
(***************************************************************************)
(* ThreadPoolV2 (include/threadpool_v2.h): worker threads that poll a      *)
(* LockFreeQueue of std::function objects.                                 *)
(*                                                                         *)
(* The queue is used through its specification BoundedFifo, which          *)
(* LockFreeQueue implements; head_ is taken and tail_ is Len(log).  Every  *)
(* load or update of an atomic member is a step of its own.                *)
(*                                                                         *)
(* The pool is destroyed when no client is inside a call, as C++ asks for; *)
(* a task that is still running may submit more tasks (Nested) even then.  *)
(***************************************************************************)
EXTENDS Integers, Sequences, FiniteSets

CONSTANTS
  Clients,      \* threads outside the pool that call enqueue and wait_all
  Workers,      \* the threads of workers_
  Tasks,        \* the callables passed to enqueue, each at most once
  EmptyFn,      \* a std::function without a target: default or moved-from
  Capacity,     \* QueueCapacity
  MaxRetries,   \* 1000 in the code
  Nested        \* whether task bodies call enqueue

ASSUME PoolAssumption ==
  /\ Workers # {} /\ Clients \cap Workers = {}
  /\ IsFiniteSet(Workers) /\ IsFiniteSet(Clients)
  /\ EmptyFn \notin Tasks
  /\ Capacity \in Nat \ {0} /\ MaxRetries \in Nat /\ Nested \in BOOLEAN

Threads == Clients \cup Workers

VARIABLES
  log, taken, op, val, at,   \* queue_: the variables of BoundedFifo
  stop_, active_tasks_, total_enqueued_, total_completed_,
  pc,           \* pc[t]: the next step of thread t
  task,         \* task[t]: the local std::function of its enqueue call
  future,       \* future[t]: the task its enqueue call is about
  retries,      \* retries[t]: the local variable of its enqueue call
  head,         \* head[t]: the position that empty() has loaded
  running,      \* running[w]: the function object worker w has dequeued
  fate,         \* history: what became of the enqueue call of each task
  done,         \* history: the tasks whose body has run to its end
  mark,         \* history: tail_ when the wait_all of the client was called
  terminated    \* an exception left a thread: std::terminate

queue == <<log, taken, op, val, at>>
counters == <<active_tasks_, total_enqueued_, total_completed_>>
locals == <<task, future, retries, head, running>>
history == <<fate, done, mark>>
vars == <<queue, stop_, counters, pc, locals, history, terminated>>

Q == INSTANCE BoundedFifo WITH Items <- Tasks \cup {EmptyFn}, NoItem <- EmptyFn

(* Where a thread is when it is not inside enqueue or wait_all. *)
Home(t) == IF t \in Workers THEN "body" ELSE "idle"

Goto(t, from, to) == pc[t] = from /\ pc' = [pc EXCEPT ![t] = to]

Init ==
  /\ Q!Init
  /\ stop_ = FALSE
  /\ active_tasks_ = 0 /\ total_enqueued_ = 0 /\ total_completed_ = 0
  /\ pc = [t \in Threads |-> IF t \in Workers THEN "poll" ELSE "idle"]
  /\ task = [t \in Threads |-> EmptyFn]
  /\ future = [t \in Threads |-> EmptyFn]
  /\ retries = [t \in Threads |-> 0]
  /\ head = [t \in Threads |-> 0]
  /\ running = [w \in Workers |-> EmptyFn]
  /\ fate = [f \in Tasks |-> "new"]
  /\ done = {}
  /\ mark = [c \in Clients |-> 0]
  /\ terminated = FALSE

-----------------------------------------------------------------------------
(***************************************************************************)
(* enqueue(f), called by a client, or by the body of a task on a worker    *)
(***************************************************************************)
MayCall(t) == IF t \in Workers THEN Nested ELSE ~stop_

Enqueue(t) ==
  /\ MayCall(t)
  /\ ~stop_
  /\ Goto(t, Home(t), "try")
  /\ \E f \in Tasks :
       /\ fate[f] = "new"
       /\ fate' = [fate EXCEPT ![f] = "submitting"]
       /\ task' = [task EXCEPT ![t] = f]
       /\ future' = [future EXCEPT ![t] = f]
  /\ UNCHANGED <<queue, stop_, counters, retries, head, running, done, mark,
                 terminated>>

(* throw "enqueue on stopped pool"; the packaged_task of the calling body  *)
(* keeps the exception.                                                    *)
EnqueueOnStopped(t) ==
  /\ MayCall(t)
  /\ stop_
  /\ pc[t] = Home(t)
  /\ \E f \in Tasks : fate[f] = "new" /\ fate' = [fate EXCEPT ![f] = "refused"]
  /\ UNCHANGED <<queue, stop_, counters, pc, locals, done, mark, terminated>>

(* try_enqueue(std::move(task)): the parameter takes the target over, so   *)
(* task is empty from here on, whatever try_enqueue returns.               *)
TryEnqueue(t) ==
  /\ pc[t] = "try"
  /\ Q!CallEnqueue(t) /\ val'[t] = task[t]
  /\ task' = [task EXCEPT ![t] = EmptyFn]
  /\ UNCHANGED <<stop_, counters, pc, future, retries, head, running, history,
                 terminated>>

TryEnqueueTakesEffect(t) ==
  /\ Q!LinEnqueue(t)
  /\ UNCHANGED <<stop_, counters, pc, locals, history, terminated>>

TryEnqueueTrue(t) ==
  /\ Q!ReturnTrue(t)
  /\ Goto(t, "try", "count")
  /\ UNCHANGED <<stop_, counters, locals, history, terminated>>

TryEnqueueFalse(t) ==
  /\ Q!ReturnFalse(t)
  /\ Goto(t, "try", "retry")
  /\ UNCHANGED <<stop_, counters, locals, history, terminated>>

(* The call ends, with a future or an exception, and its locals die. *)
Leave(t, from, result) ==
  /\ Goto(t, from, Home(t))
  /\ fate' = [fate EXCEPT ![future[t]] = result]
  /\ future' = [future EXCEPT ![t] = EmptyFn]
  /\ retries' = [retries EXCEPT ![t] = 0]

(* if (stop_) throw; if (++retries > 1000) throw *)
EnqueueGivesUp(t) ==
  /\ stop_ \/ retries[t] + 1 > MaxRetries
  /\ Leave(t, "retry", "refused")
  /\ UNCHANGED <<queue, stop_, counters, task, head, running, done, mark,
                 terminated>>

(* Mutant: ++retries is missing. *)
MutantRetriesForever(t) ==
  /\ ~stop_ /\ Goto(t, "retry", "try")
  /\ UNCHANGED <<queue, stop_, counters, locals, history, terminated>>

EnqueueRetries(t) ==
  /\ ~stop_ /\ retries[t] + 1 <= MaxRetries
  /\ Goto(t, "retry", "try")
  /\ retries' = [retries EXCEPT ![t] = @ + 1]
  /\ UNCHANGED <<queue, stop_, counters, task, future, head, running, history,
                 terminated>>

(* ++total_enqueued_; return future *)
EnqueueReturns(t) ==
  /\ Leave(t, "count", "accepted")
  /\ total_enqueued_' = total_enqueued_ + 1
  /\ UNCHANGED <<queue, stop_, active_tasks_, total_completed_, task, head, running,
                 done, mark, terminated>>

EnqueueStep(t) ==
  \/ TryEnqueue(t) \/ TryEnqueueTakesEffect(t)
  \/ TryEnqueueTrue(t) \/ TryEnqueueFalse(t)
  \/ EnqueueGivesUp(t) \/ EnqueueRetries(t) \/ EnqueueReturns(t)

-----------------------------------------------------------------------------
(***************************************************************************)
(* queue_.empty(): a load of head_, then a load of tail_                   *)
(***************************************************************************)
EmptyLoadsHead(t, from, to) ==
  /\ Goto(t, from, to)
  /\ head' = [head EXCEPT ![t] = taken]
  /\ UNCHANGED <<queue, stop_, counters, task, future, retries, running, fate, done,
                 terminated>>

EmptyLoadsTail(t, from, ifEmpty, ifNot) ==
  /\ Goto(t, from, IF Len(log) > head[t] THEN ifNot ELSE ifEmpty)
  /\ head' = [head EXCEPT ![t] = 0]
  /\ UNCHANGED <<queue, stop_, counters, task, future, retries, running, history,
                 terminated>>

-----------------------------------------------------------------------------
(***************************************************************************)
(* wait_all(): while (!queue_.empty() || active_tasks_ > 0) yield          *)
(***************************************************************************)
WaitAll(c) ==
  /\ MayCall(c)
  /\ EmptyLoadsHead(c, "idle", "wait_tail")
  /\ mark' = [mark EXCEPT ![c] = Len(log)]

WaitAllLoadsHead(c) ==
  /\ EmptyLoadsHead(c, "wait_head", "wait_tail")
  /\ UNCHANGED mark

WaitAllLoadsTail(c) ==
  EmptyLoadsTail(c, "wait_tail", "wait_active", "wait_head")

WaitAllYields(c) ==
  /\ active_tasks_ > 0
  /\ Goto(c, "wait_active", "wait_head")
  /\ UNCHANGED <<queue, stop_, counters, locals, history, terminated>>

(* Mutant: active_tasks_ > 1 in the loop condition. *)
MutantWaitAllOffByOne(c) ==
  /\ active_tasks_ <= 1
  /\ Goto(c, "wait_active", "idle")
  /\ mark' = [mark EXCEPT ![c] = 0]
  /\ UNCHANGED <<queue, stop_, counters, locals, fate, done, terminated>>

WaitAllReturns(c) ==
  /\ active_tasks_ = 0
  /\ Goto(c, "wait_active", "idle")
  /\ mark' = [mark EXCEPT ![c] = 0]
  /\ UNCHANGED <<queue, stop_, counters, locals, fate, done, terminated>>

WaitStep(c) ==
  \/ WaitAllLoadsHead(c) \/ WaitAllLoadsTail(c)
  \/ WaitAllYields(c) \/ WaitAllReturns(c)

-----------------------------------------------------------------------------
(***************************************************************************)
(* worker_loop().  The spinning between two polls only reads the queue and *)
(* ends in the next poll whatever it sees, so it is part of that poll.     *)
(***************************************************************************)
Poll(w) ==
  /\ pc[w] = "poll"
  /\ Q!CallDequeue(w)
  /\ UNCHANGED <<stop_, counters, pc, locals, history, terminated>>

PollTakesEffect(w) ==
  /\ Q!LinDequeue(w)
  /\ UNCHANGED <<stop_, counters, pc, locals, history, terminated>>

PollGetsTask(w) ==
  /\ Q!ReturnItem(w)
  /\ Goto(w, "poll", "got")
  /\ running' = [running EXCEPT ![w] = val[w]]
  /\ UNCHANGED <<stop_, counters, task, future, retries, head, history, terminated>>

PollGetsNothing(w) ==
  /\ Q!ReturnNullopt(w)
  /\ Goto(w, "poll", "stopping")
  /\ UNCHANGED <<stop_, counters, locals, history, terminated>>

CountActive(w) ==
  /\ Goto(w, "got", "run")
  /\ active_tasks_' = active_tasks_ + 1
  /\ UNCHANGED <<queue, stop_, total_enqueued_, total_completed_, locals, history,
                 terminated>>

Run(w) ==
  /\ running[w] # EmptyFn
  /\ Goto(w, "run", "body")
  /\ UNCHANGED <<queue, stop_, counters, locals, history, terminated>>

(* Calling an empty std::function throws std::bad_function_call, and       *)
(* nothing on the worker's stack catches it.                               *)
RunEmpty(w) ==
  /\ running[w] = EmptyFn
  /\ pc[w] = "run"
  /\ terminated' = TRUE
  /\ UNCHANGED <<queue, stop_, counters, pc, locals, history>>

(* Mutant: the task is called a second time. *)
MutantRunsAgain(w) ==
  /\ Goto(w, "body", "run")
  /\ done' = done \cup {running[w]}
  /\ UNCHANGED <<queue, stop_, counters, locals, fate, mark, terminated>>

BodyEnds(w) ==
  /\ Goto(w, "body", "ran")
  /\ done' = done \cup {running[w]}
  /\ UNCHANGED <<queue, stop_, counters, locals, fate, mark, terminated>>

UncountActive(w) ==
  /\ Goto(w, "ran", "completed")
  /\ active_tasks_' = active_tasks_ - 1
  /\ UNCHANGED <<queue, stop_, total_enqueued_, total_completed_, locals, history,
                 terminated>>

CountCompleted(w) ==
  /\ Goto(w, "completed", "poll")
  /\ total_completed_' = total_completed_ + 1
  /\ running' = [running EXCEPT ![w] = EmptyFn]
  /\ UNCHANGED <<queue, stop_, active_tasks_, total_enqueued_, task, future, retries,
                 head, history, terminated>>

(* Mutant: a worker that finds nothing returns. *)
MutantGoesHome(w) ==
  /\ ~stop_
  /\ Goto(w, "stopping", "exited")
  /\ UNCHANGED <<queue, stop_, counters, locals, history, terminated>>

KeepsGoing(w) ==
  /\ ~stop_
  /\ Goto(w, "stopping", "poll")
  /\ UNCHANGED <<queue, stop_, counters, locals, history, terminated>>

(* stop_ is set: return if queue_.empty() *)
StopLoadsHead(w) ==
  /\ stop_
  /\ EmptyLoadsHead(w, "stopping", "stop_tail")
  /\ UNCHANGED mark

(* Mutant: the worker returns without asking queue_.empty(). *)
MutantStopsAtOnce(w) ==
  EmptyLoadsTail(w, "stop_tail", "exited", "exited")

StopLoadsTail(w) ==
  EmptyLoadsTail(w, "stop_tail", "exited", "poll")

WorkerStep(w) ==
  \/ Poll(w) \/ PollTakesEffect(w) \/ PollGetsTask(w) \/ PollGetsNothing(w)
  \/ CountActive(w) \/ Run(w) \/ RunEmpty(w) \/ BodyEnds(w)
  \/ UncountActive(w) \/ CountCompleted(w)
  \/ KeepsGoing(w) \/ StopLoadsHead(w) \/ StopLoadsTail(w)

-----------------------------------------------------------------------------
(* ~ThreadPoolV2(): stop_ is set, then every worker is joined.             *)
Destroy ==
  /\ ~stop_
  /\ \A c \in Clients : pc[c] = "idle"
  /\ stop_' = TRUE
  /\ UNCHANGED <<queue, counters, pc, locals, history, terminated>>

Joined == \A w \in Workers : pc[w] = "exited"

(* The process has ended, or the destructor has returned. *)
Finished == (terminated \/ Joined) /\ UNCHANGED vars

Next ==
  \/ /\ ~terminated
     /\ \/ \E t \in Threads : Enqueue(t) \/ EnqueueOnStopped(t) \/ EnqueueStep(t)
        \/ \E c \in Clients : WaitAll(c) \/ WaitStep(c)
        \/ \E w \in Workers : WorkerStep(w)
        \/ Destroy
  \/ Finished

Spec == Init /\ [][Next]_vars

(* The scheduler runs every thread that is inside a call or a worker loop; *)
(* no client has to make a call.                                           *)
Fairness ==
  /\ \A w \in Workers : WF_vars(~terminated /\ (WorkerStep(w) \/ EnqueueStep(w)))
  /\ \A c \in Clients : WF_vars(~terminated /\ (WaitStep(c) \/ EnqueueStep(c)))
FairSpec == Spec /\ Fairness

-----------------------------------------------------------------------------
(***************************************************************************)
(* Correctness                                                             *)
(***************************************************************************)
Functions == Tasks \cup {EmptyFn}
EnqueuePcs == {"try", "retry", "count"}
ClientPcs == {"idle", "wait_head", "wait_tail", "wait_active"} \cup EnqueuePcs
WorkerPcs ==
  {"poll", "got", "run", "body", "ran", "completed", "stopping", "stop_tail",
   "exited"} \cup EnqueuePcs

(* The shape of the state; in particular the size_t counter active_tasks_  *)
(* (threadpool_v2.h:203) never goes below zero.                            *)
TypeOK ==
  /\ log \in Seq(Functions) /\ taken \in Nat
  /\ op \in [Threads -> {"idle", "enq", "enqueued", "deq", "dequeued"}]
  /\ val \in [Threads -> Functions] /\ at \in [Threads -> Nat]
  /\ stop_ \in BOOLEAN
  /\ active_tasks_ \in Nat /\ total_enqueued_ \in Nat /\ total_completed_ \in Nat
  /\ pc \in [Threads -> ClientPcs \cup WorkerPcs]
  /\ task \in [Threads -> Functions] /\ future \in [Threads -> Functions]
  /\ retries \in [Threads -> 0..MaxRetries] /\ head \in [Threads -> Nat]
  /\ running \in [Workers -> Functions]
  /\ fate \in [Tasks -> {"new", "submitting", "accepted", "refused"}]
  /\ done \subseteq Tasks
  /\ mark \in [Clients -> Nat]
  /\ terminated \in BOOLEAN

(* w holds a task that active_tasks_ counts, and one that it does not count *)
(* yet.                                                                    *)
Counted(w) == pc[w] \in {"run", "body", "ran"} \cup EnqueuePcs
InGap(w) == op[w] = "dequeued" \/ pc[w] = "got"

(* The function object that worker w is committed to run. *)
Holds(w, f) ==
  \/ op[w] = "dequeued" /\ val[w] = f
  \/ pc[w] \in {"got", "run", "body"} \cup EnqueuePcs /\ running[w] = f

(* A task is at one place only: waiting in the queue, in the hands of one  *)
(* worker, or run; whatever the workers' polls (threadpool_v2.h:194) and   *)
(* the retries of enqueue (threadpool_v2.h:110) do.  One whose enqueue     *)
(* threw (threadpool_v2.h:97, 111 and 114) is at none: its caller may      *)
(* submit it again.                                                        *)
RunsOnce ==
  \A f \in Tasks :
    LET waiting == {n \in (taken + 1)..Len(log) : log[n] = f}
        holders == {w \in Workers : Holds(w, f)}
    IN  Cardinality(waiting) + Cardinality(holders) + Cardinality(done \cap {f})
          <= IF fate[f] \in {"new", "refused"} THEN 0 ELSE 1

(* The destructor drains (threadpool_v2.h:160, "Drain any remaining tasks  *)
(* (graceful shutdown)"): when all workers have been joined, everything    *)
(* that was accepted has run, tasks submitted by the last bodies included, *)
(* and the counters agree.                                                 *)
DrainedOnExit ==
  Joined =>
    /\ taken = Len(log) /\ active_tasks_ = 0
    /\ \A f \in Tasks : fate[f] = "accepted" => f \in done
    /\ total_completed_ = Len(log) /\ total_enqueued_ = Len(log)

(* What wait_all really gives (threadpool_v2.h:130-149): when it returns,  *)
(* every task accepted before the call has run, except those a worker has  *)
(* dequeued and not yet counted in active_tasks_; and total_completed_ is  *)
(* short by these and by the workers between lines 203 and 204.            *)
WaitAllUpToGap ==
  [][\A c \in Clients : WaitAllReturns(c) =>
       /\ \A n \in 1..mark[c] :
            \/ log[n] \in done
            \/ \E w \in Workers : InGap(w) /\ Holds(w, log[n])
       /\ mark[c] <= total_completed_
            + Cardinality({w \in Workers : InGap(w) \/ pc[w] = "completed"})]_vars

(* An accepted task is run in the end (threadpool_v2.h:119 returns its     *)
(* future), unless the process terminates.                                 *)
AcceptedRuns ==
  \A f \in Tasks : fate[f] = "accepted" ~> f \in done \/ terminated

(* wait_all returns once nothing more is submitted (threadpool_v2.h:132).  *)
WaitAllEnds ==
  \A c \in Clients :
    pc[c] = "wait_tail" ~> pc[c] \in {"idle"} \cup EnqueuePcs \/ terminated

(* enqueue comes back even when every worker is itself stuck in enqueue on *)
(* a full queue, because the retries are bounded (threadpool_v2.h:113).    *)
EnqueueEnds ==
  \A t \in Threads : pc[t] = "try" ~> pc[t] = Home(t) \/ terminated

(* The destructor returns (threadpool_v2.h:163). *)
ShutdownEnds == stop_ ~> Joined \/ terminated

(* Every call on the pool returns (threadpool_v2.h:113, 132, 163), with a  *)
(* full queue, tasks that submit tasks and a destructor among them.        *)
CallsReturn == WaitAllEnds /\ EnqueueEnds /\ ShutdownEnds

(***************************************************************************)
(* What a comment says, and the code does not do.                          *)
(***************************************************************************)

(* threadpool_v2.h:107: "Spin-retry if queue is temporarily full": what is *)
(* queued for an accepted task is that task.                               *)
RetryKeepsTask ==
  \A f \in Tasks : fate[f] = "accepted" => \E n \in DOMAIN log : log[n] = f
=============================================================================
