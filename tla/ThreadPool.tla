----------------------------- MODULE ThreadPool -----------------------------
(***************************************************************************)
(* ThreadPool (include/threadpool.h), the mutex and condition variable     *)
(* version of the pool.                                                    *)
(*                                                                         *)
(* A critical section that only touches what queue_mutex_ protects is one  *)
(* step, taken when the mutex is free.  wait_all is not one: it looks at   *)
(* active_tasks_, which workers change without the mutex, and then goes to *)
(* sleep, so it holds the mutex between two steps.  A thread waiting on a  *)
(* condition variable has pc "asleep"; a notification, or a spurious       *)
(* wakeup, makes it contend for the mutex again.                           *)
(*                                                                         *)
(* The pool is destroyed when no client is inside a call; a task that is   *)
(* still running may submit more tasks (Nested) even then.  stop_ is a     *)
(* plain bool that enqueue reads without the mutex: the read returns the   *)
(* value before or after the destructor's store.                           *)
(***************************************************************************)
EXTENDS Integers, Sequences, FiniteSets

CONSTANTS
  Clients,   \* threads outside the pool that call enqueue and wait_all
  Workers,   \* the threads of workers_
  Tasks,     \* the callables passed to enqueue, each at most once
  NoTask,    \* the local std::function of a worker before it has a task
  Nobody,    \* the owner of a free mutex
  Nested     \* whether task bodies call enqueue

ASSUME PoolAssumption ==
  /\ Workers # {} /\ Clients \cap Workers = {}
  /\ IsFiniteSet(Workers) /\ IsFiniteSet(Clients)
  /\ NoTask \notin Tasks /\ Nobody \notin Clients \cup Workers
  /\ Nested \in BOOLEAN

Threads == Clients \cup Workers

VARIABLES
  queue_mutex_,   \* the thread that holds it between two steps, or Nobody
  tasks_, stop_, active_tasks_,
  pc,             \* pc[t]: the next step of thread t
  task,           \* task[t]: the task that t enqueues
  running,        \* running[w]: the task that worker w has popped
  destructor,     \* how far ~ThreadPool() is
  accepted,       \* history: the tasks that were pushed
  refused,        \* history: the tasks whose enqueue threw
  done            \* history: the tasks whose body has run to its end

history == <<accepted, refused, done>>
vars == <<queue_mutex_, tasks_, stop_, active_tasks_, pc, task, running, destructor,
          history>>

Home(t) == IF t \in Workers THEN "body" ELSE "idle"
Goto(t, from, to) == pc[t] = from /\ pc' = [pc EXCEPT ![t] = to]
MutexFree == queue_mutex_ = Nobody

Init ==
  /\ queue_mutex_ = Nobody
  /\ tasks_ = << >> /\ stop_ = FALSE /\ active_tasks_ = 0
  /\ pc = [t \in Threads |-> IF t \in Workers THEN "loop" ELSE "idle"]
  /\ task = [t \in Threads |-> NoTask]
  /\ running = [w \in Workers |-> NoTask]
  /\ destructor = "not called"
  /\ accepted = {} /\ refused = {} /\ done = {}

-----------------------------------------------------------------------------
(***************************************************************************)
(* enqueue(f), called by a client, or by the body of a task on a worker    *)
(***************************************************************************)
MayCall(t) == IF t \in Workers THEN Nested ELSE destructor = "not called"

New(f) == f \notin accepted \cup refused /\ \A t \in Threads : task[t] # f

(* if (stop_) throw, read without the mutex *)
Enqueue(t) ==
  /\ MayCall(t)
  /\ ~stop_
  /\ Goto(t, Home(t), "push")
  /\ \E f \in Tasks : New(f) /\ task' = [task EXCEPT ![t] = f]
  /\ UNCHANGED <<queue_mutex_, tasks_, stop_, active_tasks_, running, destructor,
                 history>>

EnqueueOnStopped(t) ==
  /\ MayCall(t)
  /\ stop_
  /\ pc[t] = Home(t)
  /\ \E f \in Tasks : New(f) /\ refused' = refused \cup {f}
  /\ UNCHANGED <<queue_mutex_, tasks_, stop_, active_tasks_, pc, task, running,
                 destructor, accepted, done>>

Push(t) ==
  /\ MutexFree
  /\ Goto(t, "push", "notify_one")
  /\ tasks_' = Append(tasks_, task[t])
  /\ accepted' = accepted \cup {task[t]}
  /\ task' = [task EXCEPT ![t] = NoTask]
  /\ UNCHANGED <<queue_mutex_, stop_, active_tasks_, running, destructor, refused,
                 done>>

(* Workers that wait on condition_, clients that wait on                   *)
(* finished_condition_.                                                    *)
Asleep(S) == {t \in S : pc[t] = "asleep"}

(* Mutant: a worker is woken only by the first task of a burst. *)
MutantNotifyFirst(t) ==
  /\ pc[t] = "notify_one"
  /\ IF Asleep(Workers) = {} \/ Len(tasks_) # 1
     THEN pc' = [pc EXCEPT ![t] = Home(t)]
     ELSE \E w \in Asleep(Workers) :
            pc' = [pc EXCEPT ![t] = Home(t), ![w] = "loop"]
  /\ UNCHANGED <<queue_mutex_, tasks_, stop_, active_tasks_, task, running,
                 destructor, history>>

(* Mutant: condition_.notify_one() is missing. *)
MutantNoNotify(t) ==
  /\ Goto(t, "notify_one", Home(t))
  /\ UNCHANGED <<queue_mutex_, tasks_, stop_, active_tasks_, task, running,
                 destructor, history>>

(* condition_.notify_one(); return *)
NotifyOne(t) ==
  /\ pc[t] = "notify_one"
  /\ IF Asleep(Workers) = {}
     THEN pc' = [pc EXCEPT ![t] = Home(t)]
     ELSE \E w \in Asleep(Workers) :
            pc' = [pc EXCEPT ![t] = Home(t), ![w] = "loop"]
  /\ UNCHANGED <<queue_mutex_, tasks_, stop_, active_tasks_, task, running,
                 destructor, history>>

EnqueueStep(t) == Push(t) \/ NotifyOne(t)

-----------------------------------------------------------------------------
(***************************************************************************)
(* wait_all(): wait on finished_condition_ until tasks_.empty() and        *)
(* active_tasks_ == 0                                                      *)
(***************************************************************************)
WaitAll(c) ==
  /\ MayCall(c)
  /\ Goto(c, "idle", "wait")
  /\ UNCHANGED <<queue_mutex_, tasks_, stop_, active_tasks_, task, running,
                 destructor, history>>

(* Mutant: the predicate of wait_all forgets active_tasks_. *)
MutantAllFinished == tasks_ = << >>

AllFinished == tasks_ = << >> /\ active_tasks_ = 0

WaitAllReturns(c) ==
  /\ MutexFree
  /\ AllFinished
  /\ Goto(c, "wait", "idle")
  /\ UNCHANGED <<queue_mutex_, tasks_, stop_, active_tasks_, task, running,
                 destructor, history>>

(* The predicate is false; the mutex is still held. *)
WaitAllMustWait(c) ==
  /\ MutexFree
  /\ ~AllFinished
  /\ Goto(c, "wait", "falling asleep")
  /\ queue_mutex_' = c
  /\ UNCHANGED <<tasks_, stop_, active_tasks_, task, running, destructor, history>>

(* The thread joins the waiters and releases the mutex, atomically. *)
WaitAllSleeps(c) ==
  /\ Goto(c, "falling asleep", "asleep")
  /\ queue_mutex_' = Nobody
  /\ UNCHANGED <<tasks_, stop_, active_tasks_, task, running, destructor, history>>

WaitStep(c) == WaitAllReturns(c) \/ WaitAllMustWait(c) \/ WaitAllSleeps(c)

-----------------------------------------------------------------------------
(***************************************************************************)
(* The loop of a worker                                                    *)
(***************************************************************************)

(* condition_.wait: neither stopping nor a task to run.  tasks_ and stop_  *)
(* cannot change between the predicate and the sleep.                      *)
WorkerSleeps(w) ==
  /\ MutexFree
  /\ ~stop_ /\ tasks_ = << >>
  /\ Goto(w, "loop", "asleep")
  /\ UNCHANGED <<queue_mutex_, tasks_, stop_, active_tasks_, task, running,
                 destructor, history>>

(* Mutant: a worker returns as soon as stop_ is set. *)
MutantExits(w) ==
  /\ MutexFree
  /\ stop_
  /\ Goto(w, "loop", "exited")
  /\ UNCHANGED <<queue_mutex_, tasks_, stop_, active_tasks_, task, running,
                 destructor, history>>

WorkerExits(w) ==
  /\ MutexFree
  /\ stop_ /\ tasks_ = << >>
  /\ Goto(w, "loop", "exited")
  /\ UNCHANGED <<queue_mutex_, tasks_, stop_, active_tasks_, task, running,
                 destructor, history>>

(* Mutant: ++active_tasks_ is missing. *)
MutantPops(w) ==
  /\ MutexFree
  /\ tasks_ # << >>
  /\ Goto(w, "loop", "body")
  /\ running' = [running EXCEPT ![w] = Head(tasks_)]
  /\ tasks_' = Tail(tasks_)
  /\ UNCHANGED <<queue_mutex_, stop_, active_tasks_, task, destructor, history>>

WorkerPops(w) ==
  /\ MutexFree
  /\ tasks_ # << >>
  /\ Goto(w, "loop", "body")
  /\ running' = [running EXCEPT ![w] = Head(tasks_)]
  /\ tasks_' = Tail(tasks_)
  /\ active_tasks_' = active_tasks_ + 1
  /\ UNCHANGED <<queue_mutex_, stop_, task, destructor, history>>

BodyEnds(w) ==
  /\ Goto(w, "body", "ran")
  /\ done' = done \cup {running[w]}
  /\ running' = [running EXCEPT ![w] = NoTask]
  /\ UNCHANGED <<queue_mutex_, tasks_, stop_, active_tasks_, task, destructor,
                 accepted, refused>>

(* --active_tasks_, without the mutex *)
UncountActive(w) ==
  /\ Goto(w, "ran", "notify_all")
  /\ active_tasks_' = active_tasks_ - 1
  /\ UNCHANGED <<queue_mutex_, tasks_, stop_, task, running, destructor, history>>

(* finished_condition_.notify_all(), without the mutex *)
NotifyFinished(w) ==
  /\ pc[w] = "notify_all"
  /\ pc' = [t \in Threads |-> IF t = w THEN "loop"
                              ELSE IF t \in Asleep(Clients) THEN "wait"
                              ELSE pc[t]]
  /\ UNCHANGED <<queue_mutex_, tasks_, stop_, active_tasks_, task, running,
                 destructor, history>>

WorkerStep(w) ==
  \/ WorkerSleeps(w) \/ WorkerExits(w) \/ WorkerPops(w)
  \/ BodyEnds(w) \/ UncountActive(w) \/ NotifyFinished(w)

-----------------------------------------------------------------------------
(***************************************************************************)
(* ~ThreadPool()                                                           *)
(***************************************************************************)
DestructorStops ==
  /\ destructor = "not called"
  /\ \A c \in Clients : pc[c] = "idle"
  /\ MutexFree
  /\ stop_' = TRUE
  /\ destructor' = "notify_all"
  /\ UNCHANGED <<queue_mutex_, tasks_, active_tasks_, pc, task, running, history>>

(* Mutant: notify_one in place of notify_all. *)
MutantDestructorNotifies ==
  /\ destructor = "notify_all"
  /\ destructor' = "join"
  /\ IF Asleep(Workers) = {} THEN UNCHANGED pc
     ELSE \E w \in Asleep(Workers) : pc' = [pc EXCEPT ![w] = "loop"]
  /\ UNCHANGED <<queue_mutex_, tasks_, stop_, active_tasks_, task, running, history>>

DestructorNotifies ==
  /\ destructor = "notify_all"
  /\ destructor' = "join"
  /\ pc' = [t \in Threads |-> IF t \in Asleep(Workers) THEN "loop" ELSE pc[t]]
  /\ UNCHANGED <<queue_mutex_, tasks_, stop_, active_tasks_, task, running, history>>

Joined == destructor = "join" /\ \A w \in Workers : pc[w] = "exited"

-----------------------------------------------------------------------------
(* A condition variable may wake a waiter for no reason. *)
SpuriousWakeup(t) ==
  /\ Goto(t, "asleep", IF t \in Workers THEN "loop" ELSE "wait")
  /\ UNCHANGED <<queue_mutex_, tasks_, stop_, active_tasks_, task, running,
                 destructor, history>>

Finished == Joined /\ UNCHANGED vars

Next ==
  \/ \E t \in Threads : Enqueue(t) \/ EnqueueOnStopped(t) \/ EnqueueStep(t)
  \/ \E c \in Clients : WaitAll(c) \/ WaitStep(c)
  \/ \E w \in Workers : WorkerStep(w)
  \/ DestructorStops \/ DestructorNotifies
  \/ \E t \in Threads : SpuriousWakeup(t)
  \/ Finished

Spec == Init /\ [][Next]_vars

(* The scheduler runs every thread that can run, and a thread that keeps   *)
(* finding the mutex free again gets it.  Nobody has to make a call, and   *)
(* no spurious wakeup has to happen.                                       *)
Fairness ==
  /\ \A w \in Workers : SF_vars(WorkerStep(w) \/ EnqueueStep(w))
  /\ \A c \in Clients : SF_vars(WaitStep(c) \/ EnqueueStep(c))
  /\ WF_vars(DestructorNotifies)
FairSpec == Spec /\ Fairness

-----------------------------------------------------------------------------
(***************************************************************************)
(* Correctness                                                             *)
(***************************************************************************)

(* The shape of the state; in particular the size_t counter active_tasks_  *)
(* (threadpool.h:75) never goes below zero.                                *)
TypeOK ==
  /\ queue_mutex_ \in Clients \cup {Nobody}
  /\ tasks_ \in Seq(Tasks) /\ stop_ \in BOOLEAN /\ active_tasks_ \in Nat
  /\ pc \in [Threads -> {"idle", "push", "notify_one", "wait", "falling asleep",
                         "asleep", "loop", "body", "ran", "notify_all", "exited"}]
  /\ task \in [Threads -> Tasks \cup {NoTask}]
  /\ running \in [Workers -> Tasks \cup {NoTask}]
  /\ destructor \in {"not called", "notify_all", "join"}
  /\ accepted \subseteq Tasks /\ refused \subseteq Tasks /\ done \subseteq Tasks

(* No task is stranded (threadpool.h:118, "Wake one sleeping worker"):     *)
(* while any worker sleeps there is for every waiting task a notification  *)
(* still to come, or a worker that is on its way to the queue, so no task  *)
(* has to wait for a busy worker.  And that although notify_one is called  *)
(* after the mutex has been released, when other workers may have taken    *)
(* the task.                                                               *)
NoStrandedTask ==
  Asleep(Workers) # {} =>
    Len(tasks_) <= Cardinality({t \in Threads : pc[t] = "notify_one"})
                   + Cardinality({w \in Workers : pc[w] = "loop"})

(* A worker never sleeps through the shutdown (threadpool.h:163, "Wake ALL *)
(* workers so they can see stop_ == true and exit"): once the destructor   *)
(* joins, nobody waits on condition_ any more.                             *)
NoSleeperAtJoin == destructor = "join" => Asleep(Workers) = {}

(* No worker sleeps while it is needed (threadpool.h:118, 163): neither    *)
(* with tasks waiting nor with the destructor waiting for it.              *)
NoLostWakeup == NoStrandedTask /\ NoSleeperAtJoin

(* The destructor drains the queue (threadpool.h:153): when the workers    *)
(* have been joined, everything accepted has run, tasks pushed by a last   *)
(* body after stop_ was set included.                                      *)
DrainedOnExit ==
  Joined => tasks_ = << >> /\ active_tasks_ = 0 /\ accepted = done

(* wait_all returns only when everything that was accepted has run         *)
(* (threadpool.h:124), because a worker counts a task in the same critical *)
(* section in which it pops it.                                            *)
WaitAllWaits ==
  [][\A c \in Clients : WaitAllReturns(c) => accepted = done]_vars

(* Every accepted task is run (threadpool.h:120 returns its future).       *)
AcceptedRuns == \A f \in Tasks : f \in accepted ~> f \in done

(* The destructor returns (threadpool.h:166). *)
ShutdownEnds == stop_ ~> Joined

(***************************************************************************)
(* What a comment says, and the code does not do.                          *)
(***************************************************************************)

(* threadpool.h:77: "Signal anyone waiting on wait_all()": a client in     *)
(* wait_all comes back when all tasks have finished.                       *)
WaitAllEnds == \A c \in Clients : pc[c] = "wait" ~> pc[c] = "idle"
=============================================================================
