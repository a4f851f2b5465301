# A verification of lock-free-threadpool in TLA+

This directory specifies the queue, the thread pools, the metrics with their HTTP
endpoint, the wire protocol, and the task server and its clients in TLA+, model-checks
them with TLC on small instances, and proves with TLAPS, for every value of their
constants, every safety property that the runs check: that the queue is a linearizable
FIFO, that the three pools run what they accept exactly once and drain, how far `wait_all`
and the metrics can be trusted, that the framing of the protocol is a reliable channel of
messages, and that the task server owns every connection exactly once and answers every
call with its own answer. Liveness is model-checked.
`PROJECT.json` lists the components, the runs, the definitions and the source lines
they model, the findings, the hazards and the theorems. Line numbers below are those
of the named header.

## 1. Inventory

The library is header-only C++17 under `include/`; `tests/` and `examples/` use it.

| component | file | state | operations | called by |
|---|---|---|---|---|
| LockFreeQueue | `lockfree_queue.h` | ring of slots (`sequence`, `data`), `head_`, `tail_` | `try_enqueue`, `try_dequeue`, `size`, `empty` | ThreadPoolV2 |
| ThreadPoolV2 | `threadpool_v2.h` | the queue, `stop_`, `active_tasks_`, two totals | `enqueue`, `wait_all`, worker loop, destructor | ThreadPoolV3 |
| ThreadPool (V1) | `threadpool.h` | `std::queue`, mutex, two condition variables, `stop_`, `active_tasks_` | the same | examples, tests |
| ThreadPoolV3 | `threadpool_v3.h` | a ThreadPoolV2 and references to metrics | `enqueue`, `wait_all`, metrics of every task | TaskServer |
| Metrics | `metrics.h` | counters, gauges, histograms, registry | `inc`, `set`, `observe`, `serialize` | ThreadPoolV3, MetricsServer |
| MetricsServer | `metrics_server.h` | listening socket, thread | `start`, `stop`, scrape | applications |
| Protocol | `protocol.h` | none: frames over a byte stream | encode, decode, send, receive | server, client |
| TaskServer | `task_server.h` | listening socket, accept thread, pool | `start`, `stop`, handle a connection | applications |
| TaskClient | `task_client.h` | one connection, next id | `connect`, `submit`, `ping`, `disconnect` | applications |

What is hard in each, and what makes it correct:

* **LockFreeQueue.** Any number of threads race through load/compare-and-swap/store
  sequences on positions that may be old when they are used, and the element itself is
  not atomic. Correct means: no data race on an element, nothing lost, duplicated or
  reordered, refusals only for a reason, every call returns.
* **ThreadPoolV2.** A task is for a moment neither in the queue nor in a counter;
  termination is decided from several loads made at different times; `enqueue` retries
  with an argument it has moved from; tasks may submit tasks. Correct means: accepted
  tasks run exactly once, refused ones never, `wait_all` waits, the destructor drains.
* **ThreadPool.** Condition variables with notifications outside the mutex, an atomic
  counter that a predicate depends on and that is changed without the mutex. Correct
  means, besides the above: no lost wakeup.
* **ThreadPoolV3 / Metrics.** Several atomics that together describe one event, updated
  one by one, read by `wait_all` and by scrapes; members destroyed in an order that
  matters. Correct means: the metrics agree with what happened once `wait_all` returns,
  and no metric is used after its registry is gone.
* **Servers, protocol, client.** Partial reads and writes, connections that end inside
  a frame, descriptors closed under a blocked `accept`, connections that each occupy a
  worker, answers matched to requests. Correct means: frames survive any chunking,
  every accepted connection is closed exactly once, `stop` and the destructor return, an
  answer belongs to its request.

`PROJECT.json` lists the hazards line by line with the properties that cover them, or
the reason why none does.

## 2. The modules and the order they were written in

1. `BoundedFifo`: the promise of the queue.
2. `LockFreeQueue`: the queue, one action per shared access; refinement of 1.
3. `LockFreeQueueProofs`: type correctness, slot protocol, absence of data races,
   nothing lost or copied, `size()`, refinement, for every value of the constants.
4. `ThreadPoolV2` composed with 1 (not with 2: the proof of refinement is what allows
   it), nested submissions and back-pressure included.
5. `ThreadPool` with its mutex and condition variables.
6. `ThreadPoolV3` composed with 4: the wrapper around every task, the counters
   `wait_all` compares, the gauge it overwrites, the order of destruction.
7. `MessageChannel`: the promise of the framing, and `Protocol`: `encode`, `send_all`,
   `recv_all` and `recv_message` over a stream of bytes; refinement of the former.
8. `ProtocolProofs`: no buffer is overrun, the ends stay in step, refinement.
9. `Connections`, `TaskServer`, `TaskClient` and their composition `TaskService`, over
   channels of messages (8 is what allows it).
10. `Histogram`: `observe` and the scrape, update by update; `MetricsServer` extends it
    by the thread that serves the page and the peers that ask for it.
11. `CountingLemmas`: cardinalities of sets that change by one element, what a queue holds
    after `Append` and `Tail`, sums over finite sets. All the proofs below need them.
12. `ThreadPoolProofs`, `ThreadPoolV2Proofs`, `ThreadPoolV3Proofs` (which reuses the one
    before through an instance), `MetricsServerProofs` and `TaskServiceProofs`.

What is left: nothing of the plan's safety properties; liveness stays with TLC (section 6).

The violation runs are the documented promises that the code does not keep; there are
few, and each is one defect.

## 3. Modules and how they correspond to the code

### BoundedFifo

An immutable log of accepted items and the number handed out (`taken`). A call is
`Call...`, one step in which it takes effect (`Lin...`), and `Return...`; that makes
successful operations linearizable. A refusal is stated as precisely as the code
allows: `ReturnFalse` when the ring is full *or* a dequeue in progress still holds the
slot that the next enqueue needs; `ReturnNullopt` when nothing is queued *or* an enqueue
in progress has not filled the slot at the head. `at[t]` is the position an operation
in progress has claimed, by which these slots are named.

### LockFreeQueue

`sequence`, `data`, `head_`, `tail_` are the members; `pc`, `pos` and `item` are where
each thread is and its locals `head`/`tail` and `item`; `log` is a history variable that
only the properties read. `try_enqueue` is `CallEnqueue` (call and load of `tail_`), the
load of the slot's sequence number with its three outcomes (`EnqueueSlotReady`,
`EnqueueFull`, `EnqueueBehind`), `EnqueueReload`, the CAS (`EnqueueClaim`,
`EnqueueCasFails`), the write of the data and the release store; `try_dequeue` likewise;
`size()` is its two loads, `empty()` is `size() == 0`.

Memory order. The acquire loads and release stores of `sequence` and the
read-modify-writes see current values. Relaxed loads of `head_`/`tail_` return any value
at most `Staleness` updates old, a failing CAS included, and `SpuriousCas` lets
`compare_exchange_weak` fail for no reason; both are constants, and the theorems hold
for every value of them. Positions are natural numbers: they do not wrap.

Callers pass every item once, so that a duplicate would be noticed. A moved-from or
default element is `NoItem`.

### ThreadPoolV2

EXTENDS nothing of the ring: `Q == INSTANCE BoundedFifo` gives the queue; `head_` is
`taken`, `tail_` is `Len(log)`. Every load or update of an atomic is a step: `empty()`
is two loads, the test of `active_tasks_` a third. A call of `enqueue` is a call of
`try_enqueue` (which consumes the moved `task` whatever it answers: the parameter is by
value), then either the retry branch (`stop_`, `++retries`, `yield`) or
`++total_enqueued_`. A moved-from `std::function` is unspecified by the standard and
empty in the common implementations; the model takes it as empty. Calling an empty one
throws inside the worker, where nothing catches it: `terminated`.

Task bodies may call `enqueue` (`Nested`), before and after `stop_` is set. An exception
of a body ends up in its future and changes no other state, so a body that throws is a
body that ends. The worker's spin, pause, yield and sleep only delay the next poll and
are part of it. The destructor runs when no client is inside a call, as the C++ object
model asks for; it may run while workers are in any state.

`queue_depth`, `active_count` and the other getters only read.

### ThreadPool (V1)

A critical section that touches only what `queue_mutex_` protects is one step.
`wait_all` is not: its predicate reads `active_tasks_`, which workers change without the
mutex, so the client holds the mutex from the evaluation (`WaitAllMustWait`) to the sleep
(`WaitAllSleeps`). A waiter has pc `"asleep"`; `notify_one` wakes any one of them,
`notify_all` all, `SpuriousWakeup` any at any time. `stop_` is a plain `bool` that
`enqueue` reads without the mutex; `Enqueue` and `EnqueueOnStopped` are the two values
such a read can give, at any moment before or after the destructor's store.

### ThreadPoolV3

`P == INSTANCE ThreadPoolV2`: every action of V3 is either an action of the pool
underneath joined with what V3 does at that moment, or a step of V3's own while the
pool stands still. `where[t]` is the place in V3's code: between `tasks_submitted_->inc()`
and the call of `pool_.enqueue`, inside the wrapper (which runs while the pool is in the
task's body), or in either phase of `wait_all`. `task_latency_` is the number of finished
observations; the inside of `observe` is the module Histogram. The destructor is
implicit: members die last to first, so a private registry (`PrivateRegistry`) is freed
before `pool_` is stopped and joined. `queue_depth_` and `thread_count_` are gauges that
the pool writes and never reads, and are left out. A task body ends by returning or by
throwing, freely.

### Protocol and MessageChannel

One direction of a connection. A byte has `Base` values and a word is four bytes, so
that with `Base = 256` these are the code's numbers and with `Base = 2` a length wraps at
16; the header is the nine bytes of the code. `encode` gives the very bytes, with the
length cast to 32 bits (118); `htonl` and `ntohl` are the conversions, not the identity.
`wire` is every byte that `::send` has accepted, `rd` how many `::recv` has returned.
Each `::send` and `::recv` moves any non-empty part of what was asked for (`SendChunk`,
`RecvChunk`), and the connection may end at any point, bytes on their way included
(`ConnectionEnds`). `recv_message` is `recv_all` of the header (`pc = "header"`), the
parsing and the size check (`ParseHeader`, `RejectHeader`), `recv_all` of the payload and
the return (`Deliver`). A caller may go on after a `false`, as `TaskClient` does.

`MessageChannel` is what callers get: messages in order, each once, until the connection
ends (`End`), or until a message that does not fit is refused (`Refuse`); from then on
the receiver reads payload bytes as headers and anything may come (`Noise`).

### Connections, TaskServer, TaskClient, TaskService

`Connections` is the operating system's part: the listening socket, its backlog, and per
connection two queues of messages and who has closed it. A message is its type, its id
and whether it exceeds the limit of `recv_message`; after an oversized one the reader is
in `lost`, the `Noise` of `MessageChannel`. A connection may break whenever somebody uses
it. A `::send` to a peer that is gone either fails or succeeds without effect.

`TaskServer` has three kinds of threads. The owner calls `start`, `stop` (store of
`running_`, exchange of `server_fd_`, `shutdown` and `close`, `join`: four steps) and the
destructor, which ends when `pool_` has drained. The accept thread loads `running_` and
`server_fd_`, calls `accept`, counts the connection as accepted (144) and as active (145)
and calls `pool_.enqueue`, each a step of its own; `accept` may also fail because the
client has given up, and the loop goes on. A worker takes a connection, and goes through
`handle_connection` message by message until the client is gone, a message is none of
the server's, a response cannot be sent, or `running_` is false at the head of the loop;
then it closes (149) and, a step later, counts it out (150). The handler returns a result
of any size or throws.

`pool_` is a bounded queue with workers, as ThreadPoolV2 implements it. A worker in
`try_dequeue` claims a task (`Take`) and holds its slot until it has moved the task out
(`ReleaseSlot`), so `try_enqueue` refuses (`Full`) when the ring is full and also, with
room elsewhere in it, while the slot it needs is held: `BoundedFifo`'s `ReturnFalse`.
The defect of the retry is included (`EnqueueRetries`, `TakeEmptyFn`, `CallEmptyFn`).

`TaskClient` keeps `fd_`, `next_id_` and `connected_` as the code does, so that whatever
an exception leaves behind is there for the next call: `connected_` stays true after a
failed receive, `connect()` on a connected client overwrites `fd_` (`leaked`). `connect()` may throw at any time, whether
or not the server listens. A
connection holds one message each way at most, unless its client goes on calling after
an oversized answer: then requests and answers pile up on it, and `TypeOK` says so.

### Histogram and MetricsServer

A duration is the first bucket it falls into, +Inf included (the bounds are sorted by
the constructor). `observe` is one step per bucket, one for `sum_`, one for `count_`.
`MetricsRegistry::serialize` holds the registry's mutex, so scrapes exclude each other
but not observers; it reads the members in the order of the page, and `page[s]` is what
thread `s` has read.

`MetricsServer` is the owner (`start`, which may throw after it has set `running_`,
`stop` in four steps), the serving thread, and the peers. A peer connects, sends a
request at once or in pieces, hangs up or resets, at any moment; the server calls `recv`
once, so a request of which only a part has arrived gets the 404. The page is serialized
step by step, among the observers and another thread that prints pages (`printer`, as
`examples/server.cpp` does). `server_fd_` is a plain `int`: the loop reads the value
before or after the owner's write. `accept` fails when the socket is closed, and when the
connection at its head was reset before (the `continue` at 141). `send` has no `MSG_NOSIGNAL`; on a connection that
the peer has reset after closing it, the process gets SIGPIPE (`killed`).

### MC modules

`MCLockFreeQueue`, `MCThreadPoolV2` and `MCThreadPoolV3` add the symmetry sets of the
safety runs; `MCThreadPool` only extends, its run checks liveness too. `MCProtocol`,
`MCMetricsServer` and `MCTaskService` give the constants that a configuration cannot
write. Operators called `Mutant...` are the code with one plausible mistake each; no
specification uses them, they show that each property can fail.

## 4. Runs

Twelve runs; those marked *violation* state a sentence of a comment or a test that the
code does not fulfil, and TLC's counterexample is the finding.

| run | instance | what it shows |
|---|---|---|
| `queue_slots` | 2 producers, 2 consumers, 5 items, 2 slots, `Staleness` 2, spurious CAS failures, symmetry | `SlotExclusive` (no data race), `ItemsInPlace`, and the inductive invariant `SlotProtocol`; type correctness is proved |
| `queue_fifo` | 2 producers, 1 consumer, 1 monitor, 3 items, 2 slots, fair | `ImplementsFifo`: refinement of `BoundedFifo`; `SizeNeverUndercounts`; `CallsReturn`, `AcceptedIsTaken` |
| `v2_pool` | 1 client, 1 worker, 4 tasks, nested, 2 slots, 2 retries, fair | `RunsOnce` (refused tasks: never), `DrainedOnExit`, `WaitAllUpToGap`, `AcceptedRuns`, `CallsReturn` (`enqueue`, `wait_all`, the destructor) |
| `v2_retry` | 1 client, 1 worker, 3 tasks | *violation*: a retry queues an empty function |
| `v1_pool` | 2 clients, 2 workers, 3 tasks, nested | `NoLostWakeup` (while a worker sleeps, each waiting task has a notification to come or a worker about to look, and nobody sleeps through the destructor), `DrainedOnExit`, `WaitAllWaits`, `AcceptedRuns`, `ShutdownEnds` |
| `v1_lostwakeup` | 1 client, 1 worker, 1 task | *violation*: `wait_all` sleeps for ever |
| `v3_pool` | 1 client, 2 workers, 3 tasks, nested, 2 slots, 1 retry, symmetry | `BooksBalance`, `GaugeDriftBounded`, `WaitAllWaitsIfAlone`, and `PoolKeepsPromise`: what `v2_pool` checks of safety, with two workers |
| `v3_gap` | 2 clients, 2 workers, 2 tasks | *violation*: `wait_all` returns before its caller's task has run |
| `v3_registry` | 1 client, 2 workers, 1 task, private registry | *violation*: metrics are updated after they were destroyed |
| `protocol` | `Base` 2, `MAX_PAYLOAD` 2, 3 sends of messages with payloads of 2, 3 and 16 bytes, every chunking, the end anywhere, fair | `ImplementsChannel`: refinement of `MessageChannel`; `InStep`; `TypeOK` (no buffer overrun); `EveryMessageArrives` |
| `net` | 2 clients, 1 worker, room for 1 connection in the pool, 2 connections, 2 calls, one start, fair | `OneOwner`, `SurvivesWithinCapacity`, `AnswersMatch`, `CallReturns`, `ShutdownEnds` |
| `metrics_server` | 1 observer, the server and a printing thread, 1 bucket and +Inf, 2 peers, one start, fair | `HistogramExact`, `PageConsistent`, `PageIsFresh`, `NothingLeftBehind`, `StopReturns`, `RequestAnswered` |

What the properties of the networked parts say:

* `ImplementsChannel` (`protocol.h:147-203`): whatever the chunks and wherever the
  connection ends, the receiver gets the messages that were sent, in order, once each,
  a payload of 4 GB or more cut to its length modulo 2^32; a `false` means the end, or
  that the stream is out of step for good.
* `OneOwner` (`task_server.h:136-151`): from the backlog to its close a connection is in
  exactly one place, so it is never served by two workers, closed twice or forgotten,
  except by a pool that has refused it. `conn_active_` is the number of connections
  accepted and not closed, less the one that the accept thread has not counted yet (136
  to 145), plus the closed ones that their workers have not counted out yet (149 to 150):
  a scrape can be off by these and by nothing else, since the difference is tied to threads
  at these lines and does not add up. When the destructor has returned all connections are
  closed and the gauge is zero.
* `SurvivesWithinCapacity` (`:147`): `enqueue` throws into a thread that catches nothing,
  or queues an empty function. Either can happen although the queue has room, because of
  one worker that is slow in `try_dequeue`. What holds is weaker: more connections have
  been accepted in the server's life than the pool has room for, so that handlers,
  messages and failing connections alone never bring the process down.
* `AnswersMatch` (`task_client.h:111-138`): neither `submit` nor `ping` compares ids. The
  answer still belongs to the call, also after failed calls on the same connection: a
  call that fails before its answer has come fails because the connection is gone. The
  one exception is an oversized response, after which the client reads its payload as
  headers.
* `CallReturns`, `ShutdownEnds`: a connection occupies a worker for its lifetime, so
  calls of one client wait until another has disconnected; there is no timeout. They
  hold because clients disconnect in the end, and except after `connect()` on a
  connected client, whose old socket stays open and may keep its worker for ever, or
  after an oversized response.
* `ShutdownEnds`, `StopReturns`: `accept` may be called on a descriptor that `stop` has
  closed, contrary to what the comment at `task_server.h:76-77` suggests ("preventing
  accept_loop() from using a closed fd": the load at 131 comes before the use at 136),
  but `running_` is false by then, so that the failure ends the loop and `join` returns.
* `NothingLeftBehind` (`metrics_server.h:73-93`): the destructor skips `stop()` unless
  `running_`; setting it first in `start` is what makes a `start` that throws harmless.
  And every connection made is waiting, being served or closed.
* `RequestAnswered`, `StopReturns` (`:149-172`): one silent peer blocks the endpoint and
  `stop()` until it speaks or leaves. That is all they wait for.
* `PageIsFresh`, `PageConsistent`: a page counts everything observed before it was asked
  for; its lines disagree by at most one observation per observing thread, and not at
  all if nothing was observed meanwhile.

What the violations show:

* **`v2_retry`.** Queue full, first `try_enqueue(std::move(task))` returns false and has
  destroyed the target; the queue drains; the retry queues an empty `std::function`.
  The caller holds a future, and the worker that calls the function terminates the
  process.
* **`v1_lostwakeup`.** A client evaluates the predicate (one task active), the worker
  decrements `active_tasks_` and notifies before the client is registered as a waiter,
  and no further notification comes. Spurious wakeups may save it; nothing guarantees
  one.
* **`v3_gap`.** `worker_loop` dequeues client 1's task A (`threadpool_v2.h:194`) and has
  not yet incremented `active_tasks_` (198), so phase 1, which is ThreadPoolV2's
  `wait_all`, sees an empty queue and no active task and returns. The comments at
  `threadpool_v2.h:65` and 126 describe the opposite order; `WaitAllUpToGap` is what holds
  there: only tasks in exactly that gap are missed. Phase 2
  loads `tasks_submitted_` (1). Client 2 submits B, and B finishes before A has started:
  `completed + failed` is 1 and `wait_all` returns to client 1. The same happens with one
  client when a task submits a task. `WaitAllWaitsIfAlone` is what holds: without a
  submission after that load, phase 2 does close the gap. `BooksBalance` shows the other
  side of counting: one refused `enqueue` leaves the totals apart for ever, and `wait_all`
  with them.
* **`v3_registry`.** A task is accepted, the pool is destroyed: `private_registry_` goes
  first, then `pool_` drains the queue and the wrapper increments a freed gauge.

Weaker points that need no run of their own:

* nullopt does not mean empty, and false does not mean full: a producer (consumer) that
  has claimed a slot and stalls makes `try_dequeue` (`try_enqueue`) refuse although later
  positions are filled (free); `BoundedFifo` says exactly when, and the pools live with
  it, since a worker leaves only if `empty()`, which counts claimed positions.
* `total_completed()` may be short right after `wait_all`, because line 204 of
  `threadpool_v2.h` comes after line 203, and `tests/test_lockfree_gtest.cpp:142-143` reads
  it there. `WaitAllUpToGap` bounds by how much.
* Four hazards do happen, and their properties bound the damage instead of excluding it:
  a refused `enqueue` of ThreadPoolV3 makes every later `wait_all` hang (`BooksBalance`: the
  totals are apart by exactly the refused calls); its `wait_all` leaves the gauge
  `active_workers_` too low, even negative (`GaugeDriftBounded`: by at most one per worker,
  and never too high); it can return before the latency of a failed task is in the
  histogram (`BooksBalance` holds at rest only); and a refused connection ends the task
  server or is forgotten (`SurvivesWithinCapacity`, `OneOwner`).
* `ping()` "Returns true if server responds with PONG within the connection timeout"
  (`task_client.h:129`); no timeout is ever set.
* A reset peer can end a process that runs a `MetricsServer` by SIGPIPE
  (`metrics_server.h:171`); `protocol.h:150` passes `MSG_NOSIGNAL`.

### Bounds

Two slots are the smallest ring the `static_assert` allows and the one in which laps,
full and empty are closest; five items take a slot into its third lap, so that a
sequence number of each of the four kinds meets a thread from an earlier lap.
Two threads of a kind give every race between two equals; the theorems cover any number
of them, and only the liveness properties rest on two (`queue_fifo`, `v1_pool`). In
`v2_pool` four tasks on two slots and one worker make the worker itself meet the full
queue, and the two retries (1000 in the code) let it fail once, retry and fail for good.
In `v3_pool` three tasks on two workers let a worker's second wrapper meet the gauge
another one and `wait_all` have changed.

In `protocol` three frames of up to twelve bytes are cut in every way, and the three
messages are an ordinary one, one above the limit by one, and one whose length wraps to
0; the theorems cover the rest. In `net` two connections are one more than the worker can
serve and one more than the pool has room for, and `MaxCalls` gives one client two calls,
so that the second meets whatever a failure of the first has left, and the other client
none: it only occupies a worker. The room of one is less than any ring of the code has; it
is what lets the second connection be refused, for either reason. Two workers, which can
be between close and count at the same time, are left to the theorems.

In `metrics_server`, `Loads` bounds observations together with connections, since their
interleavings multiply: three observations without a peer (more than `PageConsistent`
allows a page to be off by), one with one peer (whose page it can tear), none with two
peers (one of which stands in the other's way).
`MaxStarts` is 1: a server that is started again begins in the state of a new one.

Items, tasks, calls, connections and observations are each used once, so
every run is finite without a state constraint. Deadlock is checked for the pools, whose
terminated states have the `Finished` step; in the queue, the protocol and the servers
the callers may stop calling (`CHECK_DEADLOCK FALSE`).

### Fairness

* Queue: weak fairness of the steps inside a call, per thread: the operating system
  does not abandon a runnable thread. No thread has to call. `PollingSpec` adds that
  consumers keep calling, which is what `worker_loop` does. Since items are finite, a
  CAS loop cannot be overtaken for ever; with endless traffic the queue is lock-free
  and not wait-free, and `CallsReturn` is not claimed.
* ThreadPoolV2: weak fairness per thread for workers and for clients inside a call.
* ThreadPool: strong fairness per thread, because a step may need the mutex, which
  others take and release: a thread that finds it free again and again gets it. The
  code uses `std::mutex`, which the usual implementations do not starve; without this
  assumption no program with a mutex has liveness. Nothing is assumed about spurious
  wakeups or about new calls.

* Protocol: a thread inside `send_message` goes on, the network moves bytes, and the
  receiver keeps calling, as `handle_connection` does. Nobody has to send.
* TaskService: weak fairness per thread of the server and per client inside a call, and a
  client that makes no more calls disconnects or is destroyed. Nobody has to stop the
  server, connect or call, and connections need not break.
* MetricsServer: weak fairness of the serving thread, of the owner inside `stop` and of a
  thread inside `serialize`; strong fairness of the server's `Lock`, since others release
  the mutex for seconds between two pages (`examples/server.cpp:76-79`). A peer that has
  connected asks or hangs up in the end; without that, one silent peer stops everything.

## 5. What is proved

`LockFreeQueueProofs` (TLAPS; SMT, Zenon and LS4) proves, for all `Producers`,
`Consumers`, `Monitors`, `Items`, `Capacity`, `Staleness` and `SpuriousCas`:

| theorem | statement |
|---|---|
| `TypeCorrect` | `Spec => []TypeOK` |
| `ProtocolInvariant` | `Spec => []SlotProtocol` |
| `NoDataRace` | `Spec => []SlotExclusive` |
| `RingBounded` | `Spec => []WindowBounded` |
| `NothingLostOrCopied` | `Spec => []ItemsInPlace` |
| `SizeSound` | `Spec => SizeNeverUndercounts` |
| `QueueImplementsFifo` | `Spec => ImplementsFifo` |

Assumptions: `CapacityAssumption` (the `static_assert` `Capacity >= 2`),
`ItemsAssumption`, `MemoryAssumption`. That the capacity is a power of two is used only
for reading `& MASK` as a remainder, not in the proofs. Two is needed: with one
slot, "filled at p" and "free at p + 1" would be the same sequence number.

The argument. `SlotExclusive` and `ItemsInPlace` are not inductive: they say nothing of
threads that have not yet claimed. `SlotProtocol` is. It says that the positions
`head_ .. head_ + Capacity - 1` are in one-to-one correspondence with the slots, that
each is filled, being written, free or still being read, that its sequence number tells
which, that each claimed slot has exactly one claimant, and, the crucial part, that a
position loaded earlier is never ahead of its counter and if the CAS on it can still
succeed the slot is as the thread saw it (`LoadedNotAhead`). The lemmas `IdxInLap` and
`IdxApart` give the arithmetic (a lap visits every slot once); then one lemma per action
that changes shared state, and `LocalStep` for all the others at once. `NoDataRace`
follows because two claimants in the same slot would be two positions of one window less
than a lap apart.

The refinement maps `taken` to `head_`, `op` to how far the call is, `val` to the local
item or, between claim and read, to the content of the claimed slot, and `at` to the
claimed position. It needs `HandsEmpty` (no stale items in idle threads) and two lemmas
on refusals, `RefusalOfEnqueue` and `RefusalOfDequeue`, which rest on `OldSlotMovedOn`:
a thread that looks at the slot of an old position finds a larger sequence number, so
only a position that is current can be refused.

`ProtocolProofs` proves, for every `Base` of at least 2, every `MAX_PAYLOAD` and `MaxSends`
and every set of messages over bytes and words of that base (`ProtocolAssumption`):

| theorem | statement |
|---|---|
| `BuffersNeverOverrun` | `Spec => []TypeOK` |
| `StaysInStep` | `Spec => []InStep` |
| `FramingImplementsChannel` | `Spec => ImplementsChannel` |

The argument. `InStep` says where the receiver is between two frames and says nothing of
the bytes, so it is not inductive. `IInv` adds: the wire and the sender's buffer together
are the frames of what was sent, each at its place (`EndToEnd`, `FramesOnWire`,
`RestInBuf`), or a prefix of them once the connection has ended; what the receiver has
in `got` are the bytes just before `rd` (`ReadFromWire`); and nothing arrives after the
end (`NothingAfterEnd`). Then a full header is the header of the frame at the boundary
(`HeaderRead`), parsing it gives the type, the id and the length that were encoded
(`HeaderParses`, from `WordRoundTrip`: `ntohl` undoes `htonl` for every word), and a full
payload is the payload (`PayloadRead`). There is one lemma per action. `TypeOK` holds
without `InStep`: also a receiver that is out of step never writes past a buffer,
whatever it takes for a length, because the check at 194 comes before the `resize`.

The three pools, for all finite, disjoint sets of clients and workers with at least one
worker, any set of tasks, and for V2 and V3 any `Capacity` of at least one and any number
of retries (`PoolAssumption`), with and without nested submissions. That threads are finite
in number is what lets a counter count them.

| module | theorem | statement |
|---|---|---|
| `ThreadPoolProofs` | `TypeCorrect` | `Spec => []TypeOK` |
| | `NoWakeupIsLost` | `Spec => []NoLostWakeup` |
| | `DestructorDrains` | `Spec => []DrainedOnExit` |
| | `WaitAllIsExact` | `Spec => WaitAllWaits` |
| `ThreadPoolV2Proofs` | `TasksRunOnce` | `Spec => []RunsOnce` |
| | `DestructorDrains` | `Spec => []DrainedOnExit` |
| | `WaitAllUpToTheGap` | `Spec => WaitAllUpToGap` |
| `ThreadPoolV3Proofs` | `TypeCorrect` | `Spec => []TypeOK` |
| | `ImplementsPool` | `Spec => P!Spec` |
| | `PoolPromise` | `Spec => []PoolKeepsPromise` |
| | `BooksAreBalanced` | `Spec => []BooksBalance` |
| | `GaugeErrorBounded` | `Spec => []GaugeDriftBounded` |
| | `AloneWaitAllWaits` | `Spec => WaitAllWaitsIfAlone` |

* *ThreadPool.* `NoLostWakeup` is nearly inductive: a worker falls asleep on an empty
  queue, each push since then adds a task and a notifier, a notification turns a sleeper
  into a worker that will look, and a pop takes away a task and such a worker. The rest of `IInv`
  ties the counter to the workers between the pop and the decrement (`CountInv`), says
  that an accepted task is queued, running or done (`PlaceInv`), and that nobody exits
  before `stop_` and the last to exit leaves an empty queue (`StopInv`).
* *ThreadPoolV2.* A task may be in the queue, in a call of the queue, in the hands of a
  worker that no counter knows of, or done; `RunsOnce` follows only from all of these
  together. `LogInv`: a task is queued by the one call that is about it, at most once,
  and is not in the queue once that call gives up. `HoldInv`: what has left the queue is
  in the hands of exactly one worker or done. `CountInv` says how far `active_tasks_`,
  `total_completed_` and `total_enqueued_` are behind. `StopInv` is the argument for
  leaving the loop: a loaded `head_` is never ahead of `head_`, so a worker that sees it
  equal to `tail_` after `stop_`, when no client calls, sees an empty queue, and
  whatever other workers submit in the meantime they see themselves. `AcceptedIn` and
  `SentIn` have the exception that the retry defect makes: the task, or an empty function.
* *ThreadPoolV3.* Every step is a step of the ThreadPoolV2 underneath or leaves it alone
  (`ImplementsPool`), so the theorems about V2 hold of it (`PoolPromise`) and its inductive
  invariant is a conjunct of V3's. The rest: `PlaceInv`, where V3's code is tells where V2's
  is; `SubmitBook`, `FinishBook`, `LatencyBook`, each counter is the size of a set of tasks;
  `GaugeInv`, the gauge counts the wrappers inside less those there were at its last reset,
  so that its error is the number of the latter, at most one per worker;
  `WaitInv`, what `wait_all` has loaded is not ahead of the counters. `AloneWaitAllWaits`
  then compares sets: as many tasks finished as were submitted, and all of them submitted.

`MetricsServerProofs`, for any number of buckets, any finite set of observers, any set of
scraping threads, any number of peers and restarts (`HistogramAssumption`,
`MetricsServerAssumption`):

| theorem | statement |
|---|---|
| `TypeCorrect` | `Spec => []TypeOK` |
| `ObservationsAreExact` | `Spec => []HistogramExact` |
| `PagesAreConsistent` | `Spec => []PageConsistent` |
| `PagesAreFresh` | `Spec => []PageIsFresh` |
| `NothingIsLeftBehind` | `Spec => []NothingLeftBehind` |

`BucketsInv`, `CountInv` and `SumInv` say of each member which finished calls and which
calls under way it contains. The sums are over finite sets; what they do when one element
joins is proved in `CountingLemmas` by a minimal counterexample, since the prover has no
induction. A page in the making is bounded from above by what the members are now
(`PageBelow`) and from below by what the peer asked to see (`FreshInv`), and while nothing
has been observed it is equal (`QuietInv`). `OwnerInv` lists what is open in each phase of
`start` and `stop`; `PeerInv` that the open connections are those waiting and the one served.

`TaskServiceProofs`, for any finite sets of workers and clients, any capacity of the pool
of at least one, any number of connections, calls per client and restarts
(`TaskServiceAssumption`):

| theorem | statement |
|---|---|
| `TypeCorrect` | `Spec => []TypeOK` |
| `ConnectionsHaveOneOwner` | `Spec => []OneOwner` |
| `ServerSurvives` | `Spec => []SurvivesWithinCapacity` |
| `CallsGetTheirAnswers` | `Spec => AnswersMatch` |

* `PlaceInv`: a connection that has been made is in exactly one spot (backlog, accepted,
  queued, served, closed, dropped), once, and one that has not is in none. Each action that
  moves a connection moves one from one spot to another, or the whole backlog to closed
  (`Relocate`, `MoveOne`).
* `ActiveInv`: the gauge is the number of open connections, plus the workers between close
  and count, less one while the accept thread is between accept and count; a step changes
  one of the three together with the gauge, or two that cancel out (`ActiveStep`). With
  `LifeInv`, what each phase of `start`, `stop` and the destructor leaves behind, these two
  give `OneOwner`.
* `DropInv`: the tasks taken out of the queue, those in it and the one about to be queued
  have been accepted, and a refusal, for whichever of the two reasons, means that they
  are more than the capacity; a dropped task stays visible as an exited process, a retry
  under way, or an empty function in the queue or with a worker.
* `MailInv`: between its send and its receive a call has exactly one trace on its
  connection: the request on its way (`RequestOk`), the worker that has it (`WorkOk`), or
  the answer (`AnswerOk`), all with the id and the kind of the call of the one client that
  has the connection (`ClientInv`), and a client that does not wait has none. It is excused
  on connections that are out of step, closed or broken. `AnswersMatch` is the last of the
  three cases. A step touches one connection (`Untouched`, `MailAt`, `MailOf`), so
  there is one lemma per kind of step about that connection only.

The inductive invariants were themselves checked with TLC on small instances before they
were proved. That showed a mistake: `TypeOK` of TaskService had bounded the messages on a
connection by one, which fails after an oversized answer with three calls and
more; it now names that exception.

## 6. What is only model-checked

Liveness (`CallsReturn`, `AcceptedIsTaken`, `AcceptedRuns`, `ShutdownEnds`, `StopReturns`,
`RequestAnswered`, `EveryMessageArrives`, `CallReturns`): the prover does not treat
fairness and ENABLED. For these the evidence is the instances of section 4. The
counterexamples of the violation runs are, as such, facts about one instance.

## 7. What is not modelled

* The examples and benchmarks only call the components and print.
* Of the metrics: the text format, the registration of metrics, and the counters and
  gauges that the code writes and never reads back: `queue_depth_` and `thread_count_` of
  ThreadPoolV3, `requests_total_`, `request_errors_` and `request_latency_` of TaskServer.
* Of the servers: the text of HTTP responses, the choice of a port, a short `send` of a
  page, the reuse of a closed descriptor's number by another file, a failure of
  `std::thread` in `TaskServer::start`, and two threads that use one TaskClient, which
  nothing but `next_id_` is protected against.
* Of the queue: the wrap-around of positions, which takes 2^64 operations while one
  thread is suspended between a load and its CAS; destruction of a queue with elements in
  it (the implicit destructor runs when no thread uses it); false sharing and padding.
* Memory order outside the queue: `LockFreeQueue` has stale relaxed loads; in all other
  modules the loads and updates of atomics, the relaxed ones included, are taken as
  sequentially consistent and in program order. That the relaxed increment at
  `threadpool_v2.h:198` and the loads of `wait_all` are not seen late or out of order is
  therefore assumed by `WaitAllUpToGap` and what is built on it, and that a scrape reads the
  members of a histogram in the order of the page, and `observe` writes them in its own, by
  `PageConsistent`. Increments are read-modify-writes and never lost under any order, so
  `HistogramExact` and the balances at rest depend on it less.
* Everywhere: allocation failure, thread-creation failure in a pool's constructor, objects
  whose move constructor throws, and calls that race with the destructor of the object
  they are made on, which C++ forbids.
