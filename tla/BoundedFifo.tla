---------------------------- MODULE BoundedFifo ----------------------------
(***************************************************************************)
(* What LockFreeQueue<T, Capacity> promises its callers, without slots,    *)
(* sequence numbers or CAS loops.                                          *)
(*                                                                         *)
(* The queue is immutable: log holds every item ever accepted, in the      *)
(* order of acceptance, and taken counts the ones already handed out.  An  *)
(* operation takes effect in one step (LinEnqueue, LinDequeue) between its *)
(* call and its return, so the module says the queue is a linearizable     *)
(* FIFO for every operation that succeeds.                                 *)
(*                                                                         *)
(* A refusal is weaker.  Position p of the log lives in the slot that      *)
(* position p - Capacity has used before, so the queue may answer "full"   *)
(* while the dequeue that claimed that earlier position is under way, and  *)
(* "empty" while the enqueue that claimed the oldest position is.          *)
(***************************************************************************)
EXTENDS Integers, Sequences

CONSTANTS
  Threads,   \* the threads that call the queue
  Items,     \* the values of type T
  NoItem,    \* an empty local variable of type T
  Capacity   \* the number of slots

VARIABLES
  log,       \* every item accepted so far, oldest first
  taken,     \* how many of them have been handed out
  op,        \* op[t]: where thread t is in its current call
  val,       \* val[t]: the item thread t is adding or has been given
  at         \* at[t]: the position, from 0, that its call has claimed

vars == <<log, taken, op, val, at>>

Init ==
  /\ log = << >>
  /\ taken = 0
  /\ op = [t \in Threads |-> "idle"]
  /\ val = [t \in Threads |-> NoItem]
  /\ at = [t \in Threads |-> 0]

Step(t, from, to, v, p) ==
  /\ op[t] = from
  /\ op' = [op EXCEPT ![t] = to]
  /\ val' = [val EXCEPT ![t] = v]
  /\ at' = [at EXCEPT ![t] = p]

CallEnqueue(t) ==
  /\ \E v \in Items : Step(t, "idle", "enq", v, 0)
  /\ UNCHANGED <<log, taken>>

LinEnqueue(t) ==
  /\ Len(log) - taken < Capacity
  /\ Step(t, "enq", "enqueued", val[t], Len(log))
  /\ log' = Append(log, val[t])
  /\ UNCHANGED taken

(* try_enqueue returns true. *)
ReturnTrue(t) ==
  /\ Step(t, "enqueued", "idle", NoItem, 0)
  /\ UNCHANGED <<log, taken>>

(* try_enqueue returns false: the ring is full, or a dequeue under way     *)
(* still holds the slot this enqueue needs.                                *)
ReturnFalse(t) ==
  /\ \/ Len(log) - taken = Capacity
     \/ \E u \in Threads : op[u] = "dequeued" /\ at[u] = Len(log) - Capacity
  /\ Step(t, "enq", "idle", NoItem, 0)
  /\ UNCHANGED <<log, taken>>

CallDequeue(t) ==
  /\ Step(t, "idle", "deq", NoItem, 0)
  /\ UNCHANGED <<log, taken>>

LinDequeue(t) ==
  /\ taken < Len(log)
  /\ Step(t, "deq", "dequeued", log[taken + 1], taken)
  /\ taken' = taken + 1
  /\ UNCHANGED log

(* try_dequeue returns val[t]. *)
ReturnItem(t) ==
  /\ Step(t, "dequeued", "idle", NoItem, 0)
  /\ UNCHANGED <<log, taken>>

(* try_dequeue returns nullopt: nothing is queued, or an enqueue under way *)
(* has not yet filled the slot this dequeue needs.                         *)
ReturnNullopt(t) ==
  /\ \/ taken = Len(log)
     \/ \E u \in Threads : op[u] = "enqueued" /\ at[u] = taken
  /\ Step(t, "deq", "idle", NoItem, 0)
  /\ UNCHANGED <<log, taken>>

Next ==
  \E t \in Threads :
    \/ CallEnqueue(t) \/ LinEnqueue(t) \/ ReturnTrue(t) \/ ReturnFalse(t)
    \/ CallDequeue(t) \/ LinDequeue(t) \/ ReturnItem(t) \/ ReturnNullopt(t)

Spec == Init /\ [][Next]_vars
=============================================================================
