--------------------------- MODULE LockFreeQueue ---------------------------
(***************************************************************************)
(* LockFreeQueue<T, Capacity> (include/lockfree_queue.h): a bounded MPMC   *)
(* ring buffer in which every slot has a sequence number of its own.       *)
(*                                                                         *)
(* One action is one access to shared memory together with the local       *)
(* computation up to the next one; a thread can be overtaken between any   *)
(* two of them.  slot.data is not atomic, so its write and its read are    *)
(* steps of their own.                                                     *)
(*                                                                         *)
(* Memory order.  Loads marked acquire and the compare-and-swaps see the   *)
(* current value.  A relaxed load of head_ or tail_ may be satisfied       *)
(* early and return a value up to Staleness updates old (0 on a build      *)
(* that does not reorder loads), and compare_exchange_weak may fail        *)
(* spuriously (SpuriousCas).  Positions are size_t in the code and do not  *)
(* wrap within 2^64 operations; here they are natural numbers.             *)
(***************************************************************************)
EXTENDS Integers, Sequences

CONSTANTS
  Producers,    \* threads that call try_enqueue
  Consumers,    \* threads that call try_dequeue
  Monitors,     \* threads that call size() or empty()
  Items,        \* the values passed to try_enqueue, each at most once
  NoItem,       \* T{}: a default-constructed or moved-from element
  Capacity,     \* number of slots
  Staleness,    \* how many updates a relaxed load may lag behind
  SpuriousCas   \* whether compare_exchange_weak may fail spuriously

(* The static_asserts of the class.  A power of two makes p & MASK the     *)
(* remainder of p by Capacity.                                             *)
ASSUME CapacityAssumption == Capacity \in Nat /\ Capacity >= 2
ASSUME MaskAssumption == \E k \in 1..Capacity : Capacity = 2^k
ASSUME ItemsAssumption == NoItem \notin Items
ASSUME MemoryAssumption == Staleness \in Nat /\ SpuriousCas \in BOOLEAN

Threads == Producers \cup Consumers \cup Monitors

VARIABLES
  sequence,  \* sequence[i]: slots_[i].sequence
  data,      \* data[i]: slots_[i].data
  head_,     \* next position to dequeue
  tail_,     \* next position to enqueue
  pc,        \* pc[t]: the next shared access of thread t
  pos,       \* pos[t]: the local variable head or tail of thread t
  item,      \* item[t]: the local variable item of thread t
  log        \* history: the items in the order in which positions were claimed

vars == <<sequence, data, head_, tail_, pc, pos, item, log>>

Slots == 0..(Capacity - 1)
Idx(p) == p % Capacity

(* The values a relaxed load of an only-growing counter x can return. *)
RelaxedLoad(x) == {v \in 0..x : x - v <= Staleness}

Goto(t, from, to) == pc[t] = from /\ pc' = [pc EXCEPT ![t] = to]

(* The call returns and its local variables die. *)
Return(t, from) ==
  /\ Goto(t, from, "idle")
  /\ item' = [item EXCEPT ![t] = NoItem]
  /\ pos' = [pos EXCEPT ![t] = 0]

(***************************************************************************)
(* LockFreeQueue(): every slot is empty and ready for its first enqueue.   *)
(***************************************************************************)
Init ==
  /\ sequence = [i \in Slots |-> i]
  /\ data = [i \in Slots |-> NoItem]
  /\ head_ = 0
  /\ tail_ = 0
  /\ pc = [t \in Threads |-> "idle"]
  /\ pos = [t \in Threads |-> 0]
  /\ item = [t \in Threads |-> NoItem]
  /\ log = << >>

-----------------------------------------------------------------------------
(***************************************************************************)
(* try_enqueue(item)                                                       *)
(***************************************************************************)

(* An item that no call has accepted or is trying to add: the callers of   *)
(* the model pass every item once, so that a copy would be noticed.        *)
Fresh(v) ==
  /\ \A n \in DOMAIN log : log[n] # v
  /\ \A u \in Producers : item[u] # v

CallEnqueue(t) ==
  /\ Goto(t, "idle", "e_seq")
  /\ \E v \in Items : Fresh(v) /\ item' = [item EXCEPT ![t] = v]
  /\ \E p \in RelaxedLoad(tail_) : pos' = [pos EXCEPT ![t] = p]
  /\ UNCHANGED <<sequence, data, head_, tail_, log>>

(* slot.sequence - tail: what the load of the slot's sequence tells.       *)
EnqueueDiff(t) == sequence[Idx(pos[t])] - pos[t]

EnqueueSlotReady(t) ==
  /\ EnqueueDiff(t) = 0
  /\ Goto(t, "e_seq", "e_cas")
  /\ UNCHANGED <<sequence, data, head_, tail_, pos, item, log>>

(* return false; the by-value parameter dies with the item in it. *)
EnqueueFull(t) ==
  /\ EnqueueDiff(t) < 0
  /\ Return(t, "e_seq")
  /\ UNCHANGED <<sequence, data, head_, tail_, log>>

EnqueueBehind(t) ==
  /\ EnqueueDiff(t) > 0
  /\ Goto(t, "e_seq", "e_reload")
  /\ UNCHANGED <<sequence, data, head_, tail_, pos, item, log>>

(* Mutant: the retry keeps the old local variable tail. *)
MutantNoReload(t) ==
  /\ Goto(t, "e_reload", "e_seq")
  /\ UNCHANGED <<sequence, data, head_, tail_, pos, item, log>>

EnqueueReload(t) ==
  /\ Goto(t, "e_reload", "e_seq")
  /\ \E p \in RelaxedLoad(tail_) : pos' = [pos EXCEPT ![t] = p]
  /\ UNCHANGED <<sequence, data, head_, tail_, item, log>>

(* Mutant: tail_ is stored, not compared first. *)
MutantStoreTail(t) ==
  /\ Goto(t, "e_cas", "e_write")
  /\ tail_' = pos[t] + 1
  /\ log' = Append(log, item[t])
  /\ UNCHANGED <<sequence, data, head_, pos, item>>

(* Mutant: the slot is published before slot.data is written. *)
MutantPublishFirst(t) ==
  /\ tail_ = pos[t]
  /\ Goto(t, "e_cas", "e_write")
  /\ tail_' = tail_ + 1
  /\ log' = Append(log, item[t])
  /\ sequence' = [sequence EXCEPT ![Idx(pos[t])] = pos[t] + 1]
  /\ UNCHANGED <<data, head_, pos, item>>

(* The compare-and-swap on tail_ succeeds: position pos[t] is t's. *)
EnqueueClaim(t) ==
  /\ tail_ = pos[t]
  /\ Goto(t, "e_cas", "e_write")
  /\ tail_' = tail_ + 1
  /\ log' = Append(log, item[t])
  /\ UNCHANGED <<sequence, data, head_, pos, item>>

(* It fails and stores the value it saw in the local variable tail. *)
EnqueueCasFails(t) ==
  /\ tail_ # pos[t] \/ SpuriousCas
  /\ Goto(t, "e_cas", "e_seq")
  /\ \E p \in RelaxedLoad(tail_) : pos' = [pos EXCEPT ![t] = p]
  /\ UNCHANGED <<sequence, data, head_, tail_, item, log>>

EnqueueWrite(t) ==
  /\ Goto(t, "e_write", "e_publish")
  /\ data' = [data EXCEPT ![Idx(pos[t])] = item[t]]
  /\ UNCHANGED <<sequence, head_, tail_, pos, item, log>>

(* Mutant: the sequence number is stored without the + 1. *)
MutantPublishTail(t) ==
  /\ Return(t, "e_publish")
  /\ sequence' = [sequence EXCEPT ![Idx(pos[t])] = pos[t]]
  /\ UNCHANGED <<data, head_, tail_, log>>

(* slot.sequence.store(tail + 1); return true *)
EnqueuePublish(t) ==
  /\ Return(t, "e_publish")
  /\ sequence' = [sequence EXCEPT ![Idx(pos[t])] = pos[t] + 1]
  /\ UNCHANGED <<data, head_, tail_, log>>

-----------------------------------------------------------------------------
(***************************************************************************)
(* try_dequeue()                                                           *)
(***************************************************************************)
CallDequeue(t) ==
  /\ Goto(t, "idle", "d_seq")
  /\ \E p \in RelaxedLoad(head_) : pos' = [pos EXCEPT ![t] = p]
  /\ UNCHANGED <<sequence, data, head_, tail_, item, log>>

DequeueDiff(t) == sequence[Idx(pos[t])] - (pos[t] + 1)

DequeueSlotReady(t) ==
  /\ DequeueDiff(t) = 0
  /\ Goto(t, "d_seq", "d_cas")
  /\ UNCHANGED <<sequence, data, head_, tail_, pos, item, log>>

(* Mutant: a slot that is ready is taken for an empty one. *)
MutantEmptyEarly(t) ==
  /\ DequeueDiff(t) <= 0
  /\ Return(t, "d_seq")
  /\ UNCHANGED <<sequence, data, head_, tail_, log>>

(* return nullopt *)
DequeueEmpty(t) ==
  /\ DequeueDiff(t) < 0
  /\ Return(t, "d_seq")
  /\ UNCHANGED <<sequence, data, head_, tail_, log>>

DequeueBehind(t) ==
  /\ DequeueDiff(t) > 0
  /\ Goto(t, "d_seq", "d_reload")
  /\ UNCHANGED <<sequence, data, head_, tail_, pos, item, log>>

DequeueReload(t) ==
  /\ Goto(t, "d_reload", "d_seq")
  /\ \E p \in RelaxedLoad(head_) : pos' = [pos EXCEPT ![t] = p]
  /\ UNCHANGED <<sequence, data, head_, tail_, item, log>>

DequeueClaim(t) ==
  /\ head_ = pos[t]
  /\ Goto(t, "d_cas", "d_read")
  /\ head_' = head_ + 1
  /\ UNCHANGED <<sequence, data, tail_, pos, item, log>>

DequeueCasFails(t) ==
  /\ head_ # pos[t] \/ SpuriousCas
  /\ Goto(t, "d_cas", "d_seq")
  /\ \E p \in RelaxedLoad(head_) : pos' = [pos EXCEPT ![t] = p]
  /\ UNCHANGED <<sequence, data, head_, tail_, item, log>>

(* T item = std::move(slot.data) *)
DequeueRead(t) ==
  /\ Goto(t, "d_read", "d_release")
  /\ item' = [item EXCEPT ![t] = data[Idx(pos[t])]]
  /\ data' = [data EXCEPT ![Idx(pos[t])] = NoItem]
  /\ UNCHANGED <<sequence, head_, tail_, pos, log>>

(* Mutant: the slot is released for head + MASK, one position too early. *)
MutantReleaseMask(t) ==
  /\ Return(t, "d_release")
  /\ sequence' = [sequence EXCEPT ![Idx(pos[t])] = pos[t] + Capacity - 1]
  /\ UNCHANGED <<data, head_, tail_, log>>

(* slot.sequence.store(head + Capacity); return item *)
DequeueRelease(t) ==
  /\ Return(t, "d_release")
  /\ sequence' = [sequence EXCEPT ![Idx(pos[t])] = pos[t] + Capacity]
  /\ UNCHANGED <<data, head_, tail_, log>>

-----------------------------------------------------------------------------
(***************************************************************************)
(* size(): head_ is loaded first, tail_ second.  empty() is size() = 0.    *)
(* When the call returns, pos[t] holds the number it returns.              *)
(***************************************************************************)
(* Mutant: tail_ is loaded twice. *)
MutantSizeLoadsTail(t) ==
  /\ Goto(t, "idle", "s_tail")
  /\ \E p \in RelaxedLoad(tail_) : pos' = [pos EXCEPT ![t] = p]
  /\ UNCHANGED <<sequence, data, head_, tail_, item, log>>

CallSize(t) ==
  /\ Goto(t, "idle", "s_tail")
  /\ \E p \in RelaxedLoad(head_) : pos' = [pos EXCEPT ![t] = p]
  /\ UNCHANGED <<sequence, data, head_, tail_, item, log>>

SizeLoadTail(t) ==
  /\ Goto(t, "s_tail", "idle")
  /\ \E p \in RelaxedLoad(tail_) :
       pos' = [pos EXCEPT ![t] = IF p > pos[t] THEN p - pos[t] ELSE 0]
  /\ UNCHANGED <<sequence, data, head_, tail_, item, log>>

-----------------------------------------------------------------------------
EnqueueStep(t) ==
  \/ EnqueueSlotReady(t) \/ EnqueueFull(t) \/ EnqueueBehind(t)
  \/ EnqueueReload(t) \/ EnqueueClaim(t) \/ EnqueueCasFails(t)
  \/ EnqueueWrite(t) \/ EnqueuePublish(t)

DequeueStep(t) ==
  \/ DequeueSlotReady(t) \/ DequeueEmpty(t) \/ DequeueBehind(t)
  \/ DequeueReload(t) \/ DequeueClaim(t) \/ DequeueCasFails(t)
  \/ DequeueRead(t) \/ DequeueRelease(t)

(* A step inside a call, as opposed to a decision to make one. *)
CallStep(t) == EnqueueStep(t) \/ DequeueStep(t) \/ SizeLoadTail(t)

Next ==
  \/ \E t \in Producers : CallEnqueue(t) \/ EnqueueStep(t)
  \/ \E t \in Consumers : CallDequeue(t) \/ DequeueStep(t)
  \/ \E t \in Monitors : CallSize(t) \/ SizeLoadTail(t)

Spec == Init /\ [][Next]_vars

(* Every thread inside a call keeps being scheduled; nobody has to call.   *)
Fairness == \A t \in Threads : WF_vars(CallStep(t))
FairSpec == Spec /\ Fairness

(* Consumers that poll, as the workers of ThreadPoolV2 do. *)
PollingSpec == FairSpec /\ \A t \in Consumers : WF_vars(CallDequeue(t))

-----------------------------------------------------------------------------
(***************************************************************************)
(* Correctness                                                             *)
(***************************************************************************)
EnqueuePcs == {"e_seq", "e_reload", "e_cas", "e_write", "e_publish"}
DequeuePcs == {"d_seq", "d_reload", "d_cas", "d_read", "d_release"}

(* The shape of the state: counters are naturals, every slot holds an item *)
(* or nothing, and only an enqueue or a finished read holds an item.       *)
TypeOK ==
  /\ sequence \in [Slots -> Nat]
  /\ data \in [Slots -> Items \cup {NoItem}]
  /\ head_ \in Nat
  /\ tail_ \in Nat
  /\ pc \in [Threads -> {"idle", "s_tail"} \cup EnqueuePcs \cup DequeuePcs]
  /\ pos \in [Threads -> Nat]
  /\ item \in [Threads -> Items \cup {NoItem}]
  /\ log \in Seq(Items)
  /\ \A t \in Threads : pc[t] \in EnqueuePcs => item[t] \in Items

(* t has claimed a position and not yet handed its slot on. *)
Writing(t) == pc[t] \in {"e_write", "e_publish"}
Reading(t) == pc[t] \in {"d_read", "d_release"}

(* No two threads that have claimed a position ever work on the same slot, *)
(* so the unsynchronized slot.data of lockfree_queue.h:116 and :157 is     *)
(* accessed by one thread at a time: there is no data race.                *)
SlotExclusive ==
  \A t, u \in Threads :
    /\ t # u
    /\ Writing(t) \/ Reading(t)
    /\ Writing(u) \/ Reading(u)
    => Idx(pos[t]) # Idx(pos[u])

(* The ring never laps itself: tail_ is never more than Capacity ahead of  *)
(* head_, and head_ never passes tail_, whatever stale positions the CAS   *)
(* loops of lockfree_queue.h:110 and :151 started from.                    *)
WindowBounded == head_ <= tail_ /\ tail_ <= head_ + Capacity

(* What a slot holds is what was accepted at its position: an item that is *)
(* published and not yet claimed sits in its slot (lockfree_queue.h:116),  *)
(* and a consumer that is about to return (lockfree_queue.h:162) holds the *)
(* item accepted at the position it claimed.  Nothing is overwritten,      *)
(* read too early, or read twice.                                          *)
ItemsInPlace ==
  /\ \A p \in head_..(tail_ - 1) :
       sequence[Idx(p)] = p + 1 => data[Idx(p)] = log[p + 1]
  /\ \A t \in Threads : pc[t] = "d_release" => item[t] = log[pos[t] + 1]

(***************************************************************************)
(* The inductive invariant behind the three properties above.  The slots   *)
(* are exactly the positions head_ .. head_ + Capacity - 1, and each is in *)
(* one of four states that its sequence number tells apart:                *)
(*   p < tail_,  sequence = p + 1             filled, waiting              *)
(*   p < tail_,  sequence = p                 claimed by a writer          *)
(*   p >= tail_, sequence = p                 free                         *)
(*   p >= tail_, sequence = p - Capacity + 1  still held by a reader       *)
(***************************************************************************)
FilledOrWriting ==
  \A p \in head_..(tail_ - 1) :
    \/ sequence[Idx(p)] = p + 1 /\ data[Idx(p)] = log[p + 1]
    \/ sequence[Idx(p)] = p /\ \E t \in Threads : Writing(t) /\ pos[t] = p

FreeOrReading ==
  \A p \in tail_..(head_ + Capacity - 1) :
    \/ sequence[Idx(p)] = p
    \/ /\ sequence[Idx(p)] = p - Capacity + 1
       /\ \E t \in Threads : Reading(t) /\ pos[t] = p - Capacity

WriterOwnsSlot ==
  \A t \in Threads : Writing(t) =>
    /\ head_ <= pos[t] /\ pos[t] < tail_
    /\ sequence[Idx(pos[t])] = pos[t]
    /\ pc[t] = "e_write" => item[t] = log[pos[t] + 1]
    /\ pc[t] = "e_publish" => data[Idx(pos[t])] = log[pos[t] + 1]

ReaderOwnsSlot ==
  \A t \in Threads : Reading(t) =>
    /\ tail_ <= pos[t] + Capacity /\ pos[t] < head_
    /\ sequence[Idx(pos[t])] = pos[t] + 1
    /\ pc[t] = "d_read" => data[Idx(pos[t])] = log[pos[t] + 1]
    /\ pc[t] = "d_release" => item[t] = log[pos[t] + 1]

OneClaimant ==
  \A t, u \in Threads :
    /\ (Writing(t) /\ Writing(u)) \/ (Reading(t) /\ Reading(u))
    /\ pos[t] = pos[u]
    => t = u

(* A position loaded earlier may be old, but never ahead; and if the CAS   *)
(* on it can still succeed, the slot is as the thread saw it.              *)
LoadedNotAhead ==
  \A t \in Threads :
    /\ pc[t] \in {"e_seq", "e_reload", "e_cas"} => pos[t] <= tail_
    /\ pc[t] \in {"d_seq", "d_reload", "d_cas", "s_tail"} => pos[t] <= head_
    /\ pc[t] = "e_cas" /\ pos[t] = tail_ => sequence[Idx(pos[t])] = pos[t]
    /\ pc[t] = "d_cas" /\ pos[t] = head_ => sequence[Idx(pos[t])] = pos[t] + 1

(* The slot protocol of lockfree_queue.h: everything above together.       *)
SlotProtocol ==
  /\ WindowBounded /\ Len(log) = tail_
  /\ FilledOrWriting /\ FreeOrReading
  /\ WriterOwnsSlot /\ ReaderOwnsSlot /\ OneClaimant
  /\ LoadedNotAhead

(* Without reordered loads size() never undercounts: the number returned   *)
(* is at least the number of claimed positions when tail_ was loaded, so   *)
(* empty() is true only of a queue that is empty at that moment            *)
(* (lockfree_queue.h:180-186; the shutdown of the pools rests on it).      *)
SizeNeverUndercounts ==
  [][\A t \in Monitors :
       Staleness = 0 /\ SizeLoadTail(t) => pos'[t] >= tail_ - head_]_vars

(* How far a call is, and the item it carries: its local variable or,      *)
(* between the claim and the read, what is in the slot it has claimed; and *)
(* the position it has claimed.                                            *)
CallState ==
  [t \in Threads |->
     CASE pc[t] \in {"e_seq", "e_reload", "e_cas"} -> "enq"
       [] pc[t] \in {"e_write", "e_publish"}       -> "enqueued"
       [] pc[t] \in {"d_seq", "d_reload", "d_cas"} -> "deq"
       [] pc[t] \in {"d_read", "d_release"}        -> "dequeued"
       [] OTHER                                    -> "idle"]
CallItem ==
  [t \in Threads |->
     IF pc[t] = "d_read" THEN data[Idx(pos[t])] ELSE item[t]]
CallPosition ==
  [t \in Threads |-> IF Writing(t) \/ Reading(t) THEN pos[t] ELSE 0]

(* The queue is the FIFO of BoundedFifo: head_ counts what was handed out  *)
(* and an operation takes effect when its CAS succeeds.  size() is         *)
(* invisible.                                                              *)
Fifo == INSTANCE BoundedFifo
  WITH taken <- head_, op <- CallState, val <- CallItem, at <- CallPosition

(* try_enqueue and try_dequeue implement the promise of BoundedFifo. *)
ImplementsFifo == Fifo!Spec

(* Every call returns (lockfree_queue.h:86 and :138, "Never blocks"), when *)
(* every thread keeps running and the number of items is finite.           *)
CallsReturn == \A t \in Threads : pc[t] # "idle" ~> pc[t] = "idle"

(* What was accepted comes out: when consumers keep polling, every claimed *)
(* position is consumed in the end (lockfree_queue.h:140), although a slow *)
(* producer at the head makes the polls in between come back empty.        *)
AcceptedIsTaken == \A n \in 1..Capacity * 2 : Len(log) >= n ~> head_ >= n
=============================================================================
