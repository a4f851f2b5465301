------------------------ MODULE LockFreeQueueProofs ------------------------
(***************************************************************************)
(* Proofs about LockFreeQueue, for every number of threads and items and   *)
(* for every capacity of at least two.                                     *)
(***************************************************************************)
EXTENDS LockFreeQueue, TLAPS

-----------------------------------------------------------------------------
(***************************************************************************)
(* Positions and slots                                                     *)
(***************************************************************************)

(* The slot slots_[p & MASK] of a position exists. *)
LEMMA IdxInSlots == \A p \in Nat : Idx(p) \in Slots
  BY CapacityAssumption DEF Idx, Slots

(* Positions a number of laps apart share a slot. *)
LEMMA IdxLaps ==
  ASSUME NEW p \in Nat, NEW n \in Nat
  PROVE  Idx(p + Capacity * n) = Idx(p)
<1> DEFINE q == p + Capacity * n
           a == p \div Capacity
           b == q \div Capacity
<1>1. q \in Nat
  BY CapacityAssumption
<1> HIDE DEF q
<1>2. /\ a \in Int /\ b \in Int
      /\ p = Capacity * a + Idx(p)
      /\ q = Capacity * b + Idx(q)
  BY <1>1, CapacityAssumption DEF Idx
<1>3. /\ Idx(p) \in Int /\ 0 <= Idx(p) /\ Idx(p) < Capacity
      /\ Idx(q) \in Int /\ 0 <= Idx(q) /\ Idx(q) < Capacity
  BY <1>1, IdxInSlots, CapacityAssumption DEF Slots
<1> HIDE DEF a, b
<1> DEFINE d == b - a - n
<1>4. d \in Int /\ Capacity * d = Idx(p) - Idx(q)
  <2>1. Capacity * (b - a - n) = Capacity * b - Capacity * a - Capacity * n
    BY <1>2, CapacityAssumption
  <2>2. q = p + Capacity * n /\ Capacity * n \in Int
    BY CapacityAssumption DEF q
  <2>3. QED  BY <2>1, <2>2, <1>2, <1>3, CapacityAssumption
<1> HIDE DEF d
<1>5. d < 1
  <2>1. SUFFICES ASSUME d >= 1 PROVE FALSE
    BY <1>4
  <2>2. Capacity * d >= Capacity
    BY <2>1, <1>4, CapacityAssumption
  <2>3. QED  BY <2>2, <1>3, <1>4, CapacityAssumption
<1>6. d > -1
  <2>1. SUFFICES ASSUME d <= -1 PROVE FALSE
    BY <1>4
  <2>2. Capacity * d <= -Capacity
    BY <2>1, <1>4, CapacityAssumption
  <2>3. QED  BY <2>2, <1>3, <1>4, CapacityAssumption
<1>7. d = 0
  BY <1>4, <1>5, <1>6
<1>8. QED
  BY <1>3, <1>4, <1>7, CapacityAssumption DEF q

(* A position and the one a lap later share a slot. *)
LEMMA IdxNextLap ==
  ASSUME NEW p \in Nat
  PROVE  Idx(p + Capacity) = Idx(p)
<1>1. Capacity * 1 = Capacity
  BY CapacityAssumption
<1>2. QED  BY <1>1, IdxLaps

(* Every slot is the slot of a position of the lap that starts at h. *)
LEMMA IdxInLap ==
  ASSUME NEW p \in Nat, NEW h \in Nat, p < h
  PROVE  \E q \in h..(h + Capacity - 1) : p + Capacity <= q /\ Idx(q) = Idx(p)
<1> DEFINE k == (h - p + Capacity - 1) \div Capacity
           q == p + Capacity * k
<1>1. /\ k \in Int
      /\ Capacity * k <= h - p + Capacity - 1
      /\ h - p <= Capacity * k
  BY CapacityAssumption
<1> HIDE DEF k
<1>2. k >= 1
  <2>1. SUFFICES ASSUME k <= 0 PROVE FALSE
    BY <1>1
  <2>2. Capacity * k <= 0
    BY <2>1, <1>1, CapacityAssumption
  <2>3. Capacity * k \in Int
    BY <1>1, CapacityAssumption
  <2>4. QED  BY <2>2, <2>3, <1>1
<1>3. Capacity * k \in Int /\ Capacity * k >= Capacity
  BY <1>1, <1>2, CapacityAssumption
<1>4. q \in h..(h + Capacity - 1) /\ p + Capacity <= q
  BY <1>1, <1>3, CapacityAssumption
<1>5. Idx(q) = Idx(p)
  BY <1>1, <1>2, IdxLaps
<1>6. QED  BY <1>4, <1>5

(* Two positions less than two laps apart share a slot only when they are  *)
(* one lap apart.                                                          *)
LEMMA IdxApart ==
  ASSUME NEW p \in Nat, NEW q \in Nat,
         p < q, q < p + 2 * Capacity, Idx(p) = Idx(q)
  PROVE  q = p + Capacity
<1> DEFINE a == p \div Capacity
           b == q \div Capacity
<1>1. /\ a \in Int /\ b \in Int
      /\ p = Capacity * a + Idx(p)
      /\ q = Capacity * b + Idx(q)
  BY CapacityAssumption DEF Idx
<1>2. q - p = Capacity * (b - a)
  BY <1>1, CapacityAssumption, IdxInSlots DEF Slots
<1>3. b - a >= 1
  <2>1. SUFFICES ASSUME b - a <= 0 PROVE FALSE
    BY <1>1
  <2>2. Capacity * (b - a) <= 0
    BY <2>1, <1>1, CapacityAssumption
  <2>3. QED  BY <2>2, <1>2
<1>4. b - a <= 1
  <2>1. SUFFICES ASSUME b - a >= 2 PROVE FALSE
    BY <1>1
  <2>2. Capacity * (b - a) >= 2 * Capacity
    BY <2>1, <1>1, CapacityAssumption
  <2>3. QED  BY <2>2, <1>2, CapacityAssumption
<1>5. b - a = 1
  BY <1>1, <1>3, <1>4
<1>6. QED
  BY <1>2, <1>5, CapacityAssumption

-----------------------------------------------------------------------------
(***************************************************************************)
(* Types                                                                   *)
(***************************************************************************)

(* A relaxed load returns a position, never one ahead of the counter. *)
LEMMA RelaxedLoadBound ==
  \A x \in Nat : \A v \in RelaxedLoad(x) : v \in Nat /\ v <= x
  BY DEF RelaxedLoad

USE DEF EnqueuePcs, DequeuePcs

\* A freshly constructed ring is well typed.
LEMMA TypeInit == Init => TypeOK
  BY CapacityAssumption DEF Init, TypeOK, Slots

(* A thread that moves on keeps the types when what it writes has them. *)
LEMMA TypesKept ==
  ASSUME TypeOK, NEW t \in Threads,
         NEW to \in {"idle", "s_tail"} \cup EnqueuePcs \cup DequeuePcs,
         pc' = [pc EXCEPT ![t] = to],
         sequence' \in [Slots -> Nat], data' \in [Slots -> Items \cup {NoItem}],
         head_' \in Nat, tail_' \in Nat, pos' \in [Threads -> Nat],
         item' \in [Threads -> Items \cup {NoItem}], log' \in Seq(Items),
         \A u \in Threads \ {t} : item'[u] = item[u],
         to \in EnqueuePcs => item'[t] \in Items
  PROVE  TypeOK'
<1> HIDE DEF EnqueuePcs, DequeuePcs
<1>1. pc \in [Threads -> {"idle", "s_tail"} \cup EnqueuePcs \cup DequeuePcs]
  BY DEF TypeOK
<1>2. pc' \in [Threads -> {"idle", "s_tail"} \cup EnqueuePcs \cup DequeuePcs]
  BY <1>1
<1>3. pc'[t] = to /\ \A u \in Threads \ {t} : pc'[u] = pc[u]
  BY <1>1
<1>4. \A u \in Threads : pc'[u] \in EnqueuePcs => item'[u] \in Items
  BY <1>3 DEF TypeOK
<1>5. QED  BY <1>2, <1>4 DEF TypeOK

(* The steps of try_enqueue keep the types. *)
LEMMA EnqueueTypes ==
  ASSUME TypeOK, NEW t \in Threads, CallEnqueue(t) \/ EnqueueStep(t)
  PROVE  TypeOK'
<1> USE RelaxedLoadBound, IdxInSlots DEF TypeOK, Goto, Return
<1>1. CASE CallEnqueue(t)       BY <1>1 DEF CallEnqueue
<1>2. CASE EnqueueSlotReady(t)  BY <1>2 DEF EnqueueSlotReady
<1>3. CASE EnqueueFull(t)       BY <1>3 DEF EnqueueFull
<1>4. CASE EnqueueBehind(t)     BY <1>4 DEF EnqueueBehind
<1>5. CASE EnqueueReload(t)     BY <1>5 DEF EnqueueReload
<1>6. CASE EnqueueClaim(t)
  <2>1. item[t] \in Items
    BY <1>6 DEF EnqueueClaim
  <2>2. log' \in Seq(Items)
    BY <1>6, <2>1 DEF EnqueueClaim
  <2>3. UNCHANGED <<sequence, data, head_, pos, item>>
    BY <1>6 DEF EnqueueClaim
  <2>4. tail_' = tail_ + 1
    BY <1>6 DEF EnqueueClaim
  <2>5. pc' = [pc EXCEPT ![t] = "e_write"]
    BY <1>6 DEF EnqueueClaim
  <2>6. /\ sequence \in [Slots -> Nat] /\ data \in [Slots -> Items \cup {NoItem}]
        /\ head_ \in Nat /\ tail_ + 1 \in Nat /\ pos \in [Threads -> Nat]
        /\ item \in [Threads -> Items \cup {NoItem}]
    OBVIOUS
  <2> HIDE DEF TypeOK, Goto, Return
  <2>7. QED  BY <2>1, <2>2, <2>3, <2>4, <2>5, <2>6, TypesKept
<1>7. CASE EnqueueCasFails(t)   BY <1>7 DEF EnqueueCasFails
<1>8. CASE EnqueueWrite(t)      BY <1>8 DEF EnqueueWrite
<1>9. CASE EnqueuePublish(t)
  <2>1. /\ sequence' = [sequence EXCEPT ![Idx(pos[t])] = pos[t] + 1]
        /\ pc' = [pc EXCEPT ![t] = "idle"] /\ UNCHANGED <<data, head_, tail_, log>>
        /\ item' = [item EXCEPT ![t] = NoItem] /\ pos' = [pos EXCEPT ![t] = 0]
    BY <1>9 DEF EnqueuePublish
  <2>2. /\ Idx(pos[t]) \in Slots /\ pos[t] + 1 \in Nat
        /\ item' \in [Threads -> Items \cup {NoItem}] /\ pos' \in [Threads -> Nat]
        /\ \A u \in Threads \ {t} : item'[u] = item[u]
    <3>1. pos[t] \in Nat /\ item \in [Threads -> Items \cup {NoItem}] /\ pos \in [Threads -> Nat]
      OBVIOUS
    <3> HIDE DEF TypeOK, Goto, Return
    <3>2. Idx(pos[t]) \in Slots /\ pos[t] + 1 \in Nat
      BY <3>1, CapacityAssumption
    <3>3. item' \in [Threads -> Items \cup {NoItem}] /\ \A u \in Threads \ {t} : item'[u] = item[u]
      BY <2>1, <3>1
    <3>4. pos' \in [Threads -> Nat]
      BY <2>1, <3>1
    <3>5. QED  BY <3>2, <3>3, <3>4
  <2>3. sequence' \in [Slots -> Nat]
    BY <2>1, <2>2
  <2>4. QED  BY <2>1, <2>2, <2>3, TypesKept
<1>10. QED
  BY <1>1, <1>2, <1>3, <1>4, <1>5, <1>6, <1>7, <1>8, <1>9 DEF EnqueueStep

(* The steps of try_dequeue keep the types. *)
LEMMA DequeueTypes ==
  ASSUME TypeOK, NEW t \in Threads, CallDequeue(t) \/ DequeueStep(t)
  PROVE  TypeOK'
<1> USE RelaxedLoadBound, IdxInSlots, CapacityAssumption
    DEF TypeOK, Goto, Return
<1>1. CASE CallDequeue(t)       BY <1>1 DEF CallDequeue
<1>2. CASE DequeueSlotReady(t)  BY <1>2 DEF DequeueSlotReady
<1>3. CASE DequeueEmpty(t)      BY <1>3 DEF DequeueEmpty
<1>4. CASE DequeueBehind(t)     BY <1>4 DEF DequeueBehind
<1>5. CASE DequeueReload(t)     BY <1>5 DEF DequeueReload
<1>6. CASE DequeueClaim(t)
  <2>1. /\ pc' = [pc EXCEPT ![t] = "d_read"] /\ head_' \in Nat
        /\ UNCHANGED <<sequence, data, tail_, pos, item, log>>
    BY <1>6 DEF DequeueClaim
  <2>2. QED  BY <2>1, TypesKept
<1>7. CASE DequeueCasFails(t)   BY <1>7 DEF DequeueCasFails
<1>8. CASE DequeueRead(t)       BY <1>8 DEF DequeueRead
<1>9. CASE DequeueRelease(t)
  <2>1. /\ sequence' = [sequence EXCEPT ![Idx(pos[t])] = pos[t] + Capacity]
        /\ pc' = [pc EXCEPT ![t] = "idle"] /\ UNCHANGED <<data, head_, tail_, log>>
        /\ item' = [item EXCEPT ![t] = NoItem] /\ pos' = [pos EXCEPT ![t] = 0]
    BY <1>9 DEF DequeueRelease
  <2>2. /\ Idx(pos[t]) \in Slots /\ pos[t] + Capacity \in Nat
        /\ item' \in [Threads -> Items \cup {NoItem}] /\ pos' \in [Threads -> Nat]
        /\ \A u \in Threads \ {t} : item'[u] = item[u]
    <3>1. pos[t] \in Nat /\ item \in [Threads -> Items \cup {NoItem}] /\ pos \in [Threads -> Nat]
      OBVIOUS
    <3> HIDE DEF TypeOK, Goto, Return
    <3>2. Idx(pos[t]) \in Slots /\ pos[t] + Capacity \in Nat
      BY <3>1, CapacityAssumption
    <3>3. item' \in [Threads -> Items \cup {NoItem}] /\ \A u \in Threads \ {t} : item'[u] = item[u]
      BY <2>1, <3>1
    <3>4. pos' \in [Threads -> Nat]
      BY <2>1, <3>1
    <3>5. QED  BY <3>2, <3>3, <3>4
  <2>3. sequence' \in [Slots -> Nat]
    BY <2>1, <2>2
  <2>4. QED  BY <2>1, <2>2, <2>3, TypesKept
<1>10. QED
  BY <1>1, <1>2, <1>3, <1>4, <1>5, <1>6, <1>7, <1>8, <1>9 DEF DequeueStep

(* The steps of size() keep the types. *)
LEMMA SizeTypes ==
  ASSUME TypeOK, NEW t \in Threads, CallSize(t) \/ SizeLoadTail(t)
  PROVE  TypeOK'
<1> USE RelaxedLoadBound DEF TypeOK, Goto
<1>1. CASE CallSize(t)      BY <1>1 DEF CallSize
<1>2. CASE SizeLoadTail(t)  BY <1>2 DEF SizeLoadTail
<1>3. QED  BY <1>1, <1>2

\* Every atomic step of enqueue and dequeue keeps the types.
LEMMA TypeStep == TypeOK /\ [Next]_vars => TypeOK'
<1> SUFFICES ASSUME TypeOK, [Next]_vars PROVE TypeOK'
  OBVIOUS
<1>1. ASSUME NEW t \in Producers, CallEnqueue(t) \/ EnqueueStep(t)
      PROVE  TypeOK'
  BY <1>1, EnqueueTypes DEF Threads
<1>2. ASSUME NEW t \in Consumers, CallDequeue(t) \/ DequeueStep(t)
      PROVE  TypeOK'
  BY <1>2, DequeueTypes DEF Threads
<1>3. ASSUME NEW t \in Monitors, CallSize(t) \/ SizeLoadTail(t)
      PROVE  TypeOK'
  BY <1>3, SizeTypes DEF Threads
<1>4. CASE UNCHANGED vars
  BY <1>4 DEF TypeOK, vars
<1>5. QED
  BY <1>1, <1>2, <1>3, <1>4 DEF Next

(* Type correctness of the queue: the counters stay natural numbers, a     *)
(* slot holds an item or nothing, and an enqueue never loses its argument  *)
(* before it returns.                                                      *)
THEOREM TypeCorrect == Spec => []TypeOK
  BY TypeInit, TypeStep, PTL DEF Spec

-----------------------------------------------------------------------------
(***************************************************************************)
(* The slot protocol                                                       *)
(***************************************************************************)

(* Different positions less than a lap apart use different slots. *)
LEMMA IdxDiffer ==
  ASSUME NEW p \in Nat, NEW q \in Nat,
         p # q, p < q + Capacity, q < p + Capacity
  PROVE  Idx(p) # Idx(q)
<1>1. CASE p < q
  BY <1>1, IdxApart, CapacityAssumption
<1>2. CASE q < p
  BY <1>2, IdxApart, CapacityAssumption
<1>3. QED  BY <1>1, <1>2

\* The constructor's sequence numbers, 0 .. Capacity - 1, satisfy the slot
\* protocol.
LEMMA ProtocolInit == Init => SlotProtocol
<1> SUFFICES ASSUME Init PROVE SlotProtocol
  OBVIOUS
<1>1. \A p \in 0..(Capacity - 1) : Idx(p) = p
  BY CapacityAssumption DEF Idx
<1>2. FreeOrReading
  BY <1>1, CapacityAssumption DEF Init, FreeOrReading, Slots
<1>3. QED
  BY <1>2, CapacityAssumption
  DEF Init, SlotProtocol, WindowBounded, FilledOrWriting, WriterOwnsSlot,
      ReaderOwnsSlot, OneClaimant, LoadedNotAhead, Writing, Reading

(* A thread that owns no slot before or after its step, and that changes   *)
(* nothing shared, disturbs the protocol only through the position it      *)
(* goes on with.                                                           *)
LEMMA LocalStep ==
  ASSUME SlotProtocol, NEW t \in Threads,
         UNCHANGED <<sequence, data, head_, tail_, log>>,
         ~Writing(t), ~Reading(t), ~Writing(t)', ~Reading(t)',
         \A u \in Threads \ {t} :
           pc'[u] = pc[u] /\ pos'[u] = pos[u] /\ item'[u] = item[u],
         /\ pc'[t] \in {"e_seq", "e_reload", "e_cas"} => pos'[t] <= tail_
         /\ pc'[t] \in {"d_seq", "d_reload", "d_cas", "s_tail"} =>
              pos'[t] <= head_
         /\ pc'[t] = "e_cas" => sequence[Idx(pos'[t])] = pos'[t]
         /\ pc'[t] = "d_cas" => sequence[Idx(pos'[t])] = pos'[t] + 1
  PROVE  SlotProtocol'
<1>1. \A u \in Threads : Writing(u)' <=> Writing(u)
  BY DEF Writing
<1>2. \A u \in Threads : Reading(u)' <=> Reading(u)
  BY DEF Reading
<1>3. (WindowBounded /\ Len(log) = tail_)'
  BY DEF SlotProtocol, WindowBounded
<1>4. FilledOrWriting'
  BY <1>1 DEF SlotProtocol, FilledOrWriting
<1>5. FreeOrReading'
  BY <1>2 DEF SlotProtocol, FreeOrReading
<1>6. WriterOwnsSlot'
  BY <1>1 DEF SlotProtocol, WriterOwnsSlot
<1>7. ReaderOwnsSlot'
  BY <1>2 DEF SlotProtocol, ReaderOwnsSlot
<1>8. OneClaimant'
  BY <1>1, <1>2 DEF SlotProtocol, OneClaimant
<1>9. LoadedNotAhead'
  BY DEF SlotProtocol, LoadedNotAhead
<1>10. QED
  BY <1>3, <1>4, <1>5, <1>6, <1>7, <1>8, <1>9 DEF SlotProtocol

(* The steps of try_enqueue before its CAS succeeds, and its refusal. *)
LEMMA EnqueueLocal ==
  ASSUME TypeOK, SlotProtocol, NEW t \in Threads,
         \/ CallEnqueue(t) \/ EnqueueSlotReady(t) \/ EnqueueFull(t)
         \/ EnqueueBehind(t) \/ EnqueueReload(t) \/ EnqueueCasFails(t)
  PROVE  SlotProtocol'
<1> USE RelaxedLoadBound
    DEF TypeOK, Goto, Return, Writing, Reading, EnqueueDiff
<1>1. CASE CallEnqueue(t)
  BY <1>1, LocalStep DEF CallEnqueue
<1>2. CASE EnqueueSlotReady(t)
  <2>1. pos[t] <= tail_ /\ sequence[Idx(pos[t])] = pos[t]
    <3>1. pc[t] = "e_seq" /\ sequence[Idx(pos[t])] - pos[t] = 0
      BY <1>2 DEF EnqueueSlotReady
    <3>2. Idx(pos[t]) \in Slots
      BY IdxInSlots
    <3>3. QED  BY <3>1, <3>2 DEF SlotProtocol, LoadedNotAhead
  <2>2. QED  BY <1>2, <2>1, LocalStep DEF EnqueueSlotReady
<1>3. CASE EnqueueFull(t)
  BY <1>3, LocalStep DEF EnqueueFull
<1>4. CASE EnqueueBehind(t)
  <2>1. pos[t] <= tail_
    BY <1>4 DEF EnqueueBehind, SlotProtocol, LoadedNotAhead
  <2>2. QED  BY <1>4, <2>1, LocalStep DEF EnqueueBehind
<1>5. CASE EnqueueReload(t)
  BY <1>5, LocalStep DEF EnqueueReload
<1>6. CASE EnqueueCasFails(t)
  <2>1. PICK p \in RelaxedLoad(tail_) : pos' = [pos EXCEPT ![t] = p]
    BY <1>6 DEF EnqueueCasFails
  <2>2. pc[t] = "e_cas" /\ pc'[t] = "e_seq" /\ pos'[t] = p /\ p <= tail_
    BY <1>6, <2>1 DEF EnqueueCasFails
  <2>3. \A u \in Threads \ {t} : pc'[u] = pc[u] /\ pos'[u] = pos[u]
    BY <1>6, <2>1 DEF EnqueueCasFails
  <2>4. UNCHANGED <<sequence, data, head_, tail_, item, log>>
    BY <1>6 DEF EnqueueCasFails
  <2>5. QED  BY <2>2, <2>3, <2>4, LocalStep
<1>7. QED  BY <1>1, <1>2, <1>3, <1>4, <1>5, <1>6

(* The steps of try_dequeue before its CAS succeeds, and its refusal. *)
LEMMA DequeueLocal ==
  ASSUME TypeOK, SlotProtocol, NEW t \in Threads,
         \/ CallDequeue(t) \/ DequeueSlotReady(t) \/ DequeueEmpty(t)
         \/ DequeueBehind(t) \/ DequeueReload(t) \/ DequeueCasFails(t)
  PROVE  SlotProtocol'
<1> USE RelaxedLoadBound
    DEF TypeOK, Goto, Return, Writing, Reading, DequeueDiff
<1>1. CASE CallDequeue(t)
  BY <1>1, LocalStep DEF CallDequeue
<1>2. CASE DequeueSlotReady(t)
  <2>1. pos[t] <= head_ /\ sequence[Idx(pos[t])] = pos[t] + 1
    <3>1. pc[t] = "d_seq" /\ sequence[Idx(pos[t])] - (pos[t] + 1) = 0
      BY <1>2 DEF DequeueSlotReady
    <3>2. Idx(pos[t]) \in Slots
      BY IdxInSlots
    <3>3. QED  BY <3>1, <3>2 DEF SlotProtocol, LoadedNotAhead
  <2>2. QED  BY <1>2, <2>1, LocalStep DEF DequeueSlotReady
<1>3. CASE DequeueEmpty(t)
  BY <1>3, LocalStep DEF DequeueEmpty
<1>4. CASE DequeueBehind(t)
  <2>1. pos[t] <= head_
    BY <1>4 DEF DequeueBehind, SlotProtocol, LoadedNotAhead
  <2>2. QED  BY <1>4, <2>1, LocalStep DEF DequeueBehind
<1>5. CASE DequeueReload(t)
  BY <1>5, LocalStep DEF DequeueReload
<1>6. CASE DequeueCasFails(t)
  <2>1. PICK p \in RelaxedLoad(head_) : pos' = [pos EXCEPT ![t] = p]
    BY <1>6 DEF DequeueCasFails
  <2>2. pc[t] = "d_cas" /\ pc'[t] = "d_seq" /\ pos'[t] = p /\ p <= head_
    BY <1>6, <2>1 DEF DequeueCasFails
  <2>3. \A u \in Threads \ {t} : pc'[u] = pc[u] /\ pos'[u] = pos[u]
    BY <1>6, <2>1 DEF DequeueCasFails
  <2>4. UNCHANGED <<sequence, data, head_, tail_, item, log>>
    BY <1>6 DEF DequeueCasFails
  <2>5. QED  BY <2>2, <2>3, <2>4, LocalStep
<1>7. QED  BY <1>1, <1>2, <1>3, <1>4, <1>5, <1>6

(* size() only reads. *)
LEMMA SizeLocal ==
  ASSUME TypeOK, SlotProtocol, NEW t \in Threads,
         CallSize(t) \/ SizeLoadTail(t)
  PROVE  SlotProtocol'
<1> USE RelaxedLoadBound DEF TypeOK, Goto, Writing, Reading
<1>1. CASE CallSize(t)      BY <1>1, LocalStep DEF CallSize
<1>2. CASE SizeLoadTail(t)  BY <1>2, LocalStep DEF SizeLoadTail
<1>3. QED  BY <1>1, <1>2

(* The CAS on tail_ succeeds only on a free slot inside the window. *)
LEMMA ClaimFindsRoom ==
  ASSUME TypeOK, SlotProtocol, NEW t \in Threads, EnqueueClaim(t)
  PROVE  sequence[Idx(tail_)] = tail_ /\ tail_ < head_ + Capacity
<1> USE CapacityAssumption DEF TypeOK, SlotProtocol, WindowBounded
<1>1. sequence[Idx(tail_)] = tail_
  BY DEF EnqueueClaim, Goto, LoadedNotAhead
<1>2. tail_ # head_ + Capacity
  <2> SUFFICES ASSUME tail_ = head_ + Capacity PROVE FALSE
    OBVIOUS
  <2>1. Idx(tail_) = Idx(head_)
    BY IdxNextLap
  <2>2. sequence[Idx(head_)] \in {head_, head_ + 1}
    BY DEF FilledOrWriting
  <2>3. QED  BY <1>1, <2>1, <2>2
<1>3. QED  BY <1>1, <1>2

(* The CAS on head_ succeeds only on a slot that is filled. *)
LEMMA ClaimFindsItem ==
  ASSUME TypeOK, SlotProtocol, NEW t \in Threads, DequeueClaim(t)
  PROVE  /\ sequence[Idx(head_)] = head_ + 1
         /\ head_ < tail_ /\ data[Idx(head_)] = log[head_ + 1]
<1> USE CapacityAssumption DEF TypeOK, SlotProtocol, WindowBounded
<1>1. sequence[Idx(head_)] = head_ + 1
  BY DEF DequeueClaim, Goto, LoadedNotAhead
<1>2. head_ # tail_
  <2> SUFFICES ASSUME tail_ = head_ PROVE FALSE
    OBVIOUS
  <2>1. sequence[Idx(head_)] \in {head_, head_ - Capacity + 1}
    BY DEF FreeOrReading
  <2>2. QED  BY <1>1, <2>1
<1>3. data[Idx(head_)] = log[head_ + 1]
  BY <1>1, <1>2 DEF FilledOrWriting
<1>4. QED  BY <1>1, <1>2, <1>3

(* The CAS on tail_ takes a free slot and makes t its writer. *)
LEMMA EnqueueClaimProtocol ==
  ASSUME TypeOK, SlotProtocol, NEW t \in Threads, EnqueueClaim(t)
  PROVE  SlotProtocol'
<1> USE CapacityAssumption DEF TypeOK, SlotProtocol, WindowBounded
<1>1. /\ pc[t] = "e_cas" /\ pos[t] = tail_
      /\ pc' = [pc EXCEPT ![t] = "e_write"]
      /\ tail_' = tail_ + 1 /\ log' = Append(log, item[t])
      /\ UNCHANGED <<sequence, data, head_, pos, item>>
  BY DEF EnqueueClaim, Goto
<1>2. sequence[Idx(tail_)] = tail_
  BY ClaimFindsRoom
<1>3. tail_ < head_ + Capacity
  BY ClaimFindsRoom
<1>4. \A u \in Threads : Writing(u)' <=> (Writing(u) \/ u = t)
  BY <1>1 DEF Writing
<1>5. \A u \in Threads : Reading(u)' <=> Reading(u)
  BY <1>1 DEF Reading
<1>6. /\ Len(log') = tail_ + 1 /\ log'[tail_ + 1] = item[t]
      /\ \A p \in 0..(tail_ - 1) : log'[p + 1] = log[p + 1]
  BY <1>1
<1>7. (WindowBounded /\ Len(log) = tail_)'
  BY <1>1, <1>3, <1>6
<1>8. FilledOrWriting'
  BY <1>1, <1>2, <1>4, <1>6 DEF FilledOrWriting
<1>9. FreeOrReading'
  BY <1>1, <1>5 DEF FreeOrReading
<1>10. WriterOwnsSlot'
  BY <1>1, <1>2, <1>4, <1>6 DEF WriterOwnsSlot, Writing
<1>11. ReaderOwnsSlot'
  <2> SUFFICES ASSUME NEW u \in Threads, Reading(u)
               PROVE  /\ tail_ + 1 <= pos[u] + Capacity /\ pos[u] < head_
                      /\ sequence[Idx(pos[u])] = pos[u] + 1
                      /\ pc'[u] = "d_read" =>
                           data[Idx(pos[u])] = log'[pos[u] + 1]
                      /\ pc'[u] = "d_release" => item[u] = log'[pos[u] + 1]
    BY <1>1, <1>5 DEF ReaderOwnsSlot
  <2>1. /\ pos[u] \in Nat /\ tail_ <= pos[u] + Capacity /\ pos[u] < head_
        /\ sequence[Idx(pos[u])] = pos[u] + 1
        /\ pc[u] = "d_read" => data[Idx(pos[u])] = log[pos[u] + 1]
        /\ pc[u] = "d_release" => item[u] = log[pos[u] + 1]
    BY DEF ReaderOwnsSlot
  <2>2. Idx(pos[u] + Capacity) = Idx(pos[u])
    BY <2>1, IdxNextLap
  <2>3. tail_ # pos[u] + Capacity
    BY <1>2, <2>1, <2>2
  <2>4. pc'[u] = pc[u]
    BY <1>1 DEF Reading
  <2>5. log'[pos[u] + 1] = log[pos[u] + 1]
    BY <1>6, <2>1
  <2>6. tail_ \in Nat /\ Capacity \in Nat
    OBVIOUS
  <2> HIDE DEF TypeOK, SlotProtocol, WindowBounded
  <2>7. tail_ + 1 <= pos[u] + Capacity
    BY <2>1, <2>3, <2>6
  <2>8. QED  BY <2>1, <2>4, <2>5, <2>7
<1>12. OneClaimant'
  BY <1>1, <1>4, <1>5 DEF OneClaimant, WriterOwnsSlot, Writing, Reading
<1>13. LoadedNotAhead'
  BY <1>1 DEF LoadedNotAhead
<1>14. QED
  BY <1>7, <1>8, <1>9, <1>10, <1>11, <1>12, <1>13

(* The writer fills the slot it owns; no other slot's data changes. *)
LEMMA EnqueueWriteProtocol ==
  ASSUME TypeOK, SlotProtocol, NEW t \in Threads, EnqueueWrite(t)
  PROVE  SlotProtocol'
<1> USE CapacityAssumption DEF TypeOK, SlotProtocol, WindowBounded
<1>1. /\ pc[t] = "e_write" /\ pc' = [pc EXCEPT ![t] = "e_publish"]
      /\ data' = [data EXCEPT ![Idx(pos[t])] = item[t]]
      /\ UNCHANGED <<sequence, head_, tail_, pos, item, log>>
  BY DEF EnqueueWrite, Goto
<1>2. /\ Writing(t) /\ pos[t] \in Nat /\ Idx(pos[t]) \in Slots
      /\ head_ <= pos[t] /\ pos[t] < tail_
      /\ sequence[Idx(pos[t])] = pos[t]
      /\ item[t] = log[pos[t] + 1]
  BY <1>1, IdxInSlots DEF WriterOwnsSlot, Writing
<1>3. \A u \in Threads : Writing(u)' <=> Writing(u)
  BY <1>1 DEF Writing
<1>4. \A u \in Threads : Reading(u)' <=> Reading(u)
  BY <1>1 DEF Reading
<1>5. \A p \in head_..(tail_ - 1) : p # pos[t] => Idx(p) # Idx(pos[t])
  BY <1>2, IdxDiffer
<1>6. \A u \in Threads : Reading(u) => Idx(pos[u]) # Idx(pos[t])
  BY <1>2, IdxDiffer DEF ReaderOwnsSlot
<1>7. FilledOrWriting'
  <2> SUFFICES ASSUME NEW p \in head_..(tail_ - 1)
               PROVE  \/ sequence[Idx(p)] = p + 1 /\ data'[Idx(p)] = log[p + 1]
                      \/ /\ sequence[Idx(p)] = p
                         /\ \E u \in Threads : Writing(u) /\ pos[u] = p
    BY <1>1, <1>3 DEF FilledOrWriting
  <2>1. CASE p = pos[t]
    BY <2>1, <1>2
  <2>2. CASE p # pos[t]
    <3>1. data'[Idx(p)] = data[Idx(p)]
      BY <2>2, <1>1, <1>5, IdxInSlots
    <3>2. QED  BY <3>1 DEF FilledOrWriting
  <2>3. QED  BY <2>1, <2>2
<1>8. FreeOrReading'
  BY <1>1, <1>4 DEF FreeOrReading
<1>9. WriterOwnsSlot'
  <2> SUFFICES ASSUME NEW u \in Threads, Writing(u)
               PROVE  /\ head_ <= pos[u] /\ pos[u] < tail_
                      /\ sequence[Idx(pos[u])] = pos[u]
                      /\ pc'[u] = "e_write" => item[u] = log[pos[u] + 1]
                      /\ pc'[u] = "e_publish" =>
                           data'[Idx(pos[u])] = log[pos[u] + 1]
    BY <1>1, <1>3 DEF WriterOwnsSlot
  <2>1. CASE u = t
    BY <2>1, <1>1, <1>2
  <2>2. CASE u # t
    <3>1. pos[u] # pos[t] /\ pos[u] \in head_..(tail_ - 1)
      BY <2>2, <1>2 DEF OneClaimant, WriterOwnsSlot
    <3>2. data'[Idx(pos[u])] = data[Idx(pos[u])]
      BY <3>1, <1>1, <1>5, IdxInSlots
    <3>3. QED  BY <2>2, <3>2, <1>1 DEF WriterOwnsSlot
  <2>3. QED  BY <2>1, <2>2
<1>10. ReaderOwnsSlot'
  <2>1. \A u \in Threads : Reading(u) => data'[Idx(pos[u])] = data[Idx(pos[u])]
    BY <1>1, <1>6, IdxInSlots
  <2>2. QED  BY <2>1, <1>1, <1>4 DEF ReaderOwnsSlot
<1>11. OneClaimant'
  BY <1>1, <1>3, <1>4 DEF OneClaimant
<1>12. LoadedNotAhead'
  BY <1>1 DEF LoadedNotAhead
<1>13. QED
  BY <1>1, <1>7, <1>8, <1>9, <1>10, <1>11, <1>12

(* The store of the sequence number hands the slot on to the consumers. *)
LEMMA EnqueuePublishProtocol ==
  ASSUME TypeOK, SlotProtocol, NEW t \in Threads, EnqueuePublish(t)
  PROVE  SlotProtocol'
<1> USE CapacityAssumption DEF TypeOK, SlotProtocol, WindowBounded
<1> DEFINE p0 == pos[t]
<1>1. /\ pc[t] = "e_publish" /\ pc' = [pc EXCEPT ![t] = "idle"]
      /\ item' = [item EXCEPT ![t] = NoItem]
      /\ pos' = [pos EXCEPT ![t] = 0]
      /\ sequence' = [sequence EXCEPT ![Idx(p0)] = p0 + 1]
      /\ UNCHANGED <<data, head_, tail_, log>>
  BY DEF EnqueuePublish, Return, Goto
<1>2. /\ Writing(t) /\ p0 \in Nat /\ Idx(p0) \in Slots
      /\ head_ <= p0 /\ p0 < tail_
      /\ sequence[Idx(p0)] = p0
      /\ data[Idx(p0)] = log[p0 + 1]
  BY <1>1, IdxInSlots DEF WriterOwnsSlot, Writing
<1>3. /\ \A u \in Threads : Writing(u)' <=> Writing(u) /\ u # t
      /\ \A u \in Threads : Reading(u)' <=> Reading(u)
      /\ ~Reading(t)
  BY <1>1 DEF Writing, Reading
<1>4. \A u \in Threads \ {t} :
        pc'[u] = pc[u] /\ pos'[u] = pos[u] /\ item'[u] = item[u]
  BY <1>1
<1>5. /\ sequence'[Idx(p0)] = p0 + 1
      /\ \A i \in Slots : i # Idx(p0) => sequence'[i] = sequence[i]
  BY <1>1, <1>2
<1>6. \A p \in Nat : p # p0 /\ p < p0 + Capacity /\ p0 < p + Capacity
        => Idx(p) # Idx(p0) /\ sequence'[Idx(p)] = sequence[Idx(p)]
  <2> SUFFICES ASSUME NEW p \in Nat, p # p0, p < p0 + Capacity, p0 < p + Capacity
               PROVE  Idx(p) # Idx(p0) /\ sequence'[Idx(p)] = sequence[Idx(p)]
    OBVIOUS
  <2>1. Idx(p) # Idx(p0)
    BY <1>2, IdxDiffer
  <2>2. QED  BY <2>1, <1>5, IdxInSlots
<1> HIDE DEF p0
<1>7. FilledOrWriting'
  <2> SUFFICES ASSUME NEW p \in head_..(tail_ - 1)
               PROVE  \/ sequence'[Idx(p)] = p + 1 /\ data[Idx(p)] = log[p + 1]
                      \/ /\ sequence'[Idx(p)] = p
                         /\ \E u \in Threads : Writing(u)' /\ pos'[u] = p
    BY <1>1 DEF FilledOrWriting
  <2>1. CASE p = p0
    BY <2>1, <1>2, <1>5
  <2>2. CASE p # p0
    <3>1. sequence'[Idx(p)] = sequence[Idx(p)]
      BY <2>2, <1>2, <1>6
    <3>2. \A u \in Threads : Writing(u) /\ pos[u] = p => u # t
      BY <2>2 DEF p0
    <3>3. CASE sequence[Idx(p)] = p + 1 /\ data[Idx(p)] = log[p + 1]
      BY <3>1, <3>3
    <3>4. ASSUME NEW u \in Threads, sequence[Idx(p)] = p, Writing(u), pos[u] = p
          PROVE  sequence'[Idx(p)] = p /\ Writing(u)' /\ pos'[u] = p
      <4>1. u # t
        BY <3>2, <3>4
      <4>2. QED  BY <1>3, <1>4, <3>1, <3>4, <4>1
    <3>5. QED  BY <3>3, <3>4 DEF FilledOrWriting
  <2>3. QED  BY <2>1, <2>2
<1>8. FreeOrReading'
  <2> SUFFICES ASSUME NEW p \in tail_..(head_ + Capacity - 1)
               PROVE  \/ sequence'[Idx(p)] = p
                      \/ /\ sequence'[Idx(p)] = p - Capacity + 1
                         /\ \E u \in Threads :
                              Reading(u)' /\ pos'[u] = p - Capacity
    BY <1>1 DEF FreeOrReading
  <2>1. sequence'[Idx(p)] = sequence[Idx(p)]
    BY <1>2, <1>6
  <2>2. QED  BY <2>1, <1>3, <1>4 DEF FreeOrReading
<1>9. WriterOwnsSlot'
  <2> SUFFICES ASSUME NEW u \in Threads, Writing(u), u # t
               PROVE  sequence'[Idx(pos[u])] = sequence[Idx(pos[u])]
    BY <1>1, <1>3, <1>4 DEF WriterOwnsSlot
  <2>1. pos[u] # p0 /\ pos[u] \in head_..(tail_ - 1)
    BY <1>2 DEF OneClaimant, WriterOwnsSlot, p0
  <2>2. QED  BY <2>1, <1>2, <1>6
<1>10. ReaderOwnsSlot'
  <2> SUFFICES ASSUME NEW u \in Threads, Reading(u), u # t
               PROVE  sequence'[Idx(pos[u])] = sequence[Idx(pos[u])]
    BY <1>1, <1>3, <1>4 DEF ReaderOwnsSlot
  <2>1. pos[u] < p0 /\ p0 < pos[u] + Capacity
    BY <1>2 DEF ReaderOwnsSlot
  <2>2. QED  BY <2>1, <1>2, <1>6
<1>11. OneClaimant'
  BY <1>3, <1>4 DEF OneClaimant
<1>12. LoadedNotAhead'
  <2> SUFFICES ASSUME NEW u \in Threads, u # t
               PROVE  /\ pc[u] = "e_cas" /\ pos[u] = tail_ =>
                           sequence'[Idx(pos[u])] = pos[u]
                      /\ pc[u] = "d_cas" /\ pos[u] = head_ =>
                           sequence'[Idx(pos[u])] = pos[u] + 1
    BY <1>1, <1>4 DEF LoadedNotAhead
  <2>1. ASSUME pc[u] = "e_cas", pos[u] = tail_
        PROVE  sequence'[Idx(pos[u])] = pos[u]
    <3>1. sequence[Idx(tail_)] = tail_
      BY <2>1 DEF LoadedNotAhead
    <3>2. Idx(tail_) # Idx(p0)
      BY <3>1, <1>2
    <3>3. QED  BY <2>1, <3>1, <3>2, <1>5, IdxInSlots
  <2>2. ASSUME pc[u] = "d_cas", pos[u] = head_
        PROVE  sequence'[Idx(pos[u])] = pos[u] + 1
    <3>1. sequence[Idx(head_)] = head_ + 1
      BY <2>2 DEF LoadedNotAhead
    <3>2. head_ # p0
      BY <3>1, <1>2
    <3>3. Idx(head_) # Idx(p0)
      BY <3>2, <1>2, <1>6
    <3>4. QED  BY <2>2, <3>1, <3>3, <1>5, IdxInSlots
  <2>3. QED  BY <2>1, <2>2
<1>13. QED
  BY <1>1, <1>7, <1>8, <1>9, <1>10, <1>11, <1>12

(* The CAS on head_ takes a filled slot and makes t its reader; the        *)
(* position a lap later enters the window, held by t.                      *)
LEMMA DequeueClaimProtocol ==
  ASSUME TypeOK, SlotProtocol, NEW t \in Threads, DequeueClaim(t)
  PROVE  SlotProtocol'
<1> USE CapacityAssumption DEF TypeOK, SlotProtocol, WindowBounded
<1>1. /\ pc[t] = "d_cas" /\ pos[t] = head_
      /\ pc' = [pc EXCEPT ![t] = "d_read"]
      /\ head_' = head_ + 1
      /\ UNCHANGED <<sequence, data, tail_, pos, item, log>>
  BY DEF DequeueClaim, Goto
<1>2. sequence[Idx(head_)] = head_ + 1
  BY ClaimFindsItem
<1>3. head_ < tail_
  BY ClaimFindsItem
<1>4. data[Idx(head_)] = log[head_ + 1]
  BY ClaimFindsItem
<1>5. \A u \in Threads : Reading(u)' <=> (Reading(u) \/ u = t)
  BY <1>1 DEF Reading
<1>6. \A u \in Threads : Writing(u)' <=> Writing(u)
  BY <1>1 DEF Writing
<1>7. \A u \in Threads : Writing(u) => pos[u] # head_
  BY <1>2 DEF WriterOwnsSlot
<1>8. (WindowBounded /\ Len(log) = tail_)'
  BY <1>1, <1>3
<1>9. FilledOrWriting'
  BY <1>1, <1>6 DEF FilledOrWriting
<1>10. FreeOrReading'
  <2> SUFFICES ASSUME NEW p \in tail_..(head_ + Capacity)
               PROVE  \/ sequence[Idx(p)] = p
                      \/ /\ sequence[Idx(p)] = p - Capacity + 1
                         /\ \E u \in Threads :
                              Reading(u)' /\ pos[u] = p - Capacity
    BY <1>1 DEF FreeOrReading
  <2>1. CASE p = head_ + Capacity
    <3>1. Idx(p) = Idx(head_)
      BY <2>1, IdxNextLap
    <3>2. sequence[Idx(p)] = p - Capacity + 1
      BY <2>1, <3>1, <1>2
    <3>3. Reading(t)' /\ pos[t] = p - Capacity
      BY <2>1, <1>1, <1>5
    <3>4. QED  BY <3>2, <3>3
  <2>2. CASE p # head_ + Capacity
    BY <2>2, <1>5 DEF FreeOrReading
  <2>3. QED  BY <2>1, <2>2
<1>11. WriterOwnsSlot'
  BY <1>1, <1>6, <1>7 DEF WriterOwnsSlot, Writing
<1>12. ReaderOwnsSlot'
  BY <1>1, <1>2, <1>3, <1>4, <1>5 DEF ReaderOwnsSlot, Reading
<1>13. OneClaimant'
  BY <1>1, <1>5, <1>6 DEF OneClaimant, ReaderOwnsSlot, Reading, Writing
<1>14. LoadedNotAhead'
  BY <1>1 DEF LoadedNotAhead
<1>15. QED
  BY <1>8, <1>9, <1>10, <1>11, <1>12, <1>13, <1>14

(* What a reader knows of the slot it owns: no position of the window and  *)
(* no other reader uses it, but the position one lap later.                *)
LEMMA ReaderSlot ==
  ASSUME TypeOK, SlotProtocol, NEW t \in Threads, Reading(t)
  PROVE  /\ pos[t] \in Nat /\ Idx(pos[t]) \in Slots
         /\ pos[t] < head_ /\ tail_ <= pos[t] + Capacity
         /\ sequence[Idx(pos[t])] = pos[t] + 1
         /\ \A p \in head_..(tail_ - 1) : Idx(p) # Idx(pos[t])
         /\ \A p \in tail_..(head_ + Capacity - 1) :
              p # pos[t] + Capacity => Idx(p) # Idx(pos[t])
         /\ \A u \in Threads : Writing(u) => Idx(pos[u]) # Idx(pos[t])
         /\ \A u \in Threads : Reading(u) /\ u # t => Idx(pos[u]) # Idx(pos[t])
<1> USE CapacityAssumption DEF TypeOK, SlotProtocol, WindowBounded
<1>1. /\ pos[t] \in Nat /\ Idx(pos[t]) \in Slots
      /\ pos[t] < head_ /\ tail_ <= pos[t] + Capacity
      /\ sequence[Idx(pos[t])] = pos[t] + 1
  BY IdxInSlots DEF ReaderOwnsSlot
<1>2. \A p \in head_..(tail_ - 1) : Idx(p) # Idx(pos[t])
  BY <1>1, IdxDiffer
<1>3. ASSUME NEW p \in tail_..(head_ + Capacity - 1), p # pos[t] + Capacity
      PROVE  Idx(p) # Idx(pos[t])
  <2>1. p \in Nat /\ pos[t] < p /\ p < pos[t] + 2 * Capacity
    BY <1>1
  <2>2. QED  BY <1>1, <1>3, <2>1, IdxApart
<1>4. \A u \in Threads : Writing(u) => Idx(pos[u]) # Idx(pos[t])
  BY <1>2 DEF WriterOwnsSlot
<1>5. ASSUME NEW u \in Threads, Reading(u), u # t
      PROVE  Idx(pos[u]) # Idx(pos[t])
  <2>1. pos[u] \in Nat /\ pos[u] < head_ /\ tail_ <= pos[u] + Capacity
    BY <1>5 DEF ReaderOwnsSlot
  <2>2. pos[u] # pos[t]
    BY <1>5 DEF OneClaimant
  <2>3. pos[u] < pos[t] + Capacity /\ pos[t] < pos[u] + Capacity
    BY <1>1, <2>1
  <2>4. QED  BY <1>1, <2>1, <2>2, <2>3, IdxDiffer
<1> HIDE DEF TypeOK, SlotProtocol, WindowBounded
<1>6. QED  BY <1>1, <1>2, <1>3, <1>4, <1>5

(* The reader empties the slot it owns; no other slot's data changes. *)
LEMMA DequeueReadProtocol ==
  ASSUME TypeOK, SlotProtocol, NEW t \in Threads, DequeueRead(t)
  PROVE  SlotProtocol'
<1> USE CapacityAssumption DEF TypeOK, SlotProtocol, WindowBounded
<1>1. /\ pc[t] = "d_read" /\ pc' = [pc EXCEPT ![t] = "d_release"]
      /\ item' = [item EXCEPT ![t] = data[Idx(pos[t])]]
      /\ data' = [data EXCEPT ![Idx(pos[t])] = NoItem]
      /\ UNCHANGED <<sequence, head_, tail_, pos, log>>
  BY DEF DequeueRead, Goto
<1>2. Reading(t) /\ data[Idx(pos[t])] = log[pos[t] + 1]
  BY <1>1 DEF ReaderOwnsSlot, Reading
<1>3. \A u \in Threads : Writing(u)' <=> Writing(u)
  BY <1>1 DEF Writing
<1>4. \A u \in Threads : Reading(u)' <=> Reading(u)
  BY <1>1 DEF Reading
<1>5. \A i \in Slots : i # Idx(pos[t]) => data'[i] = data[i]
  BY <1>1
<1>6. \A u \in Threads \ {t} : pc'[u] = pc[u] /\ item'[u] = item[u]
  BY <1>1
<1>7. FilledOrWriting'
  <2> SUFFICES ASSUME NEW p \in head_..(tail_ - 1)
               PROVE  data'[Idx(p)] = data[Idx(p)]
    BY <1>1, <1>3 DEF FilledOrWriting
  <2>1. Idx(p) # Idx(pos[t]) /\ p \in Nat
    BY <1>2, ReaderSlot
  <2>2. QED  BY <2>1, <1>5, IdxInSlots
<1>8. FreeOrReading'
  BY <1>1, <1>4 DEF FreeOrReading
<1>9. WriterOwnsSlot'
  <2>1. \A u \in Threads : Writing(u) => u # t /\ data'[Idx(pos[u])] = data[Idx(pos[u])]
    BY <1>1, <1>2, <1>5, ReaderSlot, IdxInSlots DEF Writing
  <2>2. QED  BY <2>1, <1>1, <1>3, <1>6 DEF WriterOwnsSlot
<1>10. ReaderOwnsSlot'
  <2> SUFFICES ASSUME NEW u \in Threads, Reading(u)
               PROVE  /\ pc'[u] = "d_read" => data'[Idx(pos[u])] = log[pos[u] + 1]
                      /\ pc'[u] = "d_release" => item'[u] = log[pos[u] + 1]
    BY <1>1, <1>4 DEF ReaderOwnsSlot
  <2>1. CASE u = t
    BY <2>1, <1>1, <1>2
  <2>2. CASE u # t
    <3>1. Idx(pos[u]) # Idx(pos[t])
      BY <2>2, <1>2, ReaderSlot
    <3>2. data'[Idx(pos[u])] = data[Idx(pos[u])]
      BY <3>1, <1>5, IdxInSlots
    <3>3. QED  BY <2>2, <3>2, <1>6 DEF ReaderOwnsSlot
  <2>3. QED  BY <2>1, <2>2
<1>11. OneClaimant'
  BY <1>1, <1>3, <1>4 DEF OneClaimant
<1>12. LoadedNotAhead'
  BY <1>1 DEF LoadedNotAhead
<1>13. QED
  BY <1>1, <1>7, <1>8, <1>9, <1>10, <1>11, <1>12

(* The store of the sequence number hands the slot on to the producers,    *)
(* for the position one lap later.                                         *)
LEMMA DequeueReleaseProtocol ==
  ASSUME TypeOK, SlotProtocol, NEW t \in Threads, DequeueRelease(t)
  PROVE  SlotProtocol'
<1> USE CapacityAssumption DEF TypeOK, SlotProtocol, WindowBounded
<1> DEFINE r == pos[t]
<1>1. /\ pc[t] = "d_release" /\ pc' = [pc EXCEPT ![t] = "idle"]
      /\ item' = [item EXCEPT ![t] = NoItem]
      /\ pos' = [pos EXCEPT ![t] = 0]
      /\ sequence' = [sequence EXCEPT ![Idx(r)] = r + Capacity]
      /\ UNCHANGED <<data, head_, tail_, log>>
  BY DEF DequeueRelease, Return, Goto
<1>2. Reading(t)
  BY <1>1 DEF Reading
<1>3. /\ r \in Nat /\ Idx(r) \in Slots
      /\ r < head_ /\ tail_ <= r + Capacity
      /\ sequence[Idx(r)] = r + 1
      /\ \A p \in head_..(tail_ - 1) : Idx(p) # Idx(r)
      /\ \A p \in tail_..(head_ + Capacity - 1) :
           p # r + Capacity => Idx(p) # Idx(r)
      /\ \A u \in Threads : Writing(u) => Idx(pos[u]) # Idx(r)
      /\ \A u \in Threads : Reading(u) /\ u # t => Idx(pos[u]) # Idx(r)
  BY <1>2, ReaderSlot
<1>4. /\ \A u \in Threads : Writing(u)' <=> Writing(u)
      /\ \A u \in Threads : Reading(u)' <=> Reading(u) /\ u # t
      /\ ~Writing(t)
  BY <1>1 DEF Writing, Reading
<1>5. \A u \in Threads \ {t} :
        pc'[u] = pc[u] /\ pos'[u] = pos[u] /\ item'[u] = item[u]
  BY <1>1
<1>6. /\ sequence'[Idx(r)] = r + Capacity
      /\ \A i \in Slots : i # Idx(r) => sequence'[i] = sequence[i]
  BY <1>1, <1>3
<1> HIDE DEF r
<1>7. FilledOrWriting'
  <2> SUFFICES ASSUME NEW p \in head_..(tail_ - 1)
               PROVE  \/ sequence'[Idx(p)] = p + 1 /\ data[Idx(p)] = log[p + 1]
                      \/ /\ sequence'[Idx(p)] = p
                         /\ \E u \in Threads : Writing(u)' /\ pos'[u] = p
    BY <1>1 DEF FilledOrWriting
  <2>1. Idx(p) # Idx(r) /\ p \in Nat
    BY <1>3
  <2>2. sequence'[Idx(p)] = sequence[Idx(p)]
    BY <2>1, <1>6, IdxInSlots
  <2>3. CASE sequence[Idx(p)] = p + 1 /\ data[Idx(p)] = log[p + 1]
    BY <2>2, <2>3
  <2>4. ASSUME NEW u \in Threads, sequence[Idx(p)] = p, Writing(u), pos[u] = p
        PROVE  sequence'[Idx(p)] = p /\ Writing(u)' /\ pos'[u] = p
    <3>1. u # t
      BY <1>4, <2>4
    <3>2. QED  BY <1>4, <1>5, <2>2, <2>4, <3>1
  <2>5. QED  BY <2>3, <2>4 DEF FilledOrWriting
<1>8. FreeOrReading'
  <2> SUFFICES ASSUME NEW p \in tail_..(head_ + Capacity - 1)
               PROVE  \/ sequence'[Idx(p)] = p
                      \/ /\ sequence'[Idx(p)] = p - Capacity + 1
                         /\ \E u \in Threads :
                              Reading(u)' /\ pos'[u] = p - Capacity
    BY <1>1 DEF FreeOrReading
  <2>1. CASE p = r + Capacity
    <3>1. Idx(p) = Idx(r)
      BY <2>1, <1>3, IdxNextLap
    <3>2. QED  BY <2>1, <3>1, <1>6
  <2>2. CASE p # r + Capacity
    <3>1. Idx(p) # Idx(r) /\ p \in Nat
      BY <2>2, <1>3
    <3>2. sequence'[Idx(p)] = sequence[Idx(p)]
      BY <3>1, <1>6, IdxInSlots
    <3>3. \A u \in Threads : Reading(u) /\ pos[u] = p - Capacity => u # t
      BY <2>2, <1>3 DEF r
    <3>4. QED  BY <3>2, <3>3, <1>4, <1>5 DEF FreeOrReading
  <2>3. QED  BY <2>1, <2>2
<1>9. WriterOwnsSlot'
  <2> SUFFICES ASSUME NEW u \in Threads, Writing(u), u # t
               PROVE  sequence'[Idx(pos[u])] = sequence[Idx(pos[u])]
    BY <1>1, <1>4, <1>5 DEF WriterOwnsSlot
  <2>1. QED  BY <1>3, <1>6, IdxInSlots
<1>10. ReaderOwnsSlot'
  <2> SUFFICES ASSUME NEW u \in Threads, Reading(u), u # t
               PROVE  sequence'[Idx(pos[u])] = sequence[Idx(pos[u])]
    BY <1>1, <1>4, <1>5 DEF ReaderOwnsSlot
  <2>1. QED  BY <1>3, <1>6, IdxInSlots
<1>11. OneClaimant'
  BY <1>4, <1>5 DEF OneClaimant
<1>12. LoadedNotAhead'
  <2> SUFFICES ASSUME NEW u \in Threads, u # t
               PROVE  /\ pc[u] = "e_cas" /\ pos[u] = tail_ =>
                           sequence'[Idx(pos[u])] = pos[u]
                      /\ pc[u] = "d_cas" /\ pos[u] = head_ =>
                           sequence'[Idx(pos[u])] = pos[u] + 1
    BY <1>1, <1>5 DEF LoadedNotAhead
  <2>1. ASSUME pc[u] = "e_cas", pos[u] = tail_
        PROVE  sequence'[Idx(pos[u])] = pos[u]
    <3>1. sequence[Idx(tail_)] = tail_
      BY <2>1 DEF LoadedNotAhead
    <3>2. r + 1 # tail_ \/ Idx(tail_) # Idx(r)
      BY <1>3, IdxDiffer
    <3>3. Idx(tail_) # Idx(r)
      BY <3>1, <3>2, <1>3
    <3>4. QED  BY <2>1, <3>1, <3>3, <1>6, IdxInSlots
  <2>2. ASSUME pc[u] = "d_cas", pos[u] = head_
        PROVE  sequence'[Idx(pos[u])] = pos[u] + 1
    <3>1. sequence[Idx(head_)] = head_ + 1
      BY <2>2 DEF LoadedNotAhead
    <3>2. Idx(head_) # Idx(r)
      BY <3>1, <1>3
    <3>3. QED  BY <2>2, <3>1, <3>2, <1>6, IdxInSlots
  <2>3. QED  BY <2>1, <2>2
<1>13. QED
  BY <1>1, <1>7, <1>8, <1>9, <1>10, <1>11, <1>12

\* Every atomic step keeps the slot protocol: one claim per slot and lap,
\* released in turn.
LEMMA ProtocolStep == TypeOK /\ SlotProtocol /\ [Next]_vars => SlotProtocol'
<1> SUFFICES ASSUME TypeOK, SlotProtocol, [Next]_vars PROVE SlotProtocol'
  OBVIOUS
<1>1. ASSUME NEW t \in Producers, CallEnqueue(t) \/ EnqueueStep(t)
      PROVE  SlotProtocol'
  BY <1>1, EnqueueLocal, EnqueueClaimProtocol, EnqueueWriteProtocol,
     EnqueuePublishProtocol
  DEF Threads, EnqueueStep
<1>2. ASSUME NEW t \in Consumers, CallDequeue(t) \/ DequeueStep(t)
      PROVE  SlotProtocol'
  BY <1>2, DequeueLocal, DequeueClaimProtocol, DequeueReadProtocol,
     DequeueReleaseProtocol
  DEF Threads, DequeueStep
<1>3. ASSUME NEW t \in Monitors, CallSize(t) \/ SizeLoadTail(t)
      PROVE  SlotProtocol'
  BY <1>3, SizeLocal DEF Threads
<1>4. CASE UNCHANGED vars
  BY <1>4 DEF vars, SlotProtocol, WindowBounded, FilledOrWriting, FreeOrReading,
              WriterOwnsSlot, ReaderOwnsSlot, OneClaimant, LoadedNotAhead,
              Writing, Reading
<1>5. QED
  BY <1>1, <1>2, <1>3, <1>4 DEF Next

(* Every slot is at all times filled, free, or owned by exactly one writer *)
(* or reader, as its sequence number says.                                 *)
THEOREM ProtocolInvariant == Spec => []SlotProtocol
  BY TypeCorrect, ProtocolInit, ProtocolStep, PTL DEF Spec

(* A slot is accessed by one thread at a time: slot.data, which is not     *)
(* atomic, is never written while it is read or written.                   *)
THEOREM NoDataRace == Spec => []SlotExclusive
<1>1. TypeOK /\ SlotProtocol => SlotExclusive
  <2> SUFFICES ASSUME TypeOK, SlotProtocol,
                      NEW t \in Threads, NEW u \in Threads, t # u,
                      Writing(t) \/ Reading(t), Writing(u) \/ Reading(u)
               PROVE  Idx(pos[t]) # Idx(pos[u])
    BY DEF SlotExclusive
  <2>1. CASE Reading(t)
    BY <2>1, ReaderSlot
  <2>2. CASE Reading(u)
    BY <2>2, ReaderSlot
  <2>3. CASE Writing(t) /\ Writing(u)
    <3>1. /\ pos[t] \in Nat /\ pos[u] \in Nat /\ pos[t] # pos[u]
          /\ head_ <= pos[t] /\ pos[t] < tail_
          /\ head_ <= pos[u] /\ pos[u] < tail_
      BY <2>3 DEF SlotProtocol, WriterOwnsSlot, OneClaimant, TypeOK
    <3>2. head_ \in Nat /\ tail_ \in Nat /\ tail_ <= head_ + Capacity
      BY DEF SlotProtocol, WindowBounded, TypeOK
    <3>3. pos[t] < pos[u] + Capacity /\ pos[u] < pos[t] + Capacity
      BY <3>1, <3>2, CapacityAssumption
    <3>4. QED  BY <3>1, <3>3, IdxDiffer
  <2>4. QED  BY <2>1, <2>2, <2>3
<1>2. QED
  BY <1>1, TypeCorrect, ProtocolInvariant, PTL

(* The ring never laps itself. *)
THEOREM RingBounded == Spec => []WindowBounded
<1>1. SlotProtocol => WindowBounded
  BY DEF SlotProtocol
<1>2. QED
  BY <1>1, ProtocolInvariant, PTL

(* What a consumer returns is the item accepted at the position it took.   *)
THEOREM NothingLostOrCopied == Spec => []ItemsInPlace
<1>1. TypeOK /\ SlotProtocol => ItemsInPlace
  <2> SUFFICES ASSUME TypeOK, SlotProtocol PROVE ItemsInPlace
    OBVIOUS
  <2>1. \A t \in Threads : pc[t] = "d_release" => item[t] = log[pos[t] + 1]
    BY DEF SlotProtocol, ReaderOwnsSlot, Reading
  <2>2. ASSUME NEW p \in head_..(tail_ - 1), sequence[Idx(p)] = p + 1
        PROVE  data[Idx(p)] = log[p + 1]
    BY <2>2 DEF SlotProtocol, FilledOrWriting, TypeOK
  <2>3. QED  BY <2>1, <2>2 DEF ItemsInPlace
<1>2. QED
  BY <1>1, TypeCorrect, ProtocolInvariant, PTL

(* size() may report an item that has just left, never miss one that is    *)
(* there, when its loads are not reordered.                                *)
THEOREM SizeSound == Spec => SizeNeverUndercounts
<1>1. ASSUME TypeOK, SlotProtocol, NEW t \in Monitors,
             Staleness = 0, SizeLoadTail(t)
      PROVE  pos'[t] >= tail_ - head_
  <2>1. /\ t \in Threads /\ pos[t] \in Nat /\ head_ \in Nat /\ tail_ \in Nat
        /\ pos[t] <= head_
    BY <1>1 DEF TypeOK, Threads, SizeLoadTail, Goto, SlotProtocol, LoadedNotAhead
  <2>2. RelaxedLoad(tail_) = {tail_}
    BY <1>1, <2>1 DEF RelaxedLoad
  <2>3. pos'[t] = IF tail_ > pos[t] THEN tail_ - pos[t] ELSE 0
    BY <1>1, <2>1, <2>2 DEF SizeLoadTail, TypeOK
  <2>4. QED  BY <2>1, <2>3
<1>2. TypeOK /\ SlotProtocol
        => [\A t \in Monitors :
              Staleness = 0 /\ SizeLoadTail(t) => pos'[t] >= tail_ - head_]_vars
  BY <1>1
<1>3. QED
  BY <1>2, TypeCorrect, ProtocolInvariant, PTL DEF SizeNeverUndercounts

-----------------------------------------------------------------------------
(***************************************************************************)
(* The queue implements BoundedFifo                                        *)
(***************************************************************************)

(* A thread holds an item only inside an enqueue or after its read. *)
HandsEmpty ==
  \A t \in Threads :
    pc[t] \notin EnqueuePcs \cup {"d_release"} => item[t] = NoItem

\* A thread outside enqueue, and not about to release a slot, holds no item.
LEMMA HandsEmptyInvariant == Spec => []HandsEmpty
<1>1. Init => HandsEmpty
  BY DEF Init, HandsEmpty
<1>2. TypeOK /\ HandsEmpty /\ [Next]_vars => HandsEmpty'
  <2> SUFFICES ASSUME TypeOK, HandsEmpty, [Next]_vars PROVE HandsEmpty'
    OBVIOUS
  <2> USE DEF TypeOK, HandsEmpty, Goto, Return, Threads
  <2>1. ASSUME NEW t \in Producers, CallEnqueue(t) PROVE HandsEmpty'
    BY <2>1 DEF CallEnqueue
  <2>2. ASSUME NEW t \in Producers, EnqueueStep(t) PROVE HandsEmpty'
    BY <2>2
    DEF EnqueueStep, EnqueueSlotReady, EnqueueFull, EnqueueBehind, EnqueueReload,
        EnqueueClaim, EnqueueCasFails, EnqueueWrite, EnqueuePublish
  <2>3. ASSUME NEW t \in Consumers, CallDequeue(t) PROVE HandsEmpty'
    BY <2>3 DEF CallDequeue
  <2>4. ASSUME NEW t \in Consumers, DequeueStep(t) PROVE HandsEmpty'
    BY <2>4
    DEF DequeueStep, DequeueSlotReady, DequeueEmpty, DequeueBehind, DequeueReload,
        DequeueClaim, DequeueCasFails, DequeueRead, DequeueRelease
  <2>5. ASSUME NEW t \in Monitors, CallSize(t) \/ SizeLoadTail(t)
        PROVE  HandsEmpty'
    BY <2>5 DEF CallSize, SizeLoadTail
  <2>6. CASE UNCHANGED vars
    BY <2>6 DEF vars
  <2>7. QED  BY <2>1, <2>2, <2>3, <2>4, <2>5, <2>6 DEF Next
<1>3. QED
  BY <1>1, <1>2, TypeCorrect, PTL DEF Spec

(* The slot of an old position has moved on at least one lap. *)
LEMMA OldSlotMovedOn ==
  ASSUME TypeOK, SlotProtocol, NEW p \in Nat, p < head_
  PROVE  sequence[Idx(p)] >= p + 1
<1> USE CapacityAssumption DEF TypeOK
<1>1. PICK q \in head_..(head_ + Capacity - 1) :
        p + Capacity <= q /\ Idx(q) = Idx(p)
  BY IdxInLap
<1>2. sequence[Idx(q)] \in {q, q + 1, q - Capacity + 1}
  <2>1. CASE q < tail_
    BY <2>1 DEF SlotProtocol, FilledOrWriting
  <2>2. CASE q >= tail_
    BY <2>2 DEF SlotProtocol, FreeOrReading
  <2>3. QED  BY <2>1, <2>2
<1>3. QED  BY <1>1, <1>2

(* try_enqueue refuses only when the ring is full or a reader holds the    *)
(* slot it needs.                                                          *)
LEMMA RefusalOfEnqueue ==
  ASSUME TypeOK, SlotProtocol, NEW t \in Threads, EnqueueFull(t)
  PROVE  \/ Len(log) - head_ = Capacity
         \/ \E u \in Threads : Reading(u) /\ pos[u] = Len(log) - Capacity
<1> USE CapacityAssumption DEF TypeOK
<1>1. /\ pos[t] \in Nat /\ pos[t] <= tail_ /\ Idx(pos[t]) \in Slots
      /\ sequence[Idx(pos[t])] < pos[t]
  BY IdxInSlots
  DEF EnqueueFull, EnqueueDiff, Return, Goto, SlotProtocol, LoadedNotAhead
<1>2. pos[t] >= head_
  BY <1>1, OldSlotMovedOn
<1>3. pos[t] = tail_
  BY <1>1, <1>2 DEF SlotProtocol, FilledOrWriting
<1>4. CASE tail_ = head_ + Capacity
  BY <1>4 DEF SlotProtocol
<1>5. CASE tail_ # head_ + Capacity
  BY <1>1, <1>3, <1>5 DEF SlotProtocol, WindowBounded, FreeOrReading
<1>6. QED  BY <1>4, <1>5

(* try_dequeue refuses only when nothing is queued or a writer holds the   *)
(* slot it needs.                                                          *)
LEMMA RefusalOfDequeue ==
  ASSUME TypeOK, SlotProtocol, NEW t \in Threads, DequeueEmpty(t)
  PROVE  \/ head_ = Len(log)
         \/ \E u \in Threads : Writing(u) /\ pos[u] = head_
<1> USE CapacityAssumption DEF TypeOK
<1>1. /\ pos[t] \in Nat /\ pos[t] <= head_ /\ Idx(pos[t]) \in Slots
      /\ sequence[Idx(pos[t])] < pos[t] + 1
  BY IdxInSlots
  DEF DequeueEmpty, DequeueDiff, Return, Goto, SlotProtocol, LoadedNotAhead
<1>2. pos[t] = head_
  BY <1>1, OldSlotMovedOn
<1>3. CASE head_ = tail_
  BY <1>3 DEF SlotProtocol
<1>4. CASE head_ # tail_
  BY <1>1, <1>2, <1>4 DEF SlotProtocol, WindowBounded, FilledOrWriting
<1>5. QED  BY <1>3, <1>4

(* What a step of thread t does to the abstract state when every reader's  *)
(* slot but its own keeps its data: one entry of op and one of val change. *)
LEMMA OnlyOwnCall ==
  ASSUME TypeOK, NEW t \in Threads, NEW to,
         pc' = [pc EXCEPT ![t] = to],
         \A u \in Threads \ {t} :
           /\ pos'[u] = pos[u] /\ item'[u] = item[u]
           /\ pc[u] = "d_read" => data'[Idx(pos[u])] = data[Idx(pos[u])]
  PROVE  /\ CallState' = [CallState EXCEPT ![t] = CallState'[t]]
         /\ CallItem' = [CallItem EXCEPT ![t] = CallItem'[t]]
         /\ CallPosition' = [CallPosition EXCEPT ![t] = CallPosition'[t]]
        /\ CallPosition' = [CallPosition EXCEPT ![t] = CallPosition'[t]]
<1>1. \A u \in Threads \ {t} : pc'[u] = pc[u]
  BY DEF TypeOK
<1>2. \A u \in Threads \ {t} :
        /\ CallState'[u] = CallState[u] /\ CallItem'[u] = CallItem[u]
        /\ CallPosition'[u] = CallPosition[u]
  BY <1>1 DEF CallState, CallItem, CallPosition, Writing, Reading
<1>3. /\ CallState = [u \in Threads |-> CallState[u]]
      /\ CallState' = [u \in Threads |-> CallState'[u]]
      /\ CallItem = [u \in Threads |-> CallItem[u]]
      /\ CallItem' = [u \in Threads |-> CallItem'[u]]
      /\ CallPosition = [u \in Threads |-> CallPosition[u]]
      /\ CallPosition' = [u \in Threads |-> CallPosition'[u]]
  BY DEF CallState, CallItem, CallPosition
<1>4. QED  BY <1>2, <1>3

(* The steps of a call that the abstract queue does not see. *)
LEMMA InvisibleStep ==
  ASSUME TypeOK, NEW t \in Threads, NEW to,
         pc' = [pc EXCEPT ![t] = to],
         \A u \in Threads \ {t} :
           /\ pos'[u] = pos[u] /\ item'[u] = item[u]
           /\ pc[u] = "d_read" => data'[Idx(pos[u])] = data[Idx(pos[u])],
         CallState'[t] = CallState[t], CallItem'[t] = CallItem[t],
         CallPosition'[t] = CallPosition[t],
         UNCHANGED <<head_, log>>
  PROVE  UNCHANGED Fifo!vars
<1>1. /\ CallState' = [CallState EXCEPT ![t] = CallState[t]]
      /\ CallItem' = [CallItem EXCEPT ![t] = CallItem[t]]
      /\ CallPosition' = [CallPosition EXCEPT ![t] = CallPosition[t]]
  BY OnlyOwnCall
<1>2. /\ CallState = [u \in Threads |-> CallState[u]]
      /\ CallItem = [u \in Threads |-> CallItem[u]]
      /\ CallPosition = [u \in Threads |-> CallPosition[u]]
  BY DEF CallState, CallItem, CallPosition
<1>3. CallState' = CallState
  BY <1>1, <1>2
<1>4. CallItem' = CallItem
  BY <1>1, <1>2
<1>5. CallPosition' = CallPosition
  BY <1>1, <1>2
<1>6. QED  BY <1>3, <1>4, <1>5 DEF Fifo!vars

(* Every step of try_enqueue is a step of the abstract queue, or none. *)
LEMMA EnqueueRefines ==
  ASSUME TypeOK, SlotProtocol, HandsEmpty, NEW t \in Threads,
         CallEnqueue(t) \/ EnqueueStep(t)
  PROVE  [Fifo!Next]_(Fifo!vars)
<1> USE DEF TypeOK, Goto, Return
<1>1. CASE CallEnqueue(t)
  <2>1. PICK v \in Items : item' = [item EXCEPT ![t] = v]
    BY <1>1 DEF CallEnqueue
  <2>2. /\ CallState' = [CallState EXCEPT ![t] = CallState'[t]]
        /\ CallItem' = [CallItem EXCEPT ![t] = CallItem'[t]]
        /\ CallPosition' = [CallPosition EXCEPT ![t] = CallPosition'[t]]
    BY <1>1, <2>1, OnlyOwnCall DEF CallEnqueue
  <2>3. /\ CallState[t] = "idle" /\ CallState'[t] = "enq"
        /\ CallItem'[t] = v /\ CallPosition'[t] = 0
    BY <1>1, <2>1 DEF CallEnqueue, CallState, CallItem, CallPosition, Writing, Reading
  <2>4. Fifo!CallEnqueue(t)
    BY <1>1, <2>2, <2>3 DEF CallEnqueue, Fifo!CallEnqueue, Fifo!Step
  <2>5. QED  BY <2>4 DEF Fifo!Next
<1>2. CASE EnqueueSlotReady(t) \/ EnqueueBehind(t) \/ EnqueueReload(t)
           \/ EnqueueCasFails(t)
  <2>1. /\ CallState'[t] = CallState[t] /\ CallItem'[t] = CallItem[t]
        /\ CallPosition'[t] = CallPosition[t]
        /\ UNCHANGED <<data, item, head_, log>>
    BY <1>2 DEF EnqueueSlotReady, EnqueueBehind, EnqueueReload, EnqueueCasFails,
                CallState, CallItem, CallPosition, Writing, Reading
  <2>2. \A u \in Threads \ {t} : pos'[u] = pos[u]
    BY <1>2 DEF EnqueueSlotReady, EnqueueBehind, EnqueueReload, EnqueueCasFails
  <2>3. PICK to \in {"e_seq", "e_reload", "e_cas"} : pc' = [pc EXCEPT ![t] = to]
    BY <1>2 DEF EnqueueSlotReady, EnqueueBehind, EnqueueReload, EnqueueCasFails
  <2>4. QED  BY <2>1, <2>2, <2>3, InvisibleStep
<1>3. CASE EnqueueFull(t)
  <2>1. /\ CallState' = [CallState EXCEPT ![t] = CallState'[t]]
        /\ CallItem' = [CallItem EXCEPT ![t] = CallItem'[t]]
        /\ CallPosition' = [CallPosition EXCEPT ![t] = CallPosition'[t]]
    BY <1>3, OnlyOwnCall DEF EnqueueFull
  <2>2. /\ CallState[t] = "enq" /\ CallState'[t] = "idle"
        /\ CallItem'[t] = NoItem /\ CallPosition'[t] = 0
    BY <1>3 DEF EnqueueFull, CallState, CallItem, CallPosition, Writing, Reading
  <2>3. \/ Len(log) - head_ = Capacity
        \/ \E u \in Threads : /\ CallState[u] = "dequeued"
                               /\ CallPosition[u] = Len(log) - Capacity
    BY <1>3, RefusalOfEnqueue DEF CallState, CallPosition, Reading
  <2>4. Fifo!ReturnFalse(t)
    BY <1>3, <2>1, <2>2, <2>3 DEF EnqueueFull, Fifo!ReturnFalse, Fifo!Step
  <2>5. QED  BY <2>4 DEF Fifo!Next
<1>4. CASE EnqueueClaim(t)
  <2>1. /\ CallState' = [CallState EXCEPT ![t] = CallState'[t]]
        /\ CallItem' = [CallItem EXCEPT ![t] = CallItem'[t]]
        /\ CallPosition' = [CallPosition EXCEPT ![t] = CallPosition'[t]]
    BY <1>4, OnlyOwnCall DEF EnqueueClaim
  <2>2. /\ CallState[t] = "enq" /\ CallState'[t] = "enqueued"
        /\ CallItem[t] = item[t] /\ CallItem'[t] = item[t]
        /\ CallPosition'[t] = Len(log)
    BY <1>4
    DEF EnqueueClaim, SlotProtocol, CallState, CallItem, CallPosition,
        Writing, Reading
  <2>3. Len(log) - head_ < Capacity
    BY <1>4, ClaimFindsRoom, CapacityAssumption DEF SlotProtocol
  <2>4. Fifo!LinEnqueue(t)
    BY <1>4, <2>1, <2>2, <2>3 DEF EnqueueClaim, Fifo!LinEnqueue, Fifo!Step
  <2>5. QED  BY <2>4 DEF Fifo!Next
<1>5. CASE EnqueueWrite(t)
  <2>1. Writing(t) /\ Writing(t)'
    BY <1>5 DEF EnqueueWrite, Writing
  <2>2. ASSUME NEW u \in Threads \ {t}, pc[u] = "d_read"
        PROVE  data'[Idx(pos[u])] = data[Idx(pos[u])]
    <3>1. Idx(pos[u]) # Idx(pos[t])
      BY <2>1, <2>2, ReaderSlot DEF Reading
    <3>2. QED  BY <1>5, <3>1, IdxInSlots DEF EnqueueWrite
  <2>3. /\ CallState'[t] = CallState[t] /\ CallItem'[t] = CallItem[t]
        /\ CallPosition'[t] = CallPosition[t]
    BY <1>5 DEF EnqueueWrite, CallState, CallItem, CallPosition, Writing, Reading
  <2>4. QED
    BY <1>5, <2>2, <2>3, InvisibleStep DEF EnqueueWrite
<1>6. CASE EnqueuePublish(t)
  <2>1. /\ CallState' = [CallState EXCEPT ![t] = CallState'[t]]
        /\ CallItem' = [CallItem EXCEPT ![t] = CallItem'[t]]
        /\ CallPosition' = [CallPosition EXCEPT ![t] = CallPosition'[t]]
    BY <1>6, OnlyOwnCall DEF EnqueuePublish
  <2>2. /\ CallState[t] = "enqueued" /\ CallState'[t] = "idle"
        /\ CallItem'[t] = NoItem /\ CallPosition'[t] = 0
    BY <1>6 DEF EnqueuePublish, CallState, CallItem, CallPosition, Writing, Reading
  <2>3. Fifo!ReturnTrue(t)
    BY <1>6, <2>1, <2>2 DEF EnqueuePublish, Fifo!ReturnTrue, Fifo!Step
  <2>4. QED  BY <2>3 DEF Fifo!Next
<1>7. QED
  BY <1>1, <1>2, <1>3, <1>4, <1>5, <1>6 DEF EnqueueStep

(* Every step of try_dequeue is a step of the abstract queue, or none. *)
LEMMA DequeueRefines ==
  ASSUME TypeOK, SlotProtocol, HandsEmpty, NEW t \in Threads,
         CallDequeue(t) \/ DequeueStep(t)
  PROVE  [Fifo!Next]_(Fifo!vars)
<1> USE DEF TypeOK, Goto, Return
<1>1. CASE CallDequeue(t)
  <2>1. /\ CallState' = [CallState EXCEPT ![t] = CallState'[t]]
        /\ CallItem' = [CallItem EXCEPT ![t] = CallItem'[t]]
        /\ CallPosition' = [CallPosition EXCEPT ![t] = CallPosition'[t]]
    BY <1>1, OnlyOwnCall DEF CallDequeue
  <2>2. /\ CallState[t] = "idle" /\ CallState'[t] = "deq"
        /\ CallItem'[t] = NoItem /\ CallPosition'[t] = 0
    BY <1>1 DEF CallDequeue, CallState, CallItem, CallPosition, HandsEmpty, Writing,
           Reading
  <2>3. Fifo!CallDequeue(t)
    BY <1>1, <2>1, <2>2 DEF CallDequeue, Fifo!CallDequeue, Fifo!Step
  <2>4. QED  BY <2>3 DEF Fifo!Next
<1>2. CASE DequeueSlotReady(t) \/ DequeueBehind(t) \/ DequeueReload(t)
           \/ DequeueCasFails(t)
  <2>1. /\ CallState'[t] = CallState[t] /\ CallItem'[t] = CallItem[t]
        /\ CallPosition'[t] = CallPosition[t]
        /\ UNCHANGED <<data, item, head_, log>>
    BY <1>2 DEF DequeueSlotReady, DequeueBehind, DequeueReload, DequeueCasFails,
                CallState, CallItem, CallPosition, Writing, Reading
  <2>2. \A u \in Threads \ {t} : pos'[u] = pos[u]
    BY <1>2 DEF DequeueSlotReady, DequeueBehind, DequeueReload, DequeueCasFails
  <2>3. PICK to \in {"d_seq", "d_reload", "d_cas"} : pc' = [pc EXCEPT ![t] = to]
    BY <1>2 DEF DequeueSlotReady, DequeueBehind, DequeueReload, DequeueCasFails
  <2>4. QED  BY <2>1, <2>2, <2>3, InvisibleStep
<1>3. CASE DequeueEmpty(t)
  <2>1. /\ CallState' = [CallState EXCEPT ![t] = CallState'[t]]
        /\ CallItem' = [CallItem EXCEPT ![t] = CallItem'[t]]
        /\ CallPosition' = [CallPosition EXCEPT ![t] = CallPosition'[t]]
    BY <1>3, OnlyOwnCall DEF DequeueEmpty
  <2>2. /\ CallState[t] = "deq" /\ CallState'[t] = "idle"
        /\ CallItem'[t] = NoItem /\ CallPosition'[t] = 0
    BY <1>3 DEF DequeueEmpty, CallState, CallItem, CallPosition, Writing, Reading
  <2>3. \/ head_ = Len(log)
        \/ \E u \in Threads : /\ CallState[u] = "enqueued"
                               /\ CallPosition[u] = head_
    BY <1>3, RefusalOfDequeue DEF CallState, CallPosition, Writing
  <2>4. Fifo!ReturnNullopt(t)
    BY <1>3, <2>1, <2>2, <2>3 DEF DequeueEmpty, Fifo!ReturnNullopt, Fifo!Step
  <2>5. QED  BY <2>4 DEF Fifo!Next
<1>4. CASE DequeueClaim(t)
  <2>1. /\ CallState' = [CallState EXCEPT ![t] = CallState'[t]]
        /\ CallItem' = [CallItem EXCEPT ![t] = CallItem'[t]]
        /\ CallPosition' = [CallPosition EXCEPT ![t] = CallPosition'[t]]
    BY <1>4, OnlyOwnCall DEF DequeueClaim
  <2>2. head_ < tail_ /\ data[Idx(head_)] = log[head_ + 1]
    BY <1>4, ClaimFindsItem
  <2>3. /\ CallState[t] = "deq" /\ CallState'[t] = "dequeued"
        /\ CallItem'[t] = log[head_ + 1] /\ CallPosition'[t] = head_
    BY <1>4, <2>2 DEF DequeueClaim, CallState, CallItem, CallPosition, Writing, Reading
  <2>4. head_ < Len(log)
    BY <2>2 DEF SlotProtocol
  <2>5. Fifo!LinDequeue(t)
    BY <1>4, <2>1, <2>3, <2>4 DEF DequeueClaim, Fifo!LinDequeue, Fifo!Step
  <2>6. QED  BY <2>5 DEF Fifo!Next
<1>5. CASE DequeueRead(t)
  <2>1. Reading(t)
    BY <1>5 DEF DequeueRead, Reading
  <2>2. ASSUME NEW u \in Threads \ {t}, pc[u] = "d_read"
        PROVE  data'[Idx(pos[u])] = data[Idx(pos[u])]
    <3>1. Idx(pos[u]) # Idx(pos[t])
      BY <2>1, <2>2, ReaderSlot DEF Reading
    <3>2. QED  BY <1>5, <3>1, IdxInSlots DEF DequeueRead
  <2>3. /\ CallState'[t] = CallState[t] /\ CallItem'[t] = CallItem[t]
        /\ CallPosition'[t] = CallPosition[t]
    BY <1>5 DEF DequeueRead, CallState, CallItem, CallPosition, Writing, Reading
  <2>4. QED
    BY <1>5, <2>2, <2>3, InvisibleStep DEF DequeueRead
<1>6. CASE DequeueRelease(t)
  <2>1. /\ CallState' = [CallState EXCEPT ![t] = CallState'[t]]
        /\ CallItem' = [CallItem EXCEPT ![t] = CallItem'[t]]
        /\ CallPosition' = [CallPosition EXCEPT ![t] = CallPosition'[t]]
    BY <1>6, OnlyOwnCall DEF DequeueRelease
  <2>2. /\ CallState[t] = "dequeued" /\ CallState'[t] = "idle"
        /\ CallItem'[t] = NoItem /\ CallPosition'[t] = 0
    BY <1>6 DEF DequeueRelease, CallState, CallItem, CallPosition, Writing, Reading
  <2>3. Fifo!ReturnItem(t)
    BY <1>6, <2>1, <2>2 DEF DequeueRelease, Fifo!ReturnItem, Fifo!Step
  <2>4. QED  BY <2>3 DEF Fifo!Next
<1>7. QED
  BY <1>1, <1>2, <1>3, <1>4, <1>5, <1>6 DEF DequeueStep

(* size() is invisible. *)
LEMMA SizeRefines ==
  ASSUME TypeOK, NEW t \in Threads, CallSize(t) \/ SizeLoadTail(t)
  PROVE  UNCHANGED Fifo!vars
<1> USE DEF TypeOK, Goto
<1>1. /\ CallState'[t] = CallState[t] /\ CallItem'[t] = CallItem[t]
      /\ CallPosition'[t] = CallPosition[t]
      /\ UNCHANGED <<data, item, head_, log>>
  BY DEF CallSize, SizeLoadTail, CallState, CallItem, CallPosition, Writing, Reading
<1>2. \A u \in Threads \ {t} : pos'[u] = pos[u]
  BY DEF CallSize, SizeLoadTail
<1>3. PICK to \in {"s_tail", "idle"} : pc' = [pc EXCEPT ![t] = to]
  BY DEF CallSize, SizeLoadTail
<1>4. QED  BY <1>1, <1>2, <1>3, InvisibleStep

(* The lock-free queue is a linearizable bounded FIFO: items come out once *)
(* and in the order in which they were accepted, and a call refuses only   *)
(* for the reasons BoundedFifo allows.                                     *)
THEOREM QueueImplementsFifo == Spec => ImplementsFifo
<1>1. Init => Fifo!Init
  BY DEF Init, Fifo!Init, CallState, CallItem, CallPosition, Writing, Reading
<1>2. TypeOK /\ SlotProtocol /\ HandsEmpty /\ [Next]_vars
        => [Fifo!Next]_(Fifo!vars)
  <2> SUFFICES ASSUME TypeOK, SlotProtocol, HandsEmpty, [Next]_vars
               PROVE  [Fifo!Next]_(Fifo!vars)
    OBVIOUS
  <2>1. ASSUME NEW t \in Producers, CallEnqueue(t) \/ EnqueueStep(t)
        PROVE  [Fifo!Next]_(Fifo!vars)
    BY <2>1, EnqueueRefines DEF Threads
  <2>2. ASSUME NEW t \in Consumers, CallDequeue(t) \/ DequeueStep(t)
        PROVE  [Fifo!Next]_(Fifo!vars)
    BY <2>2, DequeueRefines DEF Threads
  <2>3. ASSUME NEW t \in Monitors, CallSize(t) \/ SizeLoadTail(t)
        PROVE  [Fifo!Next]_(Fifo!vars)
    BY <2>3, SizeRefines DEF Threads
  <2>4. CASE UNCHANGED vars
    BY <2>4 DEF vars, Fifo!vars, CallState, CallItem, CallPosition, Writing, Reading
  <2>5. QED  BY <2>1, <2>2, <2>3, <2>4 DEF Next
<1>3. QED
  BY <1>1, <1>2, TypeCorrect, ProtocolInvariant, HandsEmptyInvariant, PTL
  DEF Spec, ImplementsFifo, Fifo!Spec
=============================================================================
