------------------------- MODULE BurgerQueueProofs -------------------------
(***************************************************************************)
(* Proofs about the ring of cashiers of the Burger Buddies program and     *)
(* about how the shop closes, for any number of cooks, cashiers and        *)
(* customers.                                                              *)
(***************************************************************************)
EXTENDS BurgerProofs

-----------------------------------------------------------------------------
(* The ring as a queue.                                                    *)

\* What % Slots does to the sums of two indices.
LEMMA ModCases ==
    ASSUME NEW x \in 0..(2 * Slots)
    PROVE  x % Slots = IF x < Slots THEN x
                       ELSE IF x < 2 * Slots THEN x - Slots ELSE 0
<1>1. Slots \in Nat /\ Slots > 0 /\ x \in Int
  BY SlotsType
<1>2. CASE x < Slots
  BY <1>1, <1>2
<1>3. CASE x >= Slots /\ x < 2 * Slots
  BY <1>1, <1>3
<1>4. CASE x = 2 * Slots
  BY <1>1, <1>4
<1> QED BY <1>1, <1>2, <1>3, <1>4

\* The slot of the i-th cashier on ring q.
Slot(q, i) == (q.head + i - 1) % Slots

LEMMA RingFields ==
    ASSUME NEW q \in RingType
    PROVE  /\ q.head \in 0..(Slots - 1) /\ q.tail \in -1..(Slots - 1)
           /\ q.sleepingQueue \in [0..(Slots - 1) -> Cashiers \cup {NoThread}]
           /\ queueSize(q) \in 0..(Slots - 1)
           /\ \A i \in 1..Slots : Slot(q, i) \in 0..(Slots - 1)
<1>1. /\ q.head \in 0..(Slots - 1) /\ q.tail \in -1..(Slots - 1)
      /\ q.sleepingQueue \in [0..(Slots - 1) -> Cashiers \cup {NoThread}]
  BY DEF RingType
<1>2. q.tail + 1 - q.head + Slots \in Int /\ \A i \in 1..Slots : q.head + i - 1 \in Int
  BY <1>1, SlotsType
<1> QED BY <1>1, <1>2, ModSlots DEF queueSize, Slot

\* The arithmetic of enqueue() and dequeue().
LEMMA RingArithmetic ==
    ASSUME NEW q \in RingType
    PROVE  /\ (q.tail + 1) % Slots = (q.head + queueSize(q)) % Slots
           /\ dequeueEmpty(q) <=> queueSize(q) = 0
           /\ queueSize(q) < Slots - 1 =>
                 (((q.tail + 1) % Slots) + 1 - q.head + Slots) % Slots
                    = queueSize(q) + 1
           /\ queueSize(q) > 0 =>
                 (q.tail + 1 - ((q.head + 1) % Slots) + Slots) % Slots
                    = queueSize(q) - 1
<1> USE SlotsType
<1> DEFINE h == q.head
           t == q.tail
           s == queueSize(q)
           n == (t + 1) % Slots
           g == (h + 1) % Slots
<1>0. /\ h \in 0..(Slots - 1) /\ t \in -1..(Slots - 1)
      /\ s = (t + 1 - h + Slots) % Slots
  BY RingFields DEF queueSize
<1> HIDE DEF h, t, s
<1>1. s = IF t + 1 < h THEN t + 1 - h + Slots
          ELSE IF t + 1 < h + Slots THEN t + 1 - h ELSE 0
  <2>1. t + 1 - h + Slots \in 0..(2 * Slots)
    BY <1>0
  <2> QED BY <1>0, <2>1, ModCases
<1>2. n = IF t + 1 < Slots THEN t + 1 ELSE 0
  <2>1. t + 1 \in 0..(2 * Slots)
    BY <1>0
  <2> QED BY <1>0, <2>1, ModCases
<1>3. g = IF h + 1 < Slots THEN h + 1 ELSE 0
  <2>1. h + 1 \in 0..(2 * Slots)
    BY <1>0
  <2> QED BY <1>0, <2>1, ModCases
<1>4. s \in 0..(Slots - 1)
  BY <1>0, <1>1
<1>5. (h + s) % Slots = IF h + s < Slots THEN h + s ELSE h + s - Slots
  <2>1. h + s \in 0..(2 * Slots) /\ h + s < 2 * Slots
    BY <1>0, <1>4
  <2> QED BY <1>0, <1>4, <2>1, ModCases
<1> HIDE DEF n, g
<1>6. (n + 1 - h + Slots) % Slots
         = IF n + 1 < h THEN n + 1 - h + Slots
           ELSE IF n + 1 < h + Slots THEN n + 1 - h ELSE 0
  <2> DEFINE x == n + 1 - h + Slots
  <2>1. x \in 0..(2 * Slots) /\ n \in Int
    BY <1>0, <1>2
  <2>2. x % Slots = IF x < Slots THEN x
                    ELSE IF x < 2 * Slots THEN x - Slots ELSE 0
    <3> HIDE DEF x
    <3> QED BY <2>1, ModCases
  <2>3. /\ x < Slots <=> n + 1 < h
        /\ x < 2 * Slots <=> n + 1 < h + Slots
        /\ x - Slots = n + 1 - h
    BY <1>0, <2>1
  <2> QED BY <2>2, <2>3
<1>7. (t + 1 - g + Slots) % Slots
         = IF t + 1 < g THEN t + 1 - g + Slots
           ELSE IF t + 1 < g + Slots THEN t + 1 - g ELSE 0
  <2> DEFINE x == t + 1 - g + Slots
  <2>1. x \in 0..(2 * Slots) /\ g \in Int
    BY <1>0, <1>3
  <2>2. x % Slots = IF x < Slots THEN x
                    ELSE IF x < 2 * Slots THEN x - Slots ELSE 0
    <3> HIDE DEF x
    <3> QED BY <2>1, ModCases
  <2>3. /\ x < Slots <=> t + 1 < g
        /\ x < 2 * Slots <=> t + 1 < g + Slots
        /\ x - Slots = t + 1 - g
    BY <1>0, <2>1
  <2> QED BY <2>2, <2>3
<1>8. n = (h + s) % Slots
  BY <1>0, <1>1, <1>2, <1>4, <1>5
<1>9. h = n <=> s = 0
  BY <1>0, <1>1, <1>2
<1>10. s < Slots - 1 => (n + 1 - h + Slots) % Slots = s + 1
  BY <1>0, <1>1, <1>2, <1>4, <1>6
<1>11. s > 0 => (t + 1 - g + Slots) % Slots = s - 1
  BY <1>0, <1>1, <1>3, <1>4, <1>7
<1>12. dequeueEmpty(q) <=> s = 0
  BY <1>9, Zenon DEF dequeueEmpty, h, t, n
<1> QED BY <1>8, <1>12, <1>10, <1>11, Zenon DEF n, g, h, t, s

\* Different places on the ring are different slots.
LEMMA SlotsApart ==
    ASSUME NEW h \in 0..(Slots - 1), NEW i \in 1..Slots, NEW j \in 1..Slots,
           (h + i - 1) % Slots = (h + j - 1) % Slots
    PROVE  i = j
<1> USE SlotsType
<1>1. ASSUME NEW k \in 1..Slots
      PROVE  (h + k - 1) % Slots = IF h + k - 1 < Slots THEN h + k - 1
                                   ELSE h + k - 1 - Slots
  <2>1. h + k - 1 \in 0..(2 * Slots) /\ h + k - 1 < 2 * Slots
    BY <1>1
  <2> QED BY <2>1, ModCases
<1> QED BY <1>1

\* enqueue() on a ring with room adds one cashier behind the others.
LEMMA EnqueueAppends ==
    ASSUME NEW q \in RingType, NEW a \in Cashiers, queueSize(q) < Slots - 1
    PROVE  LET r == enqueue(q, a) IN
           /\ queueSize(r) = queueSize(q) + 1
           /\ r.sleepingQueue[Slot(r, queueSize(q) + 1)] = a
           /\ \A i \in 1..queueSize(q) :
                 r.sleepingQueue[Slot(r, i)] = q.sleepingQueue[Slot(q, i)]
<1> USE SlotsType
<1> DEFINE r == enqueue(q, a)
           n == (q.tail + 1) % Slots
           s == queueSize(q)
<1>1. /\ q.head \in 0..(Slots - 1) /\ q.tail \in -1..(Slots - 1)
      /\ q.sleepingQueue \in [0..(Slots - 1) -> Cashiers \cup {NoThread}]
      /\ s \in 0..(Slots - 1)
      /\ \A i \in 1..Slots : Slot(q, i) \in 0..(Slots - 1)
  BY RingFields
<1>2. s = (q.tail + 1 - q.head + Slots) % Slots
  BY DEF queueSize
<1>3. /\ r.head = q.head /\ r.tail = n
      /\ r.sleepingQueue = [q.sleepingQueue EXCEPT ![n] = a]
  BY DEF enqueue
<1>4. n = (q.head + s) % Slots /\ (n + 1 - q.head + Slots) % Slots = s + 1
  BY RingArithmetic
<1>5. n = Slot(q, s + 1)
  <2>1. q.head + (s + 1) - 1 = q.head + s
    BY <1>1
  <2> QED BY <1>4, <2>1 DEF Slot
<1>6. s + 1 \in 1..Slots /\ n \in 0..(Slots - 1)
  BY <1>1, <1>5
<1>7. queueSize(r) = s + 1
  BY <1>3, <1>4 DEF queueSize
<1>8. \A i \in 1..Slots : Slot(r, i) = Slot(q, i)
  BY <1>3 DEF Slot
<1>9. ASSUME NEW i \in 1..s
      PROVE  Slot(q, i) # n
  <2>1. i \in 1..Slots /\ i # s + 1
    BY <1>1, <1>9
  <2>2. Slot(q, i) = Slot(q, s + 1) => i = s + 1
    BY <1>1, <1>6, <2>1, SlotsApart DEF Slot
  <2> QED BY <1>5, <2>1, <2>2
<1>10. r.sleepingQueue[Slot(r, s + 1)] = a
  BY <1>1, <1>3, <1>5, <1>6, <1>8
<1>11. ASSUME NEW i \in 1..s
       PROVE  r.sleepingQueue[Slot(r, i)] = q.sleepingQueue[Slot(q, i)]
  <2>1. i \in 1..Slots
    BY <1>1, <1>11
  <2> HIDE DEF s, n, r
  <2> QED BY <1>1, <1>3, <1>8, <1>9, <2>1
<1> QED BY <1>7, <1>10, <1>11

\* dequeue() on a ring with somebody on it takes the first one off.
LEMMA DequeueTakesFirst ==
    ASSUME NEW q \in RingType, queueSize(q) > 0
    PROVE  LET r == dequeueRest(q) IN
           /\ queueSize(r) = queueSize(q) - 1
           /\ dequeued(q) = q.sleepingQueue[Slot(q, 1)]
           /\ r.sleepingQueue = q.sleepingQueue
           /\ \A i \in 1..queueSize(r) : Slot(r, i) = Slot(q, i + 1)
<1> USE SlotsType
<1> DEFINE r == dequeueRest(q)
           g == (q.head + 1) % Slots
           s == queueSize(q)
<1>1. /\ q.head \in 0..(Slots - 1) /\ q.tail \in -1..(Slots - 1)
      /\ s \in 0..(Slots - 1)
  BY RingFields
<1>2. s = (q.tail + 1 - q.head + Slots) % Slots
  BY DEF queueSize
<1>3. ~dequeueEmpty(q) /\ (q.tail + 1 - g + Slots) % Slots = s - 1
  <2>1. s # 0
    BY <1>1
  <2>2. ~dequeueEmpty(q)
    BY <2>1, RingArithmetic
  <2>3. (q.tail + 1 - g + Slots) % Slots = s - 1
    BY RingArithmetic, Zenon
  <2> QED BY <2>2, <2>3
<1>4. r.head = g /\ r.tail = q.tail /\ r.sleepingQueue = q.sleepingQueue
  BY <1>3 DEF dequeueRest, RingType
<1>5. queueSize(r) = s - 1
  BY <1>3, <1>4 DEF queueSize
<1>6. dequeued(q) = q.sleepingQueue[Slot(q, 1)]
  <2>1. q.head + 1 - 1 = q.head /\ q.head \in 0..(2 * Slots) /\ q.head < Slots
    BY <1>1
  <2>2. Slot(q, 1) = q.head
    BY <2>1, ModCases DEF Slot
  <2> QED BY <1>3, <2>2 DEF dequeued
<1>7. ASSUME NEW i \in 1..(s - 1)
      PROVE  Slot(r, i) = Slot(q, i + 1)
  <2>1. g = IF q.head + 1 < Slots THEN q.head + 1 ELSE 0
    <3>1. q.head + 1 \in 0..(2 * Slots)
      BY <1>1
    <3> DEFINE x == q.head + 1
    <3>2. g = IF x < Slots THEN x ELSE IF x < 2 * Slots THEN x - Slots ELSE 0
      BY <3>1, ModCases
    <3> QED BY <1>1, <3>2
  <2> HIDE DEF g, s
  <2>2. (g + i - 1) % Slots = IF g + i - 1 < Slots THEN g + i - 1
                              ELSE g + i - 1 - Slots
    <3> DEFINE x == g + i - 1
    <3>1. x \in 0..(2 * Slots) /\ x < 2 * Slots
      BY <1>1, <1>7, <2>1
    <3>2. g \in Int /\ i \in Int
      BY <1>1, <1>7, <2>1
    <3> QED BY <3>1, <3>2, ModCases
  <2>3. (q.head + i) % Slots = IF q.head + i < Slots THEN q.head + i
                               ELSE q.head + i - Slots
    <3> DEFINE x == q.head + i
    <3>1. x \in 0..(2 * Slots) /\ x < 2 * Slots
      BY <1>1, <1>7
    <3>2. q.head \in Int /\ i \in Int
      BY <1>1, <1>7
    <3> QED BY <3>1, <3>2, ModCases
  <2>4. (g + i - 1) % Slots = (q.head + i) % Slots
    BY <1>1, <1>7, <2>1, <2>2, <2>3
  <2>5. q.head + (i + 1) - 1 = q.head + i
    BY <1>1, <1>7
  <2> QED BY <1>4, <2>4, <2>5 DEF Slot, g
<1> QED BY <1>4, <1>5, <1>6, <1>7

-----------------------------------------------------------------------------
(* The protocol around the ring: QueueInv is inductive, given TypeOK.      *)

\* A step that leaves alone what the ring's protocol is about.
QueueFrame ==
    /\ UNCHANGED <<mainPc, managerPc, signalled, cashierAvailable,
                   waitForCashier, ring, serverID, customersServed>>
    /\ owner'["queueMutex"] = owner["queueMutex"] /\ owner'["CM"] = owner["CM"]
    /\ sem'["cashiersAllBusy"] = sem["cashiersAllBusy"]
    /\ sem'["finish"] = sem["finish"]

LEMMA RingFrame ==
    ASSUME UNCHANGED ring
    PROVE  /\ ringSeq' = ringSeq /\ onRing' = onRing
           /\ queueSize(ring)' = queueSize(ring)
BY DEF ringSeq, onRing

\* The sets that OrdersAddUp counts are finite.
LEMMA OrderSets ==
    /\ IsFiniteSet(ordering) /\ IsFiniteSet(woken) /\ IsFiniteSet(working)
    /\ Cardinality(ordering) \in Nat /\ Cardinality(woken) \in Nat
    /\ Cardinality(working) \in Nat
    /\ Cardinality(ordering) <= Cardinality(Customers)
    /\ Cardinality(Customers) \in Nat
<1>1. ordering \in SUBSET Customers
  BY DEF ordering
<1>2. woken \in SUBSET Cashiers /\ working \in SUBSET Cashiers
  BY DEF woken, working
<1>3. IsFiniteSet(ordering) /\ Cardinality(ordering) <= Cardinality(Customers)
  BY <1>1, FS_Subset, ParametersOK
<1>4. IsFiniteSet(woken) /\ IsFiniteSet(working)
  BY <1>2, FS_Subset, ParametersOK
<1> QED BY <1>3, <1>4, FS_CardinalityType, ParametersOK

\* Where a step of a cook or a cashier concerns the ring.
AtQueue == {"enqueue", "unlockQueue", "sleep", "exited"}

\* A member of the staff moves, away from the ring.
LEMMA ElsewhereKeepsQueue ==
    ASSUME TypeOK, QueueInv, QueueFrame, NEW t \in Staff, NEW l,
           pc' = [pc EXCEPT ![t] = l], pc[t] \notin AtQueue, l \notin AtQueue,
           t \in Cashiers =>
              (pc[t] \in Ordered \cup Carrying <=> l \in Ordered \cup Carrying)
    PROVE  QueueInv'
<1>1. /\ \A c \in Customers : pc'[c] = pc[c]
      /\ \A s \in Staff : s # t => pc'[s] = pc[s]
      /\ pc'[t] = l
      /\ Cashiers \subseteq Staff
  BY ParametersOK DEF TypeOK, Threads, Staff
<1>2. /\ ringSeq' = ringSeq /\ onRing' = onRing
      /\ queueSize(ring)' = queueSize(ring)
  BY RingFrame DEF QueueFrame
<1>3. \A a \in Cashiers : Chosen(a)' = Chosen(a)
  BY <1>1 DEF Chosen, QueueFrame
<1>4. QueueMutexes'
  BY <1>1 DEF QueueInv, QueueMutexes, QueueFrame, AtQueue
<1>5. CashierRequests'
  BY <1>1, <1>2 DEF QueueInv, CashierRequests, NoneAsked, QueueFrame
<1>6. \A a \in Cashiers : /\ Idle(a)' <=> Idle(a)
                          /\ pc'[a] = "exited" <=> pc[a] = "exited"
  BY <1>1, <1>3 DEF Idle, QueueFrame, AtQueue
<1>7. RingOfTheIdle'
  BY <1>2, <1>6 DEF QueueInv, RingOfTheIdle
<1>8. ChosenSleep'
  BY <1>1 DEF QueueInv, ChosenSleep, QueueFrame, AtQueue
<1>9. ClosingOrder'
  BY <1>1 DEF QueueInv, ClosingOrder, QueueFrame, AtQueue, Threads
<1>10. ordering' = ordering /\ woken' = woken /\ working' = working
  BY <1>1 DEF ordering, woken, working, QueueFrame
<1>11. OrdersAddUp'
  BY <1>10 DEF QueueInv, OrdersAddUp, QueueFrame
<1> QED BY <1>4, <1>5, <1>7, <1>8, <1>9, <1>11 DEF QueueInv

\* No step of a cook concerns the ring.
LEMMA CookKeepsQueue ==
    ASSUME TypeOK, QueueInv, NEW k \in Cooks, cook(k)
    PROVE  QueueInv'
<1>0. k \notin Cashiers
  BY ParametersOK
<1> USE DEF TypeOK, QueueFrame, Step, Mutexes, Semaphores, control, data,
            counters, Staff, AtQueue, Ordered, Carrying
<1>1. CASE CookLockCK(k)
  <2>1. QueueFrame /\ pc[k] = "lockCK" /\ pc' = [pc EXCEPT ![k] = "lockRack"]
    BY <1>1 DEF CookLockCK, Acquire
  <2> QED BY <1>0, <2>1, ElsewhereKeepsQueue
<1>2. CASE CookUnlockFull(k)
  <2>1. QueueFrame /\ pc[k] = "unlockFull" /\ pc' = [pc EXCEPT ![k] = "waitFull"]
    BY <1>2 DEF CookUnlockFull, Release, Unlock
  <2> QED BY <1>0, <2>1, ElsewhereKeepsQueue
<1>3. CASE CookWaitFull(k)
  <2>1. QueueFrame /\ pc[k] = "waitFull" /\ pc' = [pc EXCEPT ![k] = "relockRack"]
    BY <1>3 DEF CookWaitFull, Await
  <2> QED BY <1>0, <2>1, ElsewhereKeepsQueue
<1>4. CASE CookRelockRack(k)
  <2>1. QueueFrame /\ pc[k] = "relockRack" /\ pc' = [pc EXCEPT ![k] = "put"]
    BY <1>4 DEF CookRelockRack, Acquire
  <2> QED BY <1>0, <2>1, ElsewhereKeepsQueue
<1>5. CASE CookPut(k)
  <2>1. QueueFrame /\ pc[k] = "put" /\ pc' = [pc EXCEPT ![k] = "unlockRack"]
    BY <1>5 DEF CookPut, SemPost
  <2> QED BY <1>0, <2>1, ElsewhereKeepsQueue
<1>6. CASE CookUnlockRack(k)
  <2>1. QueueFrame /\ pc[k] = "unlockRack" /\ pc' = [pc EXCEPT ![k] = "unlockCK"]
    BY <1>6 DEF CookUnlockRack, Release, Unlock
  <2> QED BY <1>0, <2>1, ElsewhereKeepsQueue
<1>7. CASE CookUnlockCK(k)
  <2>1. QueueFrame /\ pc[k] = "unlockCK" /\ pc' = [pc EXCEPT ![k] = "lockCK"]
    BY <1>7 DEF CookUnlockCK, Release, Unlock
  <2> QED BY <1>0, <2>1, ElsewhereKeepsQueue
<1>8. CASE CookLockRack(k)
  <2>1. PICK l \in {"unlockFull", "put"} :
           QueueFrame /\ pc[k] = "lockRack" /\ pc' = [pc EXCEPT ![k] = l]
    BY <1>8 DEF CookLockRack, Acquire
  <2> QED BY <1>0, <2>1, ElsewhereKeepsQueue
<1> QED BY <1>1, <1>2, <1>3, <1>4, <1>5, <1>6, <1>7, <1>8 DEF cook

\* The steps of a cashier between the ring and the counter do not concern the
\* ring: it takes the order to the rack and the burger to the customer.
LEMMA ServingKeepsQueue ==
    ASSUME TypeOK, QueueInv, NEW a \in Cashiers,
           \/ CashierLockCA(a) \/ CashierLockRack(a) \/ CashierUnlockEmpty(a)
           \/ CashierWaitBurger(a) \/ CashierRelockRack(a) \/ CashierTake(a)
           \/ CashierUnlockRack(a) \/ CashierUnlockCA(a) \/ CashierLockCnt(a)
           \/ CashierUnlockCnt(a)
    PROVE  QueueInv'
<1> USE DEF TypeOK, QueueFrame, Step, Mutexes, Semaphores, control, data,
            counters, Staff, AtQueue, Ordered, Carrying
<1>1. CASE CashierLockCA(a)
  <2>1. QueueFrame /\ pc[a] = "lockCA" /\ pc' = [pc EXCEPT ![a] = "lockRack"]
    BY <1>1 DEF CashierLockCA, Acquire
  <2> QED BY <2>1, ElsewhereKeepsQueue
<1>2. CASE CashierUnlockEmpty(a)
  <2>1. QueueFrame /\ pc[a] = "unlockEmpty" /\ pc' = [pc EXCEPT ![a] = "waitBurger"]
    BY <1>2 DEF CashierUnlockEmpty, Unlock
  <2> QED BY <2>1, ElsewhereKeepsQueue
<1>3. CASE CashierWaitBurger(a)
  <2>1. QueueFrame /\ pc[a] = "waitBurger" /\ pc' = [pc EXCEPT ![a] = "relockRack"]
    BY <1>3 DEF CashierWaitBurger, Await
  <2> QED BY <2>1, ElsewhereKeepsQueue
<1>4. CASE CashierRelockRack(a)
  <2>1. QueueFrame /\ pc[a] = "relockRack" /\ pc' = [pc EXCEPT ![a] = "take"]
    BY <1>4 DEF CashierRelockRack, Acquire
  <2> QED BY <2>1, ElsewhereKeepsQueue
<1>5. CASE CashierTake(a)
  <2>1. QueueFrame /\ pc[a] = "take" /\ pc' = [pc EXCEPT ![a] = "unlockRack"]
    BY <1>5 DEF CashierTake, SemPost
  <2> QED BY <2>1, ElsewhereKeepsQueue
<1>6. CASE CashierUnlockRack(a)
  <2>1. QueueFrame /\ pc[a] = "unlockRack" /\ pc' = [pc EXCEPT ![a] = "unlockCA"]
    BY <1>6 DEF CashierUnlockRack, Release, Unlock
  <2> QED BY <2>1, ElsewhereKeepsQueue
<1>7. CASE CashierUnlockCA(a)
  <2>1. QueueFrame /\ pc[a] = "unlockCA" /\ pc' = [pc EXCEPT ![a] = "lockCnt"]
    BY <1>7 DEF CashierUnlockCA, Release, Unlock
  <2> QED BY <2>1, ElsewhereKeepsQueue
<1>8. CASE CashierLockCnt(a)
  <2>1. QueueFrame /\ pc[a] = "lockCnt" /\ pc' = [pc EXCEPT ![a] = "count"]
    BY <1>8 DEF CashierLockCnt, Acquire
  <2> QED BY <2>1, ElsewhereKeepsQueue
<1>9. CASE CashierUnlockCnt(a)
  <2>1. QueueFrame /\ pc[a] = "unlockCnt" /\ pc' = [pc EXCEPT ![a] = "lockQueue"]
    BY <1>9 DEF CashierUnlockCnt, Release, Unlock
  <2> QED BY <2>1, ElsewhereKeepsQueue
<1>10. CASE CashierLockRack(a)
  <2>1. PICK l \in {"unlockEmpty", "take"} :
           QueueFrame /\ pc[a] = "lockRack" /\ pc' = [pc EXCEPT ![a] = l]
    BY <1>10 DEF CashierLockRack, Acquire
  <2> QED BY <2>1, ElsewhereKeepsQueue
<1> QED BY <1>1, <1>2, <1>3, <1>4, <1>5, <1>6, <1>7, <1>8, <1>9, <1>10

-----------------------------------------------------------------------------
(* The ring has room for every cashier.                                    *)

LEMMA RingIsTyped ==
    ASSUME TypeOK
    PROVE  /\ ring \in RingType
           /\ queueSize(ring) \in Nat /\ queueSize(ring) \in 0..(Slots - 1)
<1>1. ring \in RingType
  BY DEF TypeOK, RingType
<1> QED BY <1>1, RingFields, SlotsType

LEMMA RingIsInjection ==
    ASSUME QueueInv
    PROVE  /\ ringSeq \in Injection(1..queueSize(ring), onRing)
           /\ ringSeq \in Surjection(1..queueSize(ring), onRing)
           /\ onRing \subseteq Cashiers
<1>1. ringSeq \in [1..queueSize(ring) -> onRing]
  BY DEF ringSeq, onRing
<1>2. \A i, j \in 1..queueSize(ring) : ringSeq[i] = ringSeq[j] => i = j
  BY DEF QueueInv, RingOfTheIdle
<1>3. \A a \in onRing : \E i \in 1..queueSize(ring) : ringSeq[i] = a
  BY DEF onRing
<1>4. onRing \subseteq Cashiers
  BY DEF onRing, QueueInv, RingOfTheIdle
<1> QED BY <1>1, <1>2, <1>3, <1>4 DEF Injection, IsInjective, Surjection

\* The ring is as long as there are cashiers on it ...
LEMMA RingCounts ==
    ASSUME TypeOK, QueueInv
    PROVE  IsFiniteSet(onRing) /\ Cardinality(onRing) = queueSize(ring)
<1>1. queueSize(ring) \in Nat
  BY RingIsTyped
<1>2. /\ IsFiniteSet(1..queueSize(ring))
      /\ Cardinality(1..queueSize(ring)) = queueSize(ring)
  BY <1>1, FS_Interval
<1> QED BY <1>2, RingIsInjection, FS_Surjection

\* ... so that a cashier that is not on it finds a free slot beside the spare.
LEMMA RoomToJoin ==
    ASSUME TypeOK, QueueInv, NEW a \in Cashiers, a \notin onRing
    PROVE  queueSize(ring) < Slots - 1
<1>1. onRing \in SUBSET (Cashiers \ {a})
  BY RingIsInjection
<1>2. /\ IsFiniteSet(Cashiers \ {a})
      /\ Cardinality(Cashiers \ {a}) = Cardinality(Cashiers) - 1
  BY FS_RemoveElement, ParametersOK
<1>3. Cardinality(onRing) <= Cardinality(Cashiers \ {a})
  BY <1>1, <1>2, FS_Subset
<1>4. Cardinality(Cashiers) \in Nat /\ queueSize(ring) \in Nat
  BY FS_CardinalityType, ParametersOK, RingIsTyped
<1> QED BY <1>2, <1>3, <1>4, RingCounts DEF Slots

\* enqueue() and dequeue() as the steps of a queue of cashiers.
LEMMA JoinRing ==
    ASSUME TypeOK, QueueInv, NEW a \in Cashiers, a \notin onRing,
           ring' = enqueue(ring, a)
    PROVE  /\ queueSize(ring)' = queueSize(ring) + 1
           /\ ringSeq' = [i \in 1..(queueSize(ring) + 1) |->
                             IF i = queueSize(ring) + 1 THEN a ELSE ringSeq[i]]
           /\ onRing' = onRing \cup {a}
<1> DEFINE n == queueSize(ring)
<1>1. ring \in RingType /\ n \in Nat /\ n < Slots - 1
  BY RingIsTyped, RoomToJoin
<1>2. /\ queueSize(ring') = n + 1
      /\ ring'.sleepingQueue[Slot(ring', n + 1)] = a
      /\ \A i \in 1..n : ring'.sleepingQueue[Slot(ring', i)]
                            = ring.sleepingQueue[Slot(ring, i)]
  BY <1>1, EnqueueAppends
<1>3. /\ ringSeq = [i \in 1..n |-> ring.sleepingQueue[Slot(ring, i)]]
      /\ ringSeq' = [i \in 1..(n + 1) |-> ring'.sleepingQueue[Slot(ring', i)]]
  BY <1>2 DEF ringSeq, Slot
<1> HIDE DEF n
<1>4. \A i \in 1..(n + 1) : /\ i # n + 1 => i \in 1..n
                            /\ i = n + 1 => i \notin 1..n
  BY <1>1
<1>5. ASSUME NEW i \in 1..(n + 1)
      PROVE  ring'.sleepingQueue[Slot(ring', i)]
                = IF i = n + 1 THEN a ELSE ringSeq[i]
  BY <1>2, <1>3, <1>4
<1>6. ringSeq' = [i \in 1..(n + 1) |-> IF i = n + 1 THEN a ELSE ringSeq[i]]
  BY <1>3, <1>5
<1>7. onRing = {ringSeq[i] : i \in 1..n}
  BY DEF onRing, n
<1>8. onRing' = {ringSeq'[i] : i \in 1..(n + 1)}
  BY <1>2 DEF onRing
<1>9. 1..(n + 1) = (1..n) \cup {n + 1}
  BY <1>1
<1>10. onRing' = onRing \cup {a}
  BY <1>1, <1>4, <1>6, <1>7, <1>8, <1>9
<1> QED BY <1>2, <1>6, <1>10 DEF n

LEMMA LeaveRing ==
    ASSUME TypeOK, QueueInv, queueSize(ring) > 0, ring' = dequeueRest(ring)
    PROVE  /\ queueSize(ring)' = queueSize(ring) - 1
           /\ dequeued(ring) = ringSeq[1]
           /\ ringSeq' = [i \in 1..(queueSize(ring) - 1) |-> ringSeq[i + 1]]
           /\ dequeued(ring) \in onRing
           /\ onRing' = onRing \ {dequeued(ring)}
<1> DEFINE n == queueSize(ring)
<1>1. ring \in RingType /\ n \in Nat /\ n > 0
  BY RingIsTyped
<1>2. /\ queueSize(ring') = n - 1
      /\ dequeued(ring) = ring.sleepingQueue[Slot(ring, 1)]
      /\ ring'.sleepingQueue = ring.sleepingQueue
      /\ \A i \in 1..(n - 1) : Slot(ring', i) = Slot(ring, i + 1)
  BY <1>1, DequeueTakesFirst
<1>3. /\ ringSeq = [i \in 1..n |-> ring.sleepingQueue[Slot(ring, i)]]
      /\ ringSeq' = [i \in 1..(n - 1) |-> ring'.sleepingQueue[Slot(ring', i)]]
  BY <1>2 DEF ringSeq, Slot
<1>4. \A i, j \in 1..n : ringSeq[i] = ringSeq[j] => i = j
  BY DEF QueueInv, RingOfTheIdle
<1>5. onRing = {ringSeq[i] : i \in 1..n}
  BY DEF onRing
<1>6. onRing' = {ringSeq'[i] : i \in 1..(n - 1)}
  BY <1>2 DEF onRing
<1> HIDE DEF n
<1>7. /\ 1 \in 1..n
      /\ \A i \in 1..(n - 1) : i + 1 \in 1..n /\ i + 1 # 1
      /\ \A i \in 1..n : i # 1 => i - 1 \in 1..(n - 1) /\ (i - 1) + 1 = i
  BY <1>1
<1>8. dequeued(ring) = ringSeq[1]
  BY <1>2, <1>3, <1>7
<1>9. ringSeq' = [i \in 1..(n - 1) |-> ringSeq[i + 1]]
  BY <1>2, <1>3, <1>7
<1>10. onRing' \subseteq onRing \ {ringSeq[1]}
  BY <1>4, <1>5, <1>6, <1>7, <1>9
<1>11. ASSUME NEW b \in onRing, b # ringSeq[1] PROVE b \in onRing'
  <2>1. PICK i \in 1..n : b = ringSeq[i]
    BY <1>5, <1>11
  <2>2. i # 1
    BY <1>11, <2>1
  <2>3. ringSeq'[i - 1] = b
    BY <1>7, <1>9, <2>1, <2>2
  <2> QED BY <1>6, <1>7, <2>2, <2>3
<1> QED BY <1>2, <1>5, <1>7, <1>8, <1>9, <1>10, <1>11 DEF n

-----------------------------------------------------------------------------
(* A cashier at the ring and at the counter.                               *)

LEMMA CashierMoves ==
    ASSUME TypeOK, NEW a \in Cashiers, NEW from, NEW to, Step(a, from, to)
    PROVE  /\ pc[a] = from /\ pc'[a] = to
           /\ \A b \in Cashiers : b # a => pc'[b] = pc[b]
           /\ \A c \in Customers : pc'[c] = pc[c]
           /\ pc' = [pc EXCEPT ![a] = to]
BY ParametersOK DEF TypeOK, Step, Threads, Staff

LEMMA ClosingKept ==
    ASSUME TypeOK, ClosingOrder, NEW t \in Threads, NEW l,
           pc' = [pc EXCEPT ![t] = l], pc[t] # "exited",
           t \in Staff => l # "exited",
           UNCHANGED <<mainPc, managerPc, signalled, customersServed>>,
           sem'["finish"] = sem["finish"]
    PROVE  ClosingOrder' /\ mainPc # "exited"
<1>1. mainPc # "exited"
  BY DEF ClosingOrder
<1>2. \A u \in Staff : pc'[u] = "exited" => pc[u] = "exited"
  BY DEF TypeOK, Threads
<1> QED BY <1>1, <1>2 DEF ClosingOrder

LEMMA CashierLockKeepsQueue ==
    ASSUME TypeOK, QueueInv, NEW a \in Cashiers, CashierLockQueue(a)
    PROVE  QueueInv'
<1>1. /\ Step(a, "lockQueue", "enqueue")
      /\ owner["queueMutex"] = NoThread
      /\ owner' = [owner EXCEPT !["queueMutex"] = a]
      /\ UNCHANGED <<mainPc, managerPc, signalled, sem, cashierAvailable, ring,
                     waitForCashier, serverID, customersServed>>
  BY DEF CashierLockQueue, Acquire, control, data, counters
<1>2. /\ pc[a] = "lockQueue" /\ pc'[a] = "enqueue"
      /\ \A b \in Cashiers : b # a => pc'[b] = pc[b]
      /\ \A c \in Customers : pc'[c] = pc[c]
      /\ pc' = [pc EXCEPT ![a] = "enqueue"]
  BY <1>1, CashierMoves
<1>3. owner'["queueMutex"] = a /\ owner'["CM"] = owner["CM"]
  BY <1>1 DEF TypeOK, Mutexes
<1>4. /\ ringSeq' = ringSeq /\ onRing' = onRing
      /\ queueSize(ring)' = queueSize(ring)
  BY <1>1, RingFrame
<1>5. QueueMutexes'
  BY <1>1, <1>2, <1>3, ParametersOK DEF QueueInv, QueueMutexes
<1>6. CashierRequests'
  BY <1>1, <1>2, <1>3, <1>4 DEF QueueInv, CashierRequests, NoneAsked
<1>7. \A b \in Cashiers : Idle(b)' <=> Idle(b)
  BY <1>1, <1>2 DEF Idle, Chosen
<1>8. RingOfTheIdle'
  BY <1>2, <1>4, <1>7 DEF QueueInv, RingOfTheIdle
<1>9. ChosenSleep'
  BY <1>1, <1>2 DEF QueueInv, ChosenSleep
<1>10. ClosingOrder'
  BY <1>1, <1>2, ClosingKept DEF QueueInv, Threads, Staff
<1>11. ordering' = ordering /\ woken' = woken /\ working' = working
  BY <1>1, <1>2 DEF ordering, woken, working, Ordered, Carrying
<1>12. OrdersAddUp'
  BY <1>1, <1>11 DEF QueueInv, OrdersAddUp
<1> QED BY <1>5, <1>6, <1>8, <1>9, <1>10, <1>12 DEF QueueInv

\* A cashier joins the ring: the customer that waits for one is told.
LEMMA CashierEnqueueKeepsQueue ==
    ASSUME TypeOK, QueueInv, NEW a \in Cashiers, CashierEnqueue(a)
    PROVE  QueueInv'
<1> DEFINE n == queueSize(ring)
<1>1. /\ Step(a, "enqueue", "unlockQueue")
      /\ ring' = enqueue(ring, a)
      /\ UNCHANGED <<mainPc, managerPc, signalled, owner, cashierAvailable,
                     serverID, customersServed>>
  BY DEF CashierEnqueue, control
<1>2. /\ pc[a] = "enqueue" /\ pc'[a] = "unlockQueue"
      /\ \A b \in Cashiers : b # a => pc'[b] = pc[b]
      /\ \A c \in Customers : pc'[c] = pc[c]
      /\ pc' = [pc EXCEPT ![a] = "unlockQueue"]
  BY <1>1, CashierMoves
<1>3. a \notin onRing
  BY <1>2 DEF QueueInv, RingOfTheIdle, Idle
<1>4. /\ queueSize(ring)' = n + 1
      /\ ringSeq' = [i \in 1..(n + 1) |->
                        IF i = n + 1 THEN a ELSE ringSeq[i]]
      /\ onRing' = onRing \cup {a}
      /\ n \in Nat
  BY <1>1, <1>3, JoinRing, RingIsTyped
<1>5. owner["queueMutex"] = a
  BY <1>2 DEF QueueInv, QueueMutexes
<1>6. sem'["finish"] = sem["finish"]
  BY DEF CashierEnqueue, SemPost, TypeOK, Semaphores
<1>7. /\ n = 0 /\ waitForCashier # 0 =>
            /\ waitForCashier' = waitForCashier - 1
            /\ sem'["cashiersAllBusy"] = sem["cashiersAllBusy"] + 1
      /\ ~(n = 0 /\ waitForCashier # 0) =>
            /\ waitForCashier' = waitForCashier
            /\ sem'["cashiersAllBusy"] = sem["cashiersAllBusy"]
  <2>1. queueSize(ring') = n + 1
    BY <1>4
  <2>2. queueSize(ring') = 1 <=> n = 0
    BY <1>4, <2>1
  <2> QED BY <2>2 DEF CashierEnqueue, SemPost, TypeOK, Semaphores
<1>8. QueueMutexes'
  BY <1>1, <1>2, <1>5 DEF QueueInv, QueueMutexes
<1>9. CashierRequests'
  <2> HIDE DEF n
  <2>1. n > 0 <=> queueSize(ring) > 0
    BY DEF n
  <2>2. queueSize(ring)' > 0 /\ queueSize(ring)' # 0
    BY <1>4
  <2>3. NoneAsked => NoneAsked'
    BY <1>7 DEF NoneAsked
  <2>4. ASSUME NEW c \in Customers, pc[c] = "waitCashier"
        PROVE  sem'["cashiersAllBusy"] = 1 /\ waitForCashier' = 0
    <3>1. \/ n = 0 /\ sem["cashiersAllBusy"] = 0 /\ waitForCashier = 1
          \/ n > 0 /\ sem["cashiersAllBusy"] = 1 /\ waitForCashier = 0
      BY <2>4 DEF QueueInv, CashierRequests, n
    <3> QED BY <1>7, <3>1
  <2>5. \A c \in Customers : pc'[c] # "unlockEmpty"
    BY <1>2, <1>5, ParametersOK DEF QueueInv, QueueMutexes
  <2> QED BY <1>1, <1>2, <2>2, <2>3, <2>4, <2>5
          DEF QueueInv, CashierRequests
<1>10. /\ Idle(a)'
       /\ \A b \in Cashiers : b # a => (Idle(b)' <=> Idle(b))
  <2>1. ~Chosen(a)' /\ cashierAvailable[a] = 0
    BY <1>1, <1>2 DEF QueueInv, ChosenSleep, Chosen
  <2> QED BY <1>1, <1>2, <2>1 DEF Idle, Chosen
<1>11. RingOfTheIdle'
  <2> HIDE DEF n
  <2>1. \A i \in 1..(n + 1) : i # n + 1 => i \in 1..n /\ ringSeq[i] \in onRing
    BY <1>4 DEF onRing, n
  <2>2. \A i, j \in 1..n : /\ ringSeq[i] \in Cashiers
                           /\ ringSeq[i] = ringSeq[j] => i = j
    BY DEF QueueInv, RingOfTheIdle, n
  <2>3. \A i \in 1..(n + 1) :
           /\ ringSeq'[i] \in Cashiers
           /\ \A j \in 1..(n + 1) : ringSeq'[i] = ringSeq'[j] => i = j
    BY <1>3, <1>4, <2>1, <2>2
  <2>4. \A b \in Cashiers : /\ Idle(b)' => b \in onRing'
                            /\ b \in onRing' => Idle(b)' \/ pc'[b] = "exited"
    BY <1>2, <1>4, <1>10 DEF QueueInv, RingOfTheIdle
  <2> QED BY <1>4, <2>3, <2>4 DEF RingOfTheIdle
<1>12. ChosenSleep'
  BY <1>1, <1>2 DEF QueueInv, ChosenSleep
<1>13. ClosingOrder'
  BY <1>1, <1>2, <1>6, ClosingKept DEF QueueInv, Threads, Staff
<1>14. ordering' = ordering /\ woken' = woken /\ working' = working
  BY <1>1, <1>2 DEF ordering, woken, working, Ordered, Carrying
<1>15. OrdersAddUp'
  BY <1>1, <1>14 DEF QueueInv, OrdersAddUp
<1> QED BY <1>8, <1>9, <1>11, <1>12, <1>13, <1>15 DEF QueueInv

LEMMA CashierUnlockKeepsQueue ==
    ASSUME TypeOK, QueueInv, NEW a \in Cashiers, CashierUnlockQueue(a)
    PROVE  QueueInv'
<1>1. /\ Step(a, "unlockQueue", "sleep")
      /\ owner' = [owner EXCEPT !["queueMutex"] = NoThread]
      /\ UNCHANGED <<mainPc, managerPc, signalled, sem, cashierAvailable, ring,
                     waitForCashier, serverID, customersServed>>
  BY DEF CashierUnlockQueue, Release, Unlock, control, data, counters
<1>2. /\ pc[a] = "unlockQueue" /\ pc'[a] = "sleep"
      /\ \A b \in Cashiers : b # a => pc'[b] = pc[b]
      /\ \A c \in Customers : pc'[c] = pc[c]
      /\ pc' = [pc EXCEPT ![a] = "sleep"]
  BY <1>1, CashierMoves
<1>3. owner["queueMutex"] = a /\ owner'["CM"] = owner["CM"]
  BY <1>1, <1>2 DEF TypeOK, Mutexes, QueueInv, QueueMutexes
<1>4. /\ ringSeq' = ringSeq /\ onRing' = onRing
      /\ queueSize(ring)' = queueSize(ring)
  BY <1>1, RingFrame
<1>5. QueueMutexes'
  BY <1>1, <1>2, <1>3, ParametersOK DEF QueueInv, QueueMutexes
<1>6. CashierRequests'
  BY <1>1, <1>2, <1>3, <1>4 DEF QueueInv, CashierRequests, NoneAsked
<1>7. \A b \in Cashiers : Idle(b)' <=> Idle(b)
  BY <1>1, <1>2 DEF Idle, Chosen
<1>8. RingOfTheIdle'
  BY <1>2, <1>4, <1>7 DEF QueueInv, RingOfTheIdle
<1>9. ChosenSleep'
  BY <1>1, <1>2 DEF QueueInv, ChosenSleep
<1>10. ClosingOrder'
  BY <1>1, <1>2, ClosingKept DEF QueueInv, Threads, Staff
<1>11. ordering' = ordering /\ woken' = woken /\ working' = working
  BY <1>1, <1>2 DEF ordering, woken, working, Ordered, Carrying
<1>12. OrdersAddUp'
  BY <1>1, <1>11 DEF QueueInv, OrdersAddUp
<1> QED BY <1>5, <1>6, <1>8, <1>9, <1>10, <1>12 DEF QueueInv

\* A cashier wakes for its order.
LEMMA CashierSleepKeepsQueue ==
    ASSUME TypeOK, QueueInv, NEW a \in Cashiers, CashierSleep(a)
    PROVE  QueueInv'
<1>1. /\ Step(a, "sleep", "lockCA")
      /\ cashierAvailable[a] > 0
      /\ cashierAvailable' = [cashierAvailable EXCEPT ![a] = @ - 1]
      /\ UNCHANGED <<mainPc, managerPc, signalled, owner, sem, ring,
                     waitForCashier, serverID, customersServed>>
  BY DEF CashierSleep, control, data, counters
<1>2. /\ pc[a] = "sleep" /\ pc'[a] = "lockCA"
      /\ \A b \in Cashiers : b # a => pc'[b] = pc[b]
      /\ \A c \in Customers : pc'[c] = pc[c]
      /\ pc' = [pc EXCEPT ![a] = "lockCA"]
  BY <1>1, CashierMoves
<1>3. /\ cashierAvailable[a] = 1 /\ cashierAvailable'[a] = 0
      /\ \A b \in Cashiers : b # a =>
            cashierAvailable'[b] = cashierAvailable[b]
  BY <1>1 DEF TypeOK, QueueInv, ChosenSleep
<1>4. /\ ringSeq' = ringSeq /\ onRing' = onRing
      /\ queueSize(ring)' = queueSize(ring)
  BY <1>1, RingFrame
<1>5. QueueMutexes'
  BY <1>1, <1>2 DEF QueueInv, QueueMutexes
<1>6. CashierRequests'
  BY <1>1, <1>2, <1>4 DEF QueueInv, CashierRequests, NoneAsked
<1>7. \A b \in Cashiers : Idle(b)' <=> Idle(b)
  BY <1>1, <1>2, <1>3 DEF Idle, Chosen
<1>8. RingOfTheIdle'
  BY <1>2, <1>4, <1>7 DEF QueueInv, RingOfTheIdle
<1>9. ChosenSleep'
  BY <1>1, <1>2, <1>3 DEF QueueInv, ChosenSleep
<1>10. ClosingOrder' /\ mainPc # "exited"
  BY <1>1, <1>2, ClosingKept DEF QueueInv, Threads, Staff
<1>11. ordering' = ordering
  BY <1>2 DEF ordering
<1>12. a \in woken /\ woken' = woken \ {a}
  BY <1>3 DEF woken
<1>13. a \notin working /\ working' = working \cup {a}
  BY <1>2 DEF working, Ordered, Carrying
<1>14. Cardinality(woken') = Cardinality(woken) - 1
  BY <1>12, OrderSets, FS_RemoveElement
<1>15. Cardinality(working') = Cardinality(working) + 1
  BY <1>13, OrderSets, FS_AddElement
<1>16. OrdersAddUp'
  BY <1>1, <1>10, <1>11, <1>14, <1>15, OrderSets
     DEF QueueInv, OrdersAddUp, TypeOK
<1> QED BY <1>5, <1>6, <1>8, <1>9, <1>10, <1>16 DEF QueueInv

\* A cashier serves its customer, and tells the manager of the last one.
LEMMA CashierCountKeepsQueue ==
    ASSUME TypeOK, QueueInv, NEW a \in Cashiers, CashierCount(a)
    PROVE  QueueInv'
<1>1. /\ Step(a, "count", "unlockCnt")
      /\ customersServed' = customersServed + 1
      /\ UNCHANGED <<mainPc, managerPc, signalled, owner, cashierAvailable,
                     waitForCashier, ring, serverID>>
  BY DEF CashierCount, control
<1>2. /\ pc[a] = "count" /\ pc'[a] = "unlockCnt"
      /\ \A b \in Cashiers : b # a => pc'[b] = pc[b]
      /\ \A c \in Customers : pc'[c] = pc[c]
      /\ pc' = [pc EXCEPT ![a] = "unlockCnt"]
  BY <1>1, CashierMoves
<1>3. /\ sem'["cashiersAllBusy"] = sem["cashiersAllBusy"]
      /\ customersServed' # Cardinality(Customers) =>
            sem'["finish"] = sem["finish"]
  BY DEF CashierCount, SemPost, TypeOK, Semaphores
<1>4. /\ ringSeq' = ringSeq /\ onRing' = onRing
      /\ queueSize(ring)' = queueSize(ring)
  BY <1>1, RingFrame
<1>5. QueueMutexes'
  BY <1>1, <1>2 DEF QueueInv, QueueMutexes
<1>6. CashierRequests'
  BY <1>1, <1>2, <1>3, <1>4 DEF QueueInv, CashierRequests, NoneAsked
<1>7. \A b \in Cashiers : Idle(b)' <=> Idle(b)
  BY <1>1, <1>2 DEF Idle, Chosen
<1>8. RingOfTheIdle'
  BY <1>2, <1>4, <1>7 DEF QueueInv, RingOfTheIdle
<1>9. ChosenSleep'
  BY <1>1, <1>2 DEF QueueInv, ChosenSleep
<1>10. a \in Threads /\ a \in Staff /\ mainPc # "exited"
  BY <1>2 DEF Threads, Staff, QueueInv, ClosingOrder
<1>11. ordering' = ordering /\ woken' = woken
  BY <1>1, <1>2 DEF ordering, woken
<1>12. a \in working /\ working' = working \ {a}
  BY <1>2 DEF working, Ordered, Carrying
<1>13. /\ Cardinality(working') = Cardinality(working) - 1
       /\ Cardinality(working) # 0
  BY <1>12, OrderSets, FS_RemoveElement, FS_EmptySet
<1>14. customersServed \in Nat
  BY DEF TypeOK
<1>15. OrdersAddUp'
  BY <1>1, <1>10, <1>11, <1>13, <1>14, OrderSets DEF QueueInv, OrdersAddUp
<1>16. customersServed < Cardinality(Customers)
  BY <1>10, <1>13, <1>14, OrderSets DEF QueueInv, OrdersAddUp
<1>17. /\ ~(sem["finish"] > 0) /\ managerPc \notin {"dismiss", "exited"}
  BY <1>14, <1>16, OrderSets DEF QueueInv, ClosingOrder
<1>18. ClosingOrder'
  <2>1. \A t \in Staff : pc'[t] = "exited" => pc[t] = "exited"
    BY <1>2 DEF TypeOK, Threads
  <2> QED BY <1>1, <1>3, <1>10, <1>17, <2>1 DEF QueueInv, ClosingOrder
<1> QED BY <1>5, <1>6, <1>8, <1>9, <1>15, <1>18 DEF QueueInv

LEMMA CashierKeepsQueue ==
    ASSUME TypeOK, QueueInv, NEW a \in Cashiers, cashier(a)
    PROVE  QueueInv'
BY ServingKeepsQueue, CashierLockKeepsQueue, CashierEnqueueKeepsQueue,
   CashierUnlockKeepsQueue, CashierSleepKeepsQueue, CashierCountKeepsQueue
   DEF cashier

-----------------------------------------------------------------------------
(* A customer.                                                             *)

LEMMA CustomerMoves ==
    ASSUME TypeOK, NEW c \in Customers, NEW from, NEW to, Step(c, from, to)
    PROVE  /\ pc[c] = from /\ pc'[c] = to
           /\ \A d \in Customers : d # c => pc'[d] = pc[d]
           /\ \A t \in Staff : pc'[t] = pc[t]
           /\ pc' = [pc EXCEPT ![c] = to]
           /\ c \in Threads /\ c \notin Staff /\ c # NoThread
BY ParametersOK DEF TypeOK, Step, Threads, Staff

\* Before it has placed its order nobody is dismissed.
LEMMA OpenForCustomers ==
    ASSUME TypeOK, QueueInv, NEW c \in Customers, pc[c] \notin Placed
    PROVE  /\ mainPc # "exited" /\ managerPc \notin {"dismiss", "exited"}
           /\ signalled = {} /\ \A t \in Staff : pc[t] # "exited"
           /\ customersServed # Cardinality(Customers)
<1>1. mainPc # "exited"
  BY DEF QueueInv, ClosingOrder, Threads, Placed
<1>2. ordering \in SUBSET (Customers \ {c})
  BY DEF ordering
<1>3. /\ IsFiniteSet(Customers \ {c})
      /\ Cardinality(Customers \ {c}) = Cardinality(Customers) - 1
  BY FS_RemoveElement, ParametersOK
<1>4. Cardinality(ordering) <= Cardinality(Customers \ {c})
  BY <1>2, <1>3, FS_Subset
<1>5. customersServed # Cardinality(Customers)
  BY <1>1, <1>3, <1>4, OrderSets DEF QueueInv, OrdersAddUp, TypeOK
<1> QED BY <1>1, <1>5 DEF QueueInv, ClosingOrder

\* A step of a customer that neither takes a cashier nor wakes one.
LEMMA CustomerElsewhere ==
    ASSUME TypeOK, QueueInv, NEW c \in Customers, NEW from, NEW to,
           Step(c, from, to), from # "exited", from \in Placed <=> to \in Placed,
           from \in {"unlockQueue", "post"} <=> to \in {"unlockQueue", "post"},
           sem'["finish"] = sem["finish"],
           UNCHANGED <<mainPc, managerPc, signalled, cashierAvailable, ring,
                       serverID, customersServed>>
    PROVE  RingOfTheIdle' /\ ChosenSleep' /\ ClosingOrder' /\ OrdersAddUp'
<1>1. /\ pc[c] = from /\ pc'[c] = to
      /\ \A d \in Customers : d # c => pc'[d] = pc[d]
      /\ \A a \in Cashiers : pc'[a] = pc[a]
      /\ pc' = [pc EXCEPT ![c] = to] /\ c \in Threads /\ c \notin Staff
  BY CustomerMoves DEF Staff
<1>2. /\ ringSeq' = ringSeq /\ onRing' = onRing
      /\ queueSize(ring)' = queueSize(ring)
  BY RingFrame
<1>3. \A a \in Cashiers : Idle(a)' <=> Idle(a)
  BY <1>1 DEF Idle, Chosen
<1>4. RingOfTheIdle'
  BY <1>1, <1>2, <1>3 DEF QueueInv, RingOfTheIdle
<1>5. ChosenSleep'
  BY <1>1 DEF QueueInv, ChosenSleep
<1>6. ClosingOrder'
  BY <1>1, ClosingKept DEF QueueInv
<1>7. ordering' = ordering /\ woken' = woken /\ working' = working
  BY <1>1 DEF ordering, woken, working
<1>8. OrdersAddUp'
  BY <1>7 DEF QueueInv, OrdersAddUp
<1> QED BY <1>4, <1>5, <1>6, <1>8

\* The customer takes CM, then the ring.
LEMMA CustomerLocksKeepQueue ==
    ASSUME TypeOK, QueueInv, NEW c \in Customers,
           CustomerLockCM(c) \/ CustomerLockQueue(c) \/ CustomerRelockQueue(c)
    PROVE  QueueInv'
<1> USE DEF Mutexes
<1>1. CASE CustomerLockCM(c)
  <2>1. /\ Step(c, "lockCM", "lockQueue") /\ owner["CM"] = NoThread
        /\ owner' = [owner EXCEPT !["CM"] = c]
        /\ UNCHANGED <<mainPc, managerPc, signalled, sem, cashierAvailable,
                       waitForCashier, ring, serverID, customersServed>>
    BY <1>1 DEF CustomerLockCM, Acquire, control, data, counters
  <2>2. /\ pc[c] = "lockCM" /\ pc'[c] = "lockQueue"
        /\ \A d \in Customers : d # c => pc'[d] = pc[d]
        /\ c # NoThread /\ \A a \in Cashiers : pc'[a] = pc[a]
    BY <2>1, CustomerMoves DEF Staff
  <2>3. owner'["CM"] = c /\ owner'["queueMutex"] = owner["queueMutex"]
    BY <2>1 DEF TypeOK
  <2>4. QueueMutexes'
    BY <2>1, <2>2, <2>3, ParametersOK DEF QueueInv, QueueMutexes, InCM
  <2>5. CashierRequests'
    <3>1. queueSize(ring)' = queueSize(ring)
      BY <2>1, RingFrame
    <3> QED BY <2>1, <2>2, <2>3, <3>1, ParametersOK
            DEF QueueInv, CashierRequests, NoneAsked
  <2>6. RingOfTheIdle' /\ ChosenSleep' /\ ClosingOrder' /\ OrdersAddUp'
    BY <2>1, CustomerElsewhere DEF Placed
  <2> QED BY <2>4, <2>5, <2>6 DEF QueueInv
<1>2. CASE CustomerLockQueue(c)
  <2>1. PICK to \in {"unlockEmpty", "dequeue"} :
           /\ Step(c, "lockQueue", to) /\ owner["queueMutex"] = NoThread
           /\ owner' = [owner EXCEPT !["queueMutex"] = c]
           /\ to = "unlockEmpty" <=> queueSize(ring) = 0
           /\ UNCHANGED <<mainPc, managerPc, signalled, sem, cashierAvailable,
                          waitForCashier, ring, serverID, customersServed>>
    BY <1>2 DEF CustomerLockQueue, Acquire, control, data, counters
  <2>2. /\ pc[c] = "lockQueue" /\ pc'[c] = to
        /\ \A d \in Customers : d # c => pc'[d] = pc[d]
        /\ c # NoThread /\ \A a \in Cashiers : pc'[a] = pc[a]
    BY <2>1, CustomerMoves DEF Staff
  <2>3. owner'["queueMutex"] = c /\ owner'["CM"] = owner["CM"]
    BY <2>1 DEF TypeOK
  <2>4. QueueMutexes'
    BY <2>1, <2>2, <2>3, ParametersOK DEF QueueInv, QueueMutexes, InCM, CustomerPc
  <2>5. CashierRequests'
    <3>1. queueSize(ring)' = queueSize(ring) /\ queueSize(ring) \in Nat
      BY <2>1, RingFrame, RingIsTyped
    <3>2. owner["CM"] = c /\ NoneAsked
      BY <2>2 DEF QueueInv, QueueMutexes, CashierRequests, InCM, CustomerPc
    <3>3. NoneAsked'
      BY <2>1, <3>2 DEF NoneAsked
    <3>4. \A d \in Customers : d # c => pc[d] \notin InCM
      BY <3>2 DEF QueueInv, QueueMutexes
    <3> QED BY <2>1, <2>2, <3>1, <3>3, <3>4
            DEF CashierRequests, InCM, CustomerPc
  <2>6. RingOfTheIdle' /\ ChosenSleep' /\ ClosingOrder' /\ OrdersAddUp'
    BY <2>1, CustomerElsewhere DEF Placed
  <2> QED BY <2>4, <2>5, <2>6 DEF QueueInv
<1>3. CASE CustomerRelockQueue(c)
  <2>1. /\ Step(c, "relockQueue", "dequeue") /\ owner["queueMutex"] = NoThread
        /\ owner' = [owner EXCEPT !["queueMutex"] = c]
        /\ UNCHANGED <<mainPc, managerPc, signalled, sem, cashierAvailable,
                       waitForCashier, ring, serverID, customersServed>>
    BY <1>3 DEF CustomerRelockQueue, Acquire, control, data, counters
  <2>2. /\ pc[c] = "relockQueue" /\ pc'[c] = "dequeue"
        /\ \A d \in Customers : d # c => pc'[d] = pc[d]
        /\ c # NoThread /\ \A a \in Cashiers : pc'[a] = pc[a]
    BY <2>1, CustomerMoves DEF Staff
  <2>3. owner'["queueMutex"] = c /\ owner'["CM"] = owner["CM"]
    BY <2>1 DEF TypeOK
  <2>4. QueueMutexes'
    BY <2>1, <2>2, <2>3, ParametersOK DEF QueueInv, QueueMutexes, InCM, CustomerPc
  <2>5. CashierRequests'
    <3>1. queueSize(ring)' = queueSize(ring)
      BY <2>1, RingFrame
    <3> QED BY <2>1, <2>2, <2>3, <3>1
            DEF QueueInv, CashierRequests, NoneAsked, InCM, CustomerPc
  <2>6. RingOfTheIdle' /\ ChosenSleep' /\ ClosingOrder' /\ OrdersAddUp'
    BY <2>1, CustomerElsewhere DEF Placed
  <2> QED BY <2>4, <2>5, <2>6 DEF QueueInv
<1> QED BY <1>1, <1>2, <1>3

\* Only the customer in CM deals with the cashiers.
LEMMA OneAtATime ==
    ASSUME QueueInv, NEW c \in Customers, pc[c] \in InCM
    PROVE  owner["CM"] = c /\ \A d \in Customers : d # c => pc[d] \notin InCM
BY DEF QueueInv, QueueMutexes

\* The customer asks for a cashier, is told of one, and leaves.
LEMMA CustomerWaitsKeepQueue ==
    ASSUME TypeOK, QueueInv, NEW c \in Customers,
           \/ CustomerUnlockEmpty(c) \/ CustomerWaitCashier(c)
           \/ CustomerUnlockQueue(c) \/ CustomerUnlockCM(c)
    PROVE  QueueInv'
<1> USE DEF Mutexes, Semaphores, InCM, CustomerPc
<1>1. CASE CustomerUnlockEmpty(c)
  <2>1. /\ Step(c, "unlockEmpty", "waitCashier")
        /\ waitForCashier' = waitForCashier + 1
        /\ owner' = [owner EXCEPT !["queueMutex"] = NoThread]
        /\ UNCHANGED <<mainPc, managerPc, signalled, sem, cashierAvailable,
                       ring, serverID, customersServed>>
    BY <1>1 DEF CustomerUnlockEmpty, Unlock, control
  <2>2. /\ pc[c] = "unlockEmpty" /\ pc'[c] = "waitCashier"
        /\ \A d \in Customers : d # c => pc'[d] = pc[d]
        /\ c # NoThread /\ \A a \in Cashiers : pc'[a] = pc[a]
    BY <2>1, CustomerMoves DEF Staff
  <2>3. /\ owner["CM"] = c /\ \A d \in Customers : d # c => pc[d] \notin InCM
        /\ owner["queueMutex"] = c
    BY <2>2, OneAtATime DEF QueueInv, QueueMutexes
  <2>4. owner'["CM"] = c
    BY <2>1, <2>3 DEF TypeOK
  <2>5. QueueMutexes'
    BY <2>2, <2>3, <2>4, ParametersOK DEF QueueInv, QueueMutexes
  <2>6. queueSize(ring)' = 0 /\ sem'["cashiersAllBusy"] = 0 /\ waitForCashier' = 1
    BY <2>1, <2>2, RingFrame DEF QueueInv, CashierRequests, NoneAsked
  <2>7. CashierRequests'
    <3>1. \A d \in Customers : pc'[d] \in InCM => pc'[d] = "waitCashier"
      BY <2>2, <2>3
    <3>2. owner'["CM"] # NoThread
      BY <2>2, <2>4
    <3> QED BY <2>6, <3>1, <3>2 DEF CashierRequests
  <2>8. RingOfTheIdle' /\ ChosenSleep' /\ ClosingOrder' /\ OrdersAddUp'
    BY <2>1, CustomerElsewhere DEF Placed
  <2> QED BY <2>5, <2>7, <2>8 DEF QueueInv
<1>2. CASE CustomerWaitCashier(c)
  <2>1. /\ Step(c, "waitCashier", "relockQueue")
        /\ sem["cashiersAllBusy"] > 0
        /\ sem' = [sem EXCEPT !["cashiersAllBusy"] = @ - 1]
        /\ UNCHANGED <<mainPc, managerPc, signalled, owner, cashierAvailable,
                       waitForCashier, ring, serverID, customersServed>>
    BY <1>2 DEF CustomerWaitCashier, Await, control, data, counters
  <2>2. /\ pc[c] = "waitCashier" /\ pc'[c] = "relockQueue"
        /\ \A d \in Customers : d # c => pc'[d] = pc[d]
        /\ c # NoThread /\ \A a \in Cashiers : pc'[a] = pc[a]
    BY <2>1, CustomerMoves DEF Staff
  <2>3. owner["CM"] = c /\ \A d \in Customers : d # c => pc[d] \notin InCM
    BY <2>2, OneAtATime
  <2>4. QueueMutexes'
    BY <2>1, <2>2, <2>3 DEF QueueInv, QueueMutexes
  <2>5. /\ queueSize(ring) > 0 /\ sem["cashiersAllBusy"] = 1
        /\ waitForCashier = 0
    BY <2>1, <2>2 DEF QueueInv, CashierRequests
  <2>6. queueSize(ring)' > 0 /\ NoneAsked' /\ sem'["finish"] = sem["finish"]
    BY <2>1, <2>5, RingFrame DEF NoneAsked, TypeOK
  <2>7. CashierRequests'
    BY <2>1, <2>2, <2>3, <2>6 DEF CashierRequests
  <2>8. RingOfTheIdle' /\ ChosenSleep' /\ ClosingOrder' /\ OrdersAddUp'
    BY <2>1, <2>6, CustomerElsewhere DEF Placed
  <2> QED BY <2>4, <2>7, <2>8 DEF QueueInv
<1>3. CASE CustomerUnlockQueue(c)
  <2>1. /\ Step(c, "unlockQueue", "post")
        /\ owner' = [owner EXCEPT !["queueMutex"] = NoThread]
        /\ UNCHANGED <<mainPc, managerPc, signalled, sem, cashierAvailable,
                       waitForCashier, ring, serverID, customersServed>>
    BY <1>3 DEF CustomerUnlockQueue, Release, Unlock, control, data, counters
  <2>2. /\ pc[c] = "unlockQueue" /\ pc'[c] = "post"
        /\ \A d \in Customers : d # c => pc'[d] = pc[d]
        /\ c # NoThread /\ \A a \in Cashiers : pc'[a] = pc[a]
    BY <2>1, CustomerMoves DEF Staff
  <2>3. /\ owner["CM"] = c /\ \A d \in Customers : d # c => pc[d] \notin InCM
        /\ owner["queueMutex"] = c
    BY <2>2, OneAtATime DEF QueueInv, QueueMutexes
  <2>4. owner'["CM"] = c
    BY <2>1, <2>3 DEF TypeOK
  <2>5. QueueMutexes'
    BY <2>2, <2>3, <2>4, ParametersOK DEF QueueInv, QueueMutexes
  <2>6. NoneAsked'
    BY <2>1, <2>2 DEF QueueInv, CashierRequests, NoneAsked
  <2>7. CashierRequests'
    <3>1. \A d \in Customers : pc'[d] \in InCM => pc'[d] = "post"
      BY <2>2, <2>3
    <3> QED BY <2>2, <2>4, <2>6, <3>1 DEF CashierRequests
  <2>8. RingOfTheIdle' /\ ChosenSleep' /\ ClosingOrder' /\ OrdersAddUp'
    BY <2>1, CustomerElsewhere DEF Placed
  <2> QED BY <2>5, <2>7, <2>8 DEF QueueInv
<1>4. CASE CustomerUnlockCM(c)
  <2>1. /\ Step(c, "unlockCM", "exited")
        /\ owner' = [owner EXCEPT !["CM"] = NoThread]
        /\ UNCHANGED <<mainPc, managerPc, signalled, sem, cashierAvailable,
                       waitForCashier, ring, serverID, customersServed>>
    BY <1>4 DEF CustomerUnlockCM, Release, Unlock, control, data, counters
  <2>2. /\ pc[c] = "unlockCM" /\ pc'[c] = "exited"
        /\ \A d \in Customers : d # c => pc'[d] = pc[d]
        /\ c # NoThread /\ \A a \in Cashiers : pc'[a] = pc[a]
    BY <2>1, CustomerMoves DEF Staff
  <2>3. owner["CM"] = c /\ \A d \in Customers : d # c => pc[d] \notin InCM
    BY <2>2, OneAtATime
  <2>4. owner'["queueMutex"] = owner["queueMutex"]
    BY <2>1 DEF TypeOK
  <2>5. QueueMutexes'
    BY <2>2, <2>3, <2>4 DEF QueueInv, QueueMutexes
  <2>6. NoneAsked'
    BY <2>1, <2>2 DEF QueueInv, CashierRequests, NoneAsked
  <2>7. CashierRequests'
    BY <2>2, <2>3, <2>6 DEF CashierRequests
  <2>8. RingOfTheIdle' /\ ChosenSleep' /\ ClosingOrder' /\ OrdersAddUp'
    BY <2>1, CustomerElsewhere DEF Placed
  <2> QED BY <2>5, <2>7, <2>8 DEF QueueInv
<1> QED BY <1>1, <1>2, <1>3, <1>4

\* The customer takes the cashier at the head of the ring, which sleeps.
LEMMA HeadSleeps ==
    ASSUME TypeOK, QueueInv, NEW c \in Customers, pc[c] = "dequeue"
    PROVE  /\ queueSize(ring) > 0 /\ dequeued(ring) = ringSeq[1]
           /\ dequeued(ring) \in onRing /\ dequeued(ring) \in Cashiers
           /\ Idle(dequeued(ring)) /\ pc[dequeued(ring)] = "sleep"
<1>1. queueSize(ring) > 0 /\ owner["queueMutex"] = c
  BY DEF QueueInv, CashierRequests, QueueMutexes
<1>2. ring \in RingType /\ queueSize(ring) \in Nat
  BY RingIsTyped
<1>3. dequeued(ring) = ring.sleepingQueue[Slot(ring, 1)]
  BY <1>1, <1>2, DequeueTakesFirst
<1>4. 1 \in 1..queueSize(ring)
  BY <1>1, <1>2
<1>5. dequeued(ring) = ringSeq[1]
  BY <1>3, <1>4 DEF ringSeq, Slot
<1>6. dequeued(ring) \in onRing /\ dequeued(ring) \in Cashiers
  BY <1>4, <1>5 DEF onRing, QueueInv, RingOfTheIdle
<1>7. pc[dequeued(ring)] # "exited"
  BY <1>6, OpenForCustomers DEF Placed, Staff
<1>8. Idle(dequeued(ring))
  BY <1>6, <1>7 DEF QueueInv, RingOfTheIdle
<1>9. pc[dequeued(ring)] # "unlockQueue"
  BY <1>1, <1>6, ParametersOK DEF QueueInv, QueueMutexes
<1> QED BY <1>1, <1>5, <1>6, <1>8, <1>9 DEF Idle

LEMMA CustomerDequeueKeepsQueue ==
    ASSUME TypeOK, QueueInv, NEW c \in Customers, CustomerDequeue(c)
    PROVE  QueueInv'
<1> DEFINE b == dequeued(ring)
           n == queueSize(ring)
<1>1. /\ Step(c, "dequeue", "unlockQueue")
      /\ serverID' = [serverID EXCEPT ![c] = b]
      /\ ring' = dequeueRest(ring)
      /\ UNCHANGED <<mainPc, managerPc, signalled, owner, sem,
                     cashierAvailable, waitForCashier, customersServed>>
  BY DEF CustomerDequeue, control, counters
<1>2. /\ pc[c] = "dequeue" /\ pc'[c] = "unlockQueue"
      /\ \A d \in Customers : d # c => pc'[d] = pc[d]
      /\ \A a \in Cashiers : pc'[a] = pc[a]
      /\ c # NoThread /\ c \in Threads /\ c \notin Staff
      /\ pc' = [pc EXCEPT ![c] = "unlockQueue"]
  BY <1>1, CustomerMoves DEF Staff
<1>3. /\ b \in Cashiers /\ Idle(b) /\ pc[b] = "sleep" /\ b \in onRing
      /\ n > 0 /\ n \in Nat /\ b = ringSeq[1]
  BY <1>2, HeadSleeps, RingIsTyped
<1>4. /\ queueSize(ring)' = n - 1
      /\ ringSeq' = [i \in 1..(n - 1) |-> ringSeq[i + 1]]
      /\ onRing' = onRing \ {b}
  BY <1>1, <1>3, LeaveRing
<1>5. owner["CM"] = c /\ \A d \in Customers : d # c => pc[d] \notin InCM
  BY <1>2, OneAtATime DEF InCM, CustomerPc
<1>6. \A i, j \in 1..n : /\ ringSeq[i] \in Cashiers
                         /\ ringSeq[i] = ringSeq[j] => i = j
  BY DEF QueueInv, RingOfTheIdle
<1> HIDE DEF b, n
<1>7. /\ serverID'[c] = b
      /\ \A d \in Customers : d # c => serverID'[d] = serverID[d]
  BY <1>1 DEF TypeOK
<1>8. QueueMutexes'
  BY <1>1, <1>2 DEF QueueInv, QueueMutexes, InCM, CustomerPc
<1>9. CashierRequests'
  <2>1. NoneAsked'
    BY <1>1, <1>2 DEF QueueInv, CashierRequests, NoneAsked, InCM, CustomerPc
  <2> QED BY <1>1, <1>2, <1>5, <2>1 DEF CashierRequests, InCM, CustomerPc
<1>10. \A a \in Cashiers : Idle(a)' <=> Idle(a) /\ a # b
  <2>1. \A d \in Customers : d # c => pc[d] \notin {"unlockQueue", "post"}
    BY <1>5 DEF InCM, CustomerPc
  <2>2. \A a \in Cashiers : ~Chosen(a) /\ (Chosen(a)' <=> a = b)
    BY <1>2, <1>7, <2>1 DEF Chosen
  <2> QED BY <1>1, <1>2, <2>2 DEF Idle
<1>11. RingOfTheIdle'
  <2>1. \A i \in 1..(n - 1) : i \in Int /\ i + 1 \in 1..n
    BY <1>3
  <2>2. \A i \in 1..(n - 1) : ringSeq'[i] \in Cashiers
    BY <1>4, <1>6, <2>1
  <2>3. \A i, j \in 1..(n - 1) : ringSeq'[i] = ringSeq'[j] => i = j
    <3> SUFFICES ASSUME NEW i \in 1..(n - 1), NEW j \in 1..(n - 1),
                        ringSeq'[i] = ringSeq'[j]
                 PROVE  i = j
      OBVIOUS
    <3>1. ringSeq[i + 1] = ringSeq[j + 1]
      BY <1>4
    <3>2. i + 1 = j + 1
      BY <1>6, <2>1, <3>1
    <3> QED BY <2>1, <3>2
  <2>4. \A a \in Cashiers : /\ Idle(a)' => a \in onRing'
                            /\ a \in onRing' => Idle(a)' \/ pc'[a] = "exited"
    BY <1>2, <1>4, <1>10 DEF QueueInv, RingOfTheIdle
  <2> QED BY <1>4, <2>2, <2>3, <2>4 DEF RingOfTheIdle
<1>12. ChosenSleep'
  BY <1>1, <1>2, <1>3, <1>5, <1>7 DEF QueueInv, ChosenSleep, Idle, InCM, CustomerPc
<1>13. ClosingOrder'
  BY <1>1, <1>2, ClosingKept DEF QueueInv
<1>14. ordering' = ordering /\ woken' = woken /\ working' = working
  BY <1>1, <1>2 DEF ordering, woken, working, Placed
<1>15. OrdersAddUp'
  BY <1>1, <1>14 DEF QueueInv, OrdersAddUp
<1> QED BY <1>8, <1>9, <1>11, <1>12, <1>13, <1>15 DEF QueueInv

\* The customer wakes the cashier it has taken, and has placed its order.
LEMMA CustomerPostKeepsQueue ==
    ASSUME TypeOK, QueueInv, NEW c \in Customers, CustomerPost(c)
    PROVE  QueueInv'
<1> DEFINE b == serverID[c]
<1>1. /\ Step(c, "post", "unlockCM") /\ b \in Cashiers
      /\ cashierAvailable' = [cashierAvailable EXCEPT ![b] = @ + 1]
      /\ UNCHANGED <<mainPc, managerPc, signalled, owner, sem, ring,
                     waitForCashier, serverID, customersServed>>
  BY DEF CustomerPost, control, data, counters
<1>2. /\ pc[c] = "post" /\ pc'[c] = "unlockCM"
      /\ \A d \in Customers : d # c => pc'[d] = pc[d]
      /\ \A a \in Cashiers : pc'[a] = pc[a]
      /\ c # NoThread /\ c \in Threads /\ c \notin Staff
      /\ pc' = [pc EXCEPT ![c] = "unlockCM"]
  BY <1>1, CustomerMoves DEF Staff
<1>3. Chosen(b) /\ pc[b] = "sleep" /\ cashierAvailable[b] = 0
  BY <1>2 DEF Chosen, QueueInv, ChosenSleep
<1>4. /\ cashierAvailable'[b] = 1
      /\ \A a \in Cashiers : a # b =>
            cashierAvailable'[a] = cashierAvailable[a]
  BY <1>1, <1>3 DEF TypeOK
<1>5. /\ owner["CM"] = c
      /\ \A d \in Customers : d # c => pc[d] \notin InCM
      /\ \A d \in Customers : d # c => pc[d] \notin {"unlockQueue", "post"}
  BY <1>2, OneAtATime DEF InCM, CustomerPc
<1> HIDE DEF b
<1>6. /\ ringSeq' = ringSeq /\ onRing' = onRing
      /\ queueSize(ring)' = queueSize(ring)
  BY <1>1, RingFrame
<1>7. QueueMutexes'
  BY <1>1, <1>2 DEF QueueInv, QueueMutexes, InCM, CustomerPc
<1>8. CashierRequests'
  <2>1. NoneAsked'
    BY <1>1, <1>2 DEF QueueInv, CashierRequests, NoneAsked, InCM, CustomerPc
  <2> QED BY <1>1, <1>2, <1>5, <2>1 DEF CashierRequests, InCM, CustomerPc
<1>9. \A a \in Cashiers : Idle(a)' <=> Idle(a)
  <2>1. \A a \in Cashiers : a # b => ~Chosen(a)
    BY <1>5 DEF Chosen, b
  <2>2. \A a \in Cashiers : ~Chosen(a)'
    BY <1>1, <1>2, <1>5 DEF Chosen
  <2> QED BY <1>2, <1>3, <1>4, <2>1, <2>2 DEF Idle
<1>10. RingOfTheIdle'
  BY <1>2, <1>6, <1>9 DEF QueueInv, RingOfTheIdle
<1>11. ChosenSleep'
  BY <1>1, <1>2, <1>3, <1>4, <1>5 DEF QueueInv, ChosenSleep
<1>12. ClosingOrder' /\ mainPc # "exited"
  BY <1>1, <1>2, ClosingKept DEF QueueInv
<1>13. c \notin ordering /\ ordering' = ordering \cup {c}
  BY <1>2 DEF ordering, Placed
<1>14. b \notin woken /\ woken' = woken \cup {b}
  BY <1>1, <1>3, <1>4 DEF woken
<1>15. working' = working
  BY <1>2 DEF working
<1>16. /\ Cardinality(ordering') = Cardinality(ordering) + 1
       /\ Cardinality(woken') = Cardinality(woken) + 1
  BY <1>13, <1>14, OrderSets, FS_AddElement
<1>17. OrdersAddUp'
  BY <1>1, <1>12, <1>15, <1>16, OrderSets DEF QueueInv, OrdersAddUp, TypeOK
<1> QED BY <1>7, <1>8, <1>10, <1>11, <1>12, <1>17 DEF QueueInv

LEMMA CustomerKeepsQueue ==
    ASSUME TypeOK, QueueInv, NEW c \in Customers, customer(c)
    PROVE  QueueInv'
BY CustomerLocksKeepQueue, CustomerWaitsKeepQueue, CustomerDequeueKeepsQueue,
   CustomerPostKeepsQueue DEF customer

-----------------------------------------------------------------------------
(* main(), the manager and the signal handler.                             *)

\* Once the last customer is served nobody has an order or is about to.
LEMMA NoOrdersLeft ==
    ASSUME TypeOK, QueueInv, customersServed = Cardinality(Customers)
    PROVE  /\ \A c \in Customers : pc[c] \in Placed
           /\ \A a \in Cashiers : /\ pc[a] \notin Ordered \cup Carrying
                                  /\ cashierAvailable[a] = 0
                                  /\ ~Chosen(a)
<1>1. \A c \in Customers : pc[c] \in Placed
  BY OpenForCustomers
<1>2. ordering = Customers
  BY <1>1 DEF ordering
<1>3. mainPc # "exited" => woken = {} /\ working = {}
  <2>1. ASSUME mainPc # "exited"
        PROVE  Cardinality(woken) = 0 /\ Cardinality(working) = 0
    BY <1>2, <2>1, OrderSets DEF QueueInv, OrdersAddUp
  <2> QED BY <2>1, OrderSets, FS_EmptySet
<1>4. \A a \in Cashiers : pc[a] \notin Ordered \cup Carrying
  BY <1>3 DEF working, QueueInv, ClosingOrder, Threads, Staff, Ordered, Carrying
<1>5. \A a \in Cashiers : cashierAvailable[a] = 0
  BY <1>3 DEF woken, QueueInv, ClosingOrder, ChosenSleep
<1>6. \A a \in Cashiers : ~Chosen(a)
  BY <1>1 DEF Chosen, Placed
<1> QED BY <1>1, <1>4, <1>5, <1>6

LEMMA CreateKeepsQueue ==
    ASSUME TypeOK, QueueInv, NEW t \in Threads, MainCreate(t)
    PROVE  QueueInv'
<1>1. /\ pc[t] = "unborn" /\ QueueFrame
      /\ UNCHANGED <<sem, owner, mainPc, managerPc, signalled,
                     cashierAvailable, ring, serverID, customersServed>>
  BY DEF MainCreate, Step, QueueFrame, control, data, counters
<1>2. CASE t \in Staff
  <2>1. PICK l \in {"lockCK", "lockQueue"} : pc' = [pc EXCEPT ![t] = l]
    BY <1>2 DEF MainCreate, Step, Staff
  <2>2. /\ pc[t] \notin AtQueue /\ l \notin AtQueue
        /\ pc[t] \notin Ordered \cup Carrying /\ l \notin Ordered \cup Carrying
    BY <1>1 DEF AtQueue, Ordered, Carrying
  <2> QED BY <1>1, <1>2, <2>1, <2>2, ElsewhereKeepsQueue
<1>3. CASE t \in Customers
  <2>1. Step(t, "unborn", "lockCM")
    BY <1>3, ParametersOK DEF MainCreate, Step
  <2>2. /\ pc'[t] = "lockCM"
        /\ \A d \in Customers : d # t => pc'[d] = pc[d]
        /\ \A a \in Cashiers : pc'[a] = pc[a]
    BY <1>3, <2>1, CustomerMoves DEF Staff
  <2>3. QueueMutexes'
    BY <1>1, <2>2 DEF QueueInv, QueueMutexes, InCM
  <2>4. CashierRequests'
    BY <1>1, <2>2, RingFrame
       DEF QueueInv, CashierRequests, NoneAsked, InCM, QueueFrame
  <2>5. RingOfTheIdle' /\ ChosenSleep' /\ ClosingOrder' /\ OrdersAddUp'
    BY <1>1, <1>3, <2>1, CustomerElsewhere DEF Placed
  <2> QED BY <2>3, <2>4, <2>5 DEF QueueInv
<1> QED BY <1>2, <1>3 DEF Threads

\* The manager and main() move while every thread stays where it is.
LEMMA ManagementKeepsQueue ==
    ASSUME TypeOK, QueueInv, ClosingOrder',
           mainPc = "exited" => mainPc' = "exited",
           sem'["cashiersAllBusy"] = sem["cashiersAllBusy"],
           UNCHANGED <<pc, owner, cashierAvailable, waitForCashier, ring,
                       serverID, customersServed>>
    PROVE  QueueInv'
<1>1. /\ ringSeq' = ringSeq /\ onRing' = onRing
      /\ queueSize(ring)' = queueSize(ring)
  BY RingFrame
<1>2. \A a \in Cashiers : Idle(a)' <=> Idle(a)
  BY DEF Idle, Chosen
<1>3. QueueMutexes' /\ ChosenSleep'
  BY DEF QueueInv, QueueMutexes, ChosenSleep
<1>4. CashierRequests'
  BY <1>1 DEF QueueInv, CashierRequests, NoneAsked
<1>5. RingOfTheIdle'
  BY <1>1, <1>2 DEF QueueInv, RingOfTheIdle
<1>6. ordering' = ordering /\ woken' = woken /\ working' = working
  BY DEF ordering, woken, working
<1>7. OrdersAddUp'
  BY <1>6 DEF QueueInv, OrdersAddUp, TypeOK
<1> QED BY <1>3, <1>4, <1>5, <1>7 DEF QueueInv

LEMMA ManagerKeepsQueue ==
    ASSUME TypeOK, QueueInv, manager
    PROVE  QueueInv'
<1> USE DEF data, counters
<1>1. CASE ManagerWait
  <2>1. ClosingOrder' /\ sem'["cashiersAllBusy"] = sem["cashiersAllBusy"]
    BY <1>1 DEF ManagerWait, TypeOK, Semaphores, QueueInv, ClosingOrder
  <2> QED BY <1>1, <2>1, ManagementKeepsQueue DEF ManagerWait
<1>2. ASSUME NEW t \in Staff, ManagerKill(t) PROVE QueueInv'
  <2>1. ClosingOrder'
    BY <1>2 DEF ManagerKill, QueueInv, ClosingOrder
  <2> QED BY <1>2, <2>1, ManagementKeepsQueue DEF ManagerKill
<1>3. CASE ManagerExit
  <2>1. ClosingOrder'
    BY <1>3 DEF ManagerExit, QueueInv, ClosingOrder
  <2> QED BY <1>3, <2>1, ManagementKeepsQueue DEF ManagerExit
<1> QED BY <1>1, <1>2, <1>3 DEF manager

\* SIGUSR1 ends a thread of the staff: by then no customer has chosen it, and
\* it has no order.
LEMMA HandlerKeepsQueue ==
    ASSUME TypeOK, QueueInv, NEW t \in Staff, thread_exit_handler(t)
    PROVE  QueueInv'
<1>1. /\ t \in signalled /\ pc[t] # "exited"
      /\ pc' = [pc EXCEPT ![t] = "exited"]
      /\ UNCHANGED <<mainPc, managerPc, signalled, owner, sem,
                     cashierAvailable, ring, waitForCashier, serverID,
                     customersServed>>
  BY DEF thread_exit_handler, control, data, counters
<1>2. customersServed = Cardinality(Customers)
  BY <1>1 DEF QueueInv, ClosingOrder
<1>3. /\ \A c \in Customers : pc[c] \in Placed
      /\ \A a \in Cashiers : /\ pc[a] \notin Ordered \cup Carrying
                             /\ cashierAvailable[a] = 0
                             /\ ~Chosen(a)
  BY <1>2, NoOrdersLeft
<1>4. /\ \A c \in Customers : pc'[c] = pc[c]
      /\ \A s \in Staff : s # t => pc'[s] = pc[s]
      /\ pc'[t] = "exited" /\ Cashiers \subseteq Staff
  BY <1>1, ParametersOK DEF TypeOK, Threads, Staff
<1>5. /\ ringSeq' = ringSeq /\ onRing' = onRing
      /\ queueSize(ring)' = queueSize(ring)
  BY <1>1, RingFrame
<1>6. QueueMutexes'
  BY <1>1, <1>4 DEF QueueInv, QueueMutexes
<1>7. CashierRequests'
  BY <1>1, <1>4, <1>5 DEF QueueInv, CashierRequests, NoneAsked
<1>8. RingOfTheIdle'
  <2>1. \A a \in Cashiers : /\ a # t => (Idle(a)' <=> Idle(a))
                            /\ a = t => ~Idle(a)'
    BY <1>1, <1>4 DEF Idle, Chosen
  <2> QED BY <1>4, <1>5, <2>1 DEF QueueInv, RingOfTheIdle
<1>9. ChosenSleep'
  BY <1>1, <1>3, <1>4 DEF QueueInv, ChosenSleep, Placed
<1>10. ClosingOrder'
  BY <1>1, <1>4 DEF QueueInv, ClosingOrder, Threads
<1>11. working' = working
  BY <1>3, <1>4 DEF working, Ordered, Carrying
<1>12. ordering' = ordering /\ woken' = woken
  BY <1>1, <1>4 DEF ordering, woken
<1>13. OrdersAddUp'
  BY <1>1, <1>11, <1>12 DEF QueueInv, OrdersAddUp
<1> QED BY <1>6, <1>7, <1>8, <1>9, <1>10, <1>13 DEF QueueInv

LEMMA MainKeepsQueue ==
    ASSUME TypeOK, QueueInv, main
    PROVE  QueueInv'
<1> USE DEF data, counters
<1>1. CASE MainCreateManager
  <2>1. ClosingOrder'
    BY <1>1 DEF MainCreateManager, QueueInv, ClosingOrder
  <2> QED BY <1>1, <2>1, ManagementKeepsQueue DEF MainCreateManager
<1>2. CASE MainJoin
  <2>1. ClosingOrder'
    BY <1>2 DEF MainJoin, QueueInv, ClosingOrder
  <2> QED BY <1>2, <2>1, ManagementKeepsQueue DEF MainJoin
<1>3. CASE MainExit
  <2>1. /\ mainPc = "release" /\ mainPc' = "exited"
        /\ \A t \in Threads : pc'[t] = "exited"
        /\ UNCHANGED <<managerPc, signalled, owner, sem, cashierAvailable,
                       ring, waitForCashier, serverID, customersServed>>
    BY <1>3 DEF MainExit
  <2>2. Cashiers \subseteq Threads /\ Customers \subseteq Threads
    BY DEF Threads, Staff
  <2>3. managerPc = "exited" /\ \A t \in Staff : t \in signalled
    BY <2>1 DEF QueueInv, ClosingOrder
  <2>4. \A a \in Cashiers : cashierAvailable[a] = 0
    BY <2>3, NoOrdersLeft DEF QueueInv, ClosingOrder
  <2>5. /\ ringSeq' = ringSeq /\ onRing' = onRing
        /\ queueSize(ring)' = queueSize(ring)
    BY <2>1, RingFrame
  <2>6. QueueMutexes' /\ ChosenSleep' /\ OrdersAddUp'
    BY <2>1, <2>2, <2>4 DEF QueueMutexes, ChosenSleep, OrdersAddUp, InCM
  <2>7. CashierRequests'
    BY <2>1, <2>2, <2>5 DEF QueueInv, CashierRequests, NoneAsked, InCM
  <2>8. RingOfTheIdle'
    BY <2>1, <2>2, <2>5 DEF QueueInv, RingOfTheIdle, Idle
  <2>9. ClosingOrder'
    BY <2>1, <2>3, <2>4 DEF QueueInv, ClosingOrder
  <2> QED BY <2>6, <2>7, <2>8, <2>9 DEF QueueInv
<1> QED BY <1>1, <1>2, <1>3, CreateKeepsQueue DEF main

\* QueueInv holds in every reachable state: the threads at the ring hold
\* queueMutex, the customer that orders holds CM, the requests and posts of
\* cashiersAllBusy balance, sleepingQueue holds each idle cashier once, and
\* no thread is signalled before the last customer is served.
THEOREM QueueProtocol == Spec => []QueueInv
<1>1. Init => QueueInv
  <2> SUFFICES ASSUME Init PROVE QueueInv
    OBVIOUS
  <2>1. /\ \A t \in Threads : pc[t] = "unborn"
        /\ Cashiers \subseteq Threads /\ Customers \subseteq Threads
        /\ Staff \subseteq Threads
    BY DEF Init, Threads, Staff
  <2>2. queueSize(ring) = 0
    <3>1. ring.tail = -1 /\ ring.head = 0
      BY DEF Init
    <3>2. ring.tail + 1 - ring.head + Slots = Slots
      BY <3>1, SlotsType
    <3> QED BY <3>2, SlotsType, ModCases DEF queueSize
  <2>3. 1..queueSize(ring) = {} /\ onRing = {}
    BY <2>2 DEF onRing
  <2>4. QueueMutexes /\ CashierRequests
    BY <2>1, <2>2 DEF Init, QueueMutexes, CashierRequests, NoneAsked, InCM,
                      Semaphores
  <2>5. RingOfTheIdle
    BY <2>1, <2>3 DEF RingOfTheIdle, Idle
  <2>6. ChosenSleep /\ ClosingOrder
    BY <2>1 DEF Init, ChosenSleep, ClosingOrder, Semaphores
  <2>7. ordering = {} /\ woken = {} /\ working = {}
    BY <2>1 DEF Init, ordering, woken, working, Placed, Ordered, Carrying
  <2>8. OrdersAddUp
    BY <2>7, FS_EmptySet DEF Init, OrdersAddUp
  <2> QED BY <2>4, <2>5, <2>6, <2>8 DEF QueueInv
<1>2. TypeOK /\ QueueInv /\ [Next]_vars => QueueInv'
  <2> SUFFICES ASSUME TypeOK, QueueInv, [Next]_vars PROVE QueueInv'
    OBVIOUS
  <2>1. CASE UNCHANGED vars
    <3>1. ClosingOrder'
      BY <2>1 DEF vars, QueueInv, ClosingOrder
    <3> QED BY <2>1, <3>1, ManagementKeepsQueue DEF vars
  <2> QED BY <2>1, CookKeepsQueue, CashierKeepsQueue, CustomerKeepsQueue,
             HandlerKeepsQueue, ManagerKeepsQueue, MainKeepsQueue
          DEF Next, Terminated
<1> QED BY <1>1, <1>2, TypeCorrect, PTL DEF Spec

-----------------------------------------------------------------------------
(* What the program promises at the ring and when it closes.               *)

\* No customer sleeps on cashiersAllBusy past the wake-up it waits for: if
\* nobody has posted it, the ring is empty and its request stands.
THEOREM QueueWakeups == Spec => []NoLostQueueWakeup
<1>1. TypeOK /\ QueueInv => NoLostQueueWakeup
  BY DEF TypeOK, QueueInv, CashierRequests, NoLostQueueWakeup, Semaphores
<1> QED BY <1>1, TypeCorrect, QueueProtocol, PTL

\* enqueue() and dequeue() lose and duplicate no cashier, and sleepingQueue
\* never overflows, whatever the cashiers and customers do in between.
THEOREM RingIsExact == Spec => []RingHoldsTheIdle
<1>1. TypeOK /\ QueueInv => RingHoldsTheIdle
  <2> SUFFICES ASSUME TypeOK, QueueInv PROVE RingHoldsTheIdle
    OBVIOUS
  <2>1. \A a \in Cashiers \ signalled : pc[a] # "exited"
    BY DEF QueueInv, ClosingOrder, Staff
  <2>2. \A a \in Cashiers \ signalled : a \in onRing <=> Idle(a)
    BY <2>1 DEF QueueInv, RingOfTheIdle
  <2> QED BY <2>2, RingCounts DEF RingHoldsTheIdle
<1> QED BY <1>1, TypeCorrect, QueueProtocol, PTL

\* When customer() calls dequeue() it gets a cashier, never 0, and that
\* cashier sleeps: it never posts to cashierAvailable[-1].
THEOREM CashierAlwaysReady == Spec => []CashierIsReady
<1>1. TypeOK /\ QueueInv => CashierIsReady
  BY HeadSleeps DEF CashierIsReady, QueueInv, ChosenSleep
<1> QED BY <1>1, TypeCorrect, QueueProtocol, PTL

\* Every order is served once: the posts of cashierAvailable and the count of
\* customersServed agree, with any number of cashiers at work.
THEOREM OrdersBalance == Spec => []OrdersAddUp
<1>1. QueueInv => OrdersAddUp
  BY DEF QueueInv
<1> QED BY <1>1, QueueProtocol, PTL

\* The manager sends its first signal only when every customer is served, no
\* cashier has an order, and no customer needs one any more.
THEOREM ClosesOnlyWhenServed == Spec => []ClosesWhenServed
<1>1. TypeOK /\ QueueInv => ClosesWhenServed
  <2> SUFFICES ASSUME TypeOK, QueueInv, managerPc \in {"dismiss", "exited"}
               PROVE  /\ customersServed = Cardinality(Customers)
                      /\ \A a \in Cashiers :
                            /\ pc[a] \notin Ordered \cup Carrying
                            /\ cashierAvailable[a] = 0
                      /\ \A c \in Customers : pc[c] \in Placed
    BY DEF ClosesWhenServed
  <2> QED BY NoOrdersLeft DEF QueueInv, ClosingOrder
<1> QED BY <1>1, TypeCorrect, QueueProtocol, PTL

\* When main() destroys the mutexes and frees the arrays, every thread has
\* ended, has been signalled, or is a customer with only CM left to unlock.
THEOREM ReleasesLast == Spec => []ReleasedAfterDismissal
<1>1. TypeOK /\ QueueInv => ReleasedAfterDismissal
  <2> SUFFICES ASSUME TypeOK, QueueInv, mainPc = "release", NEW t \in Threads
               PROVE  \/ pc[t] = "exited" \/ t \in signalled
                      \/ t \in Customers /\ pc[t] = "unlockCM"
    BY DEF ReleasedAfterDismissal
  <2>1. managerPc = "exited" /\ Staff \subseteq signalled
    BY DEF QueueInv, ClosingOrder
  <2>2. \A c \in Customers : pc[c] \in Placed
    BY <2>1, NoOrdersLeft DEF QueueInv, ClosingOrder
  <2> QED BY <2>1, <2>2 DEF Threads, Placed
<1> QED BY <1>1, TypeCorrect, QueueProtocol, PTL

=============================================================================
