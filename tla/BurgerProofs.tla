---------------------------- MODULE BurgerProofs ----------------------------
(***************************************************************************)
(* Proofs about the Burger Buddies program, for any number of cooks,       *)
(* cashiers and customers and any rack: the type of the state, and the     *)
(* protocol around the rack (RackNotNegative and NoLostRackWakeup).        *)
(***************************************************************************)
EXTENDS BurgerBuddies, FiniteSetTheorems, TLAPS

LEMMA SlotsType == Slots \in Nat /\ Slots >= 2
<1>1. Cardinality(Cashiers) \in Nat
  BY FS_CardinalityType, ParametersOK
<1>2. Cardinality(Cashiers) # 0
  BY FS_EmptySet, ParametersOK
<1> QED BY <1>1, <1>2 DEF Slots

LEMMA ModSlots == \A i \in Int : i % Slots \in 0..(Slots - 1)
BY SlotsType

-----------------------------------------------------------------------------
(* The type of the state.                                                  *)

\* A thread's program point after a step from here to there.
PcOK(t, l) == /\ l \in CookPc \cup CashierPc \cup CustomerPc
              /\ t \in Cooks => l \in CookPc
              /\ t \in Cashiers => l \in CashierPc
              /\ t \in Customers => l \in CustomerPc

\* The ring's indices stay inside it.
RingType == [sleepingQueue : [0..(Slots - 1) -> Cashiers \cup {NoThread}],
             head : 0..(Slots - 1), tail : -1..(Slots - 1)]

LEMMA RingTypes ==
    ASSUME NEW q \in RingType
    PROVE  /\ \A a \in Cashiers : enqueue(q, a) \in RingType
           /\ dequeueRest(q) \in RingType
           /\ dequeued(q) \in Cashiers \cup {NoThread}
<1>1. /\ q.tail \in Int /\ q.head \in 0..(Slots - 1)
      /\ q.sleepingQueue \in [0..(Slots - 1) -> Cashiers \cup {NoThread}]
  BY SlotsType DEF RingType
<1>2. (q.tail + 1) % Slots \in 0..(Slots - 1) /\ (q.head + 1) % Slots \in 0..(Slots - 1)
  <2>1. q.tail + 1 \in Int /\ q.head + 1 \in Int
    BY <1>1, SlotsType
  <2> QED BY <2>1, ModSlots
<1>3. ASSUME NEW a \in Cashiers PROVE enqueue(q, a) \in RingType
  <2> DEFINE t == (q.tail + 1) % Slots
  <2>1. t \in -1..(Slots - 1) /\ t \in 0..(Slots - 1)
    BY <1>2, SlotsType
  <2> DEFINE s == [q.sleepingQueue EXCEPT ![t] = a]
  <2>2. s \in [0..(Slots - 1) -> Cashiers \cup {NoThread}]
    BY <1>1
  <2>3. enqueue(q, a) = [sleepingQueue |-> s, head |-> q.head, tail |-> t]
    BY DEF enqueue, RingType
  <2> HIDE DEF t, s
  <2> QED BY <1>1, <2>1, <2>2, <2>3 DEF RingType
<1>4. dequeueRest(q) \in RingType
  BY <1>2 DEF dequeueRest, RingType
<1>5. dequeued(q) \in Cashiers \cup {NoThread}
  BY <1>1 DEF dequeued
<1> QED BY <1>3, <1>4, <1>5

LEMMA StepType ==
    ASSUME TypeOK, NEW t \in Threads, NEW from, NEW to, PcOK(t, to),
           Step(t, from, to)
    PROVE  /\ pc' \in [Threads -> CookPc \cup CashierPc \cup CustomerPc]
           /\ \A k \in Cooks : pc'[k] \in CookPc
           /\ \A a \in Cashiers : pc'[a] \in CashierPc
           /\ \A c \in Customers : pc'[c] \in CustomerPc
BY DEF TypeOK, Step, PcOK, Threads, Staff

\* The libpthread calls keep the state typed.
LEMMA CallTypes ==
    ASSUME TypeOK, NEW t \in Threads, NEW from, NEW to, PcOK(t, to)
    PROVE  /\ \A m \in Mutexes : Acquire(t, m, from, to) => TypeOK'
           /\ \A m \in Mutexes : Release(t, m, from, to) => TypeOK'
           /\ \A s \in Semaphores : Await(t, s, from, to) => TypeOK'
<1>1. ASSUME NEW m \in Mutexes, Acquire(t, m, from, to) PROVE TypeOK'
  BY <1>1, StepType DEF Acquire, TypeOK, control, data, counters
<1>2. ASSUME NEW m \in Mutexes, Release(t, m, from, to) PROVE TypeOK'
  BY <1>2, StepType DEF Release, Unlock, TypeOK, control, data, counters
<1>3. ASSUME NEW s \in Semaphores, Await(t, s, from, to) PROVE TypeOK'
  BY <1>3, StepType DEF Await, TypeOK, control, data, counters
<1> QED BY <1>1, <1>2, <1>3

LEMMA SemPostType ==
    ASSUME TypeOK, NEW s \in Semaphores, SemPost(s)
    PROVE  sem' \in [Semaphores -> Nat]
BY DEF SemPost, TypeOK

\* The names of the program points, mutexes and semaphores.
LEMMA Names ==
    /\ \A k \in Cooks : \A l \in CookPc : k \in Threads /\ PcOK(k, l)
    /\ \A a \in Cashiers : \A l \in CashierPc : a \in Threads /\ PcOK(a, l)
    /\ \A c \in Customers : \A l \in CustomerPc : c \in Threads /\ PcOK(c, l)
BY ParametersOK DEF PcOK, Threads, Staff

LEMMA CookTypes ==
    ASSUME TypeOK, NEW k \in Cooks, cook(k)
    PROVE  TypeOK'
<1> USE Names DEF Mutexes, Semaphores
<1>1. CASE CookLockCK(k)
  BY <1>1, CallTypes DEF CookLockCK, CookPc
<1>2. CASE CookLockRack(k)
  BY <1>2, CallTypes DEF CookLockRack, CookPc
<1>3. CASE CookUnlockFull(k)
  BY <1>3, CallTypes DEF CookUnlockFull, CookPc
<1>4. CASE CookWaitFull(k)
  BY <1>4, CallTypes DEF CookWaitFull, CookPc
<1>5. CASE CookRelockRack(k)
  BY <1>5, CallTypes DEF CookRelockRack, CookPc
<1>6. CASE CookPut(k)
  <2>1. PcOK(k, "unlockRack") /\ k \in Threads
    BY DEF CookPc
  <2>2. sem' \in [Semaphores -> Nat] /\ waitForBurger' \in Int
    BY <1>6, SemPostType DEF CookPut, TypeOK
  <2>3. /\ Step(k, "put", "unlockRack") /\ rack' \in Int
        /\ UNCHANGED <<mainPc, managerPc, signalled, owner, cashierAvailable,
                       waitForCashier, ring, serverID, customersServed>>
    BY <1>6 DEF CookPut, TypeOK, control
  <2> QED BY <2>1, <2>2, <2>3, StepType DEF TypeOK
<1>7. CASE CookUnlockRack(k)
  BY <1>7, CallTypes DEF CookUnlockRack, CookPc
<1>8. CASE CookUnlockCK(k)
  BY <1>8, CallTypes DEF CookUnlockCK, CookPc
<1> QED BY <1>1, <1>2, <1>3, <1>4, <1>5, <1>6, <1>7, <1>8 DEF cook

LEMMA CashierTypes ==
    ASSUME TypeOK, NEW a \in Cashiers, cashier(a)
    PROVE  TypeOK'
<1> USE Names DEF Mutexes, Semaphores
<1>1. CASE CashierLockQueue(a)
  BY <1>1, CallTypes DEF CashierLockQueue, CashierPc
<1>2. CASE CashierEnqueue(a)
  <2>1. PcOK(a, "unlockQueue") /\ a \in Threads
    BY DEF CashierPc
  <2>2. sem' \in [Semaphores -> Nat] /\ waitForCashier' \in Int
    BY <1>2, SemPostType DEF CashierEnqueue, TypeOK
  <2>3. ring' \in RingType
    BY <1>2, RingTypes DEF CashierEnqueue, RingType, TypeOK
  <2> QED BY <1>2, <2>1, <2>2, <2>3, StepType
          DEF CashierEnqueue, TypeOK, RingType, control
<1>3. CASE CashierUnlockQueue(a)
  BY <1>3, CallTypes DEF CashierUnlockQueue, CashierPc
<1>4. CASE CashierSleep(a)
  <2>1. PcOK(a, "lockCA") /\ a \in Threads
    BY DEF CashierPc
  <2> QED BY <1>4, <2>1, StepType DEF CashierSleep, TypeOK, control, data, counters
<1>5. CASE CashierLockCA(a)
  BY <1>5, CallTypes DEF CashierLockCA, CashierPc
<1>6. CASE CashierLockRack(a)
  BY <1>6, CallTypes DEF CashierLockRack, CashierPc
<1>7. CASE CashierUnlockEmpty(a)
  <2>1. PcOK(a, "waitBurger") /\ a \in Threads
    BY DEF CashierPc
  <2> QED BY <1>7, <2>1, StepType DEF CashierUnlockEmpty, Unlock, TypeOK, control
<1>8. CASE CashierWaitBurger(a)
  BY <1>8, CallTypes DEF CashierWaitBurger, CashierPc
<1>9. CASE CashierRelockRack(a)
  BY <1>9, CallTypes DEF CashierRelockRack, CashierPc
<1>10. CASE CashierTake(a)
  <2>1. PcOK(a, "unlockRack") /\ a \in Threads
    BY DEF CashierPc
  <2>2. sem' \in [Semaphores -> Nat]
    BY <1>10, SemPostType DEF CashierTake, TypeOK
  <2> QED BY <1>10, <2>1, <2>2, StepType DEF CashierTake, TypeOK, control
<1>11. CASE CashierUnlockRack(a)
  BY <1>11, CallTypes DEF CashierUnlockRack, CashierPc
<1>12. CASE CashierUnlockCA(a)
  BY <1>12, CallTypes DEF CashierUnlockCA, CashierPc
<1>13. CASE CashierLockCnt(a)
  BY <1>13, CallTypes DEF CashierLockCnt, CashierPc
<1>14. CASE CashierCount(a)
  <2>1. PcOK(a, "unlockCnt") /\ a \in Threads
    BY DEF CashierPc
  <2>2. sem' \in [Semaphores -> Nat]
    BY <1>14, SemPostType DEF CashierCount, TypeOK
  <2> QED BY <1>14, <2>1, <2>2, StepType DEF CashierCount, TypeOK, control
<1>15. CASE CashierUnlockCnt(a)
  BY <1>15, CallTypes DEF CashierUnlockCnt, CashierPc
<1> QED BY <1>1, <1>2, <1>3, <1>4, <1>5, <1>6, <1>7, <1>8, <1>9, <1>10, <1>11,
           <1>12, <1>13, <1>14, <1>15 DEF cashier

LEMMA CustomerTypes ==
    ASSUME TypeOK, NEW c \in Customers, customer(c)
    PROVE  TypeOK'
<1> USE Names DEF Mutexes, Semaphores
<1>1. CASE CustomerLockCM(c)
  BY <1>1, CallTypes DEF CustomerLockCM, CustomerPc
<1>2. CASE CustomerLockQueue(c)
  BY <1>2, CallTypes DEF CustomerLockQueue, CustomerPc
<1>3. CASE CustomerUnlockEmpty(c)
  <2>1. PcOK(c, "waitCashier") /\ c \in Threads
    BY DEF CustomerPc
  <2> QED BY <1>3, <2>1, StepType DEF CustomerUnlockEmpty, Unlock, TypeOK, control
<1>4. CASE CustomerWaitCashier(c)
  BY <1>4, CallTypes DEF CustomerWaitCashier, CustomerPc
<1>5. CASE CustomerRelockQueue(c)
  BY <1>5, CallTypes DEF CustomerRelockQueue, CustomerPc
<1>6. CASE CustomerDequeue(c)
  <2>1. PcOK(c, "unlockQueue") /\ c \in Threads
    BY DEF CustomerPc
  <2>2. ring' \in RingType /\ dequeued(ring) \in Cashiers \cup {NoThread}
    BY <1>6, RingTypes DEF CustomerDequeue, RingType, TypeOK
  <2>3. serverID' \in [Customers -> Cashiers \cup {NoThread}]
    BY <1>6, <2>2 DEF CustomerDequeue, TypeOK
  <2> QED BY <1>6, <2>1, <2>2, <2>3, StepType
          DEF CustomerDequeue, TypeOK, RingType, control, counters
<1>7. CASE CustomerUnlockQueue(c)
  BY <1>7, CallTypes DEF CustomerUnlockQueue, CustomerPc
<1>8. CASE CustomerPost(c)
  <2>1. PcOK(c, "unlockCM") /\ c \in Threads
    BY DEF CustomerPc
  <2> QED BY <1>8, <2>1, StepType DEF CustomerPost, TypeOK, control, data, counters
<1>9. CASE CustomerUnlockCM(c)
  BY <1>9, CallTypes DEF CustomerUnlockCM, CustomerPc
<1> QED BY <1>1, <1>2, <1>3, <1>4, <1>5, <1>6, <1>7, <1>8, <1>9 DEF customer

LEMMA MainTypes ==
    ASSUME TypeOK, main
    PROVE  TypeOK'
<1>1. ASSUME NEW t \in Threads, MainCreate(t) PROVE TypeOK'
  <2> DEFINE l == CASE t \in Cooks     -> "lockCK"
                    [] t \in Cashiers  -> "lockQueue"
                    [] t \in Customers -> "lockCM"
  <2>1. PcOK(t, l)
    BY ParametersOK DEF PcOK, CookPc, CashierPc, CustomerPc, Threads, Staff
  <2>2. Step(t, "unborn", l)
    BY <1>1 DEF MainCreate
  <2> HIDE DEF l
  <2> QED BY <1>1, <2>1, <2>2, StepType
          DEF MainCreate, TypeOK, control, data, counters
<1>2. CASE MainCreateManager
  BY <1>2 DEF MainCreateManager, TypeOK, data, counters
<1>3. CASE MainJoin
  BY <1>3 DEF MainJoin, TypeOK, data, counters
<1>4. CASE MainExit
  <2>1. "exited" \in CookPc \cap CashierPc \cap CustomerPc
    BY DEF CookPc, CashierPc, CustomerPc
  <2> QED BY <1>4, <2>1 DEF MainExit, TypeOK, Threads, Staff, data, counters
<1> QED BY <1>1, <1>2, <1>3, <1>4 DEF main

LEMMA ManagerTypes ==
    ASSUME TypeOK, manager
    PROVE  TypeOK'
<1>1. CASE ManagerWait
  BY <1>1 DEF ManagerWait, TypeOK, Semaphores, data, counters
<1>2. ASSUME NEW t \in Staff, ManagerKill(t) PROVE TypeOK'
  BY <1>2 DEF ManagerKill, TypeOK, data, counters
<1>3. CASE ManagerExit
  BY <1>3 DEF ManagerExit, TypeOK, data, counters
<1> QED BY <1>1, <1>2, <1>3 DEF manager

LEMMA HandlerTypes ==
    ASSUME TypeOK, NEW t \in Staff, thread_exit_handler(t)
    PROVE  TypeOK'
<1>1. "exited" \in CookPc \cap CashierPc \cap CustomerPc
  BY DEF CookPc, CashierPc, CustomerPc
<1> QED BY <1>1 DEF thread_exit_handler, TypeOK, Threads, control, data, counters

\* The type invariant of the Burger Buddies program, for any shop: in
\* particular no semaphore goes negative and the two indices of the ring of
\* sleepingQueue never leave the array main() allocates for it.
THEOREM TypeCorrect == Spec => []TypeOK
<1>1. Init => TypeOK
  <2> SUFFICES ASSUME Init PROVE TypeOK
    OBVIOUS
  <2>1. "unborn" \in CookPc \cap CashierPc \cap CustomerPc
    BY DEF CookPc, CashierPc, CustomerPc
  <2>2. ring \in RingType
    BY SlotsType DEF Init, RingType
  <2> QED BY <2>1, <2>2 DEF Init, TypeOK, RingType, Threads, Staff
<1>2. TypeOK /\ [Next]_vars => TypeOK'
  <2> SUFFICES ASSUME TypeOK, [Next]_vars PROVE TypeOK'
    OBVIOUS
  <2>1. CASE UNCHANGED vars
    BY <2>1 DEF vars, TypeOK
  <2> QED BY <2>1, CookTypes, CashierTypes, CustomerTypes, HandlerTypes,
             ManagerTypes, MainTypes DEF Next, Terminated
<1> QED BY <1>1, <1>2, PTL DEF Spec

-----------------------------------------------------------------------------
(* The protocol around the rack: RackInv is inductive, given TypeOK.       *)

\* No step of a cook breaks the protocol around the rack.
LEMMA CookKeepsRack ==
    ASSUME TypeOK, RackInv, NEW k \in Cooks, cook(k)
    PROVE  RackInv'
<1> USE ParametersOK DEF TypeOK, RackInv, RackNotNegative, RackMutexes,
        BurgerRequests, NoRequest, FullRackWaits, AtRack, InCK, InCA, Staff,
        Threads, Mutexes, Semaphores, control, data, counters, Step
<1>1. CASE CookLockCK(k)
  BY <1>1 DEF CookLockCK, Acquire
<1>2. CASE CookLockRack(k)
  BY <1>2 DEF CookLockRack, Acquire
<1>3. CASE CookUnlockFull(k)
  BY <1>3 DEF CookUnlockFull, Release, Unlock
<1>4. CASE CookWaitFull(k)
  <2>1. /\ pc' = [pc EXCEPT ![k] = "relockRack"] /\ pc[k] = "waitFull"
        /\ UNCHANGED <<owner, rack, waitForBurger>>
        /\ sem'["rackEmpty"] = sem["rackEmpty"]
    BY <1>4 DEF CookWaitFull, Await
  <2>2. \A j \in Cooks : pc'[j] # "waitFull"
    BY <2>1
  <2> QED BY <2>1, <2>2
<1>5. CASE CookRelockRack(k)
  BY <1>5 DEF CookRelockRack, Acquire
<1>6. CASE CookPut(k)
  <2>1. /\ pc' = [pc EXCEPT ![k] = "unlockRack"] /\ pc[k] = "put"
        /\ UNCHANGED owner
        /\ rack' = rack + 1
    BY <1>6 DEF CookPut
  <2>2. sem'["rackFull"] = sem["rackFull"]
    BY <1>6 DEF CookPut, SemPost
  <2>3. /\ rack = 0 /\ waitForBurger # 0 =>
              /\ waitForBurger' = waitForBurger - 1
              /\ sem'["rackEmpty"] = sem["rackEmpty"] + 1
        /\ ~(rack = 0 /\ waitForBurger # 0) =>
              /\ waitForBurger' = waitForBurger
              /\ sem'["rackEmpty"] = sem["rackEmpty"]
    BY <1>6 DEF CookPut, SemPost
  <2>4. RackMutexes' /\ FullRackWaits'
    BY <2>1, <2>2
  <2>5. \A a \in Cashiers : pc'[a] = pc[a] /\ pc[a] \notin {"unlockEmpty", "take"}
    BY <2>1
  <2> QED BY <2>1, <2>3, <2>4, <2>5
<1>7. CASE CookUnlockRack(k)
  BY <1>7 DEF CookUnlockRack, Release, Unlock
<1>8. CASE CookUnlockCK(k)
  BY <1>8 DEF CookUnlockCK, Release, Unlock
<1> QED BY <1>1, <1>2, <1>3, <1>4, <1>5, <1>6, <1>7, <1>8 DEF cook

\* Nor does a step of a cashier.
LEMMA CashierKeepsRack ==
    ASSUME TypeOK, RackInv, NEW a \in Cashiers, cashier(a)
    PROVE  RackInv'
<1> USE ParametersOK DEF TypeOK, RackInv, RackNotNegative, RackMutexes,
        BurgerRequests, NoRequest, FullRackWaits, AtRack, InCK, InCA, Staff,
        Threads, Mutexes, Semaphores, control, data, counters, Step
<1>1. CASE CashierLockQueue(a)
  BY <1>1 DEF CashierLockQueue, Acquire
<1>2. CASE CashierEnqueue(a)
  <2>1. /\ pc' = [pc EXCEPT ![a] = "unlockQueue"] /\ pc[a] = "enqueue"
        /\ UNCHANGED <<owner, rack, waitForBurger>>
    BY <1>2 DEF CashierEnqueue
  <2>2. /\ sem'["rackEmpty"] = sem["rackEmpty"]
        /\ sem'["rackFull"] = sem["rackFull"]
    BY <1>2 DEF CashierEnqueue, SemPost
  <2> QED BY <2>1, <2>2
<1>3. CASE CashierUnlockQueue(a)
  BY <1>3 DEF CashierUnlockQueue, Release, Unlock
<1>4. CASE CashierSleep(a)
  BY <1>4 DEF CashierSleep
<1>5. CASE CashierLockCA(a)
  BY <1>5 DEF CashierLockCA, Acquire
<1>6. CASE CashierLockRack(a)
  BY <1>6 DEF CashierLockRack, Acquire
<1>7. CASE CashierUnlockEmpty(a)
  BY <1>7 DEF CashierUnlockEmpty, Unlock
<1>8. CASE CashierWaitBurger(a)
  BY <1>8 DEF CashierWaitBurger, Await
<1>9. CASE CashierRelockRack(a)
  BY <1>9 DEF CashierRelockRack, Acquire
<1>10. CASE CashierTake(a)
  BY <1>10 DEF CashierTake, SemPost
<1>11. CASE CashierUnlockRack(a)
  BY <1>11 DEF CashierUnlockRack, Release, Unlock
<1>12. CASE CashierUnlockCA(a)
  BY <1>12 DEF CashierUnlockCA, Release, Unlock
<1>13. CASE CashierLockCnt(a)
  BY <1>13 DEF CashierLockCnt, Acquire
<1>14. CASE CashierCount(a)
  <2>1. /\ pc' = [pc EXCEPT ![a] = "unlockCnt"] /\ pc[a] = "count"
        /\ UNCHANGED <<owner, rack, waitForBurger>>
    BY <1>14 DEF CashierCount
  <2>2. /\ sem'["rackEmpty"] = sem["rackEmpty"]
        /\ sem'["rackFull"] = sem["rackFull"]
    BY <1>14 DEF CashierCount, SemPost
  <2> QED BY <2>1, <2>2
<1>15. CASE CashierUnlockCnt(a)
  BY <1>15 DEF CashierUnlockCnt, Release, Unlock
<1> QED BY <1>1, <1>2, <1>3, <1>4, <1>5, <1>6, <1>7, <1>8, <1>9, <1>10,
           <1>11, <1>12, <1>13, <1>14, <1>15 DEF cashier

\* A customer does not touch the rack.
LEMMA CustomerKeepsRack ==
    ASSUME TypeOK, RackInv, NEW c \in Customers, customer(c)
    PROVE  RackInv'
<1> USE ParametersOK DEF TypeOK, RackInv, RackNotNegative, RackMutexes,
        BurgerRequests, NoRequest, FullRackWaits, AtRack, InCK, InCA, Staff,
        Threads, Mutexes, Semaphores, control, data, counters, Step
<1>1. CASE CustomerLockCM(c)
  BY <1>1 DEF CustomerLockCM, Acquire
<1>2. CASE CustomerLockQueue(c)
  BY <1>2 DEF CustomerLockQueue, Acquire
<1>3. CASE CustomerUnlockEmpty(c)
  BY <1>3 DEF CustomerUnlockEmpty, Unlock
<1>4. CASE CustomerWaitCashier(c)
  BY <1>4 DEF CustomerWaitCashier, Await
<1>5. CASE CustomerRelockQueue(c)
  BY <1>5 DEF CustomerRelockQueue, Acquire
<1>6. CASE CustomerDequeue(c)
  BY <1>6 DEF CustomerDequeue
<1>7. CASE CustomerUnlockQueue(c)
  BY <1>7 DEF CustomerUnlockQueue, Release, Unlock
<1>8. CASE CustomerPost(c)
  BY <1>8 DEF CustomerPost
<1>9. CASE CustomerUnlockCM(c)
  BY <1>9 DEF CustomerUnlockCM, Release, Unlock
<1> QED BY <1>1, <1>2, <1>3, <1>4, <1>5, <1>6, <1>7, <1>8, <1>9 DEF customer

\* Nor do main(), the manager and the handler, though the handler ends a
\* thread inside a critical section: it stays locked.
LEMMA OthersKeepRack ==
    ASSUME TypeOK, RackInv,
           \/ main \/ manager \/ \E t \in Staff : thread_exit_handler(t)
    PROVE  RackInv'
<1> USE ParametersOK DEF TypeOK, RackInv, RackNotNegative, RackMutexes,
        BurgerRequests, NoRequest, FullRackWaits, AtRack, InCK, InCA, Staff,
        Threads, Mutexes, Semaphores, control, data, counters, Step
<1>1. ASSUME NEW t \in Threads, MainCreate(t) PROVE RackInv'
  <2>1. PICK l \in {"lockCK", "lockQueue", "lockCM"} :
           pc' = [pc EXCEPT ![t] = l]
    BY <1>1 DEF MainCreate
  <2>2. UNCHANGED <<owner, sem, rack, waitForBurger>>
    BY <1>1 DEF MainCreate
  <2> QED BY <2>1, <2>2 DEF CookPc
<1>2. CASE MainCreateManager \/ MainJoin \/ ManagerExit
  BY <1>2 DEF MainCreateManager, MainJoin, ManagerExit
<1>3. CASE MainExit
  BY <1>3 DEF MainExit
<1>4. CASE ManagerWait
  BY <1>4 DEF ManagerWait
<1>5. ASSUME NEW t \in Staff, ManagerKill(t) PROVE RackInv'
  BY <1>5 DEF ManagerKill
<1>6. ASSUME NEW t \in Staff, thread_exit_handler(t) PROVE RackInv'
  BY <1>6 DEF thread_exit_handler
<1> QED BY <1>1, <1>2, <1>3, <1>4, <1>5, <1>6 DEF main, manager

\* RackInv holds in every reachable state: the threads in a critical section
\* of cook() and cashier() hold its mutex, and the requests and posts of
\* rackEmpty and rackFull balance.
THEOREM RackProtocol == Spec => []RackInv
<1>1. Init => RackInv
  BY ParametersOK
     DEF Init, RackInv, RackNotNegative, RackMutexes, BurgerRequests,
         NoRequest, FullRackWaits, AtRack, InCK, InCA, Staff, Threads,
         Semaphores
<1>2. TypeOK /\ RackInv /\ [Next]_vars => RackInv'
  <2> SUFFICES ASSUME TypeOK, RackInv, [Next]_vars PROVE RackInv'
    OBVIOUS
  <2>1. CASE UNCHANGED vars
    BY <2>1 DEF vars, RackInv, RackNotNegative, RackMutexes, BurgerRequests,
                NoRequest, FullRackWaits
  <2> QED BY <2>1, CookKeepsRack, CashierKeepsRack, CustomerKeepsRack,
             OthersKeepRack DEF Next, Terminated
<1> QED BY <1>1, <1>2, TypeCorrect, PTL DEF Spec

\* A cashier never takes a burger off an empty rack, although it may look at
\* the rack, let go of it, and take the burger only after it was woken.
THEOREM RackStaysNatural == Spec => []RackNotNegative
<1>1. RackInv => RackNotNegative
  BY DEF RackInv
<1> QED BY <1>1, RackProtocol, PTL

\* No cook and no cashier sleeps at the rack past the wake-up it waits for,
\* wherever the others are between their unlock and their sem_wait.
THEOREM RackWakeups == Spec => []NoLostRackWakeup
<1>1. TypeOK /\ RackInv => NoLostRackWakeup
  BY ParametersOK
     DEF TypeOK, RackInv, FullRackWaits, BurgerRequests, NoLostRackWakeup,
         Semaphores
<1> QED BY <1>1, TypeCorrect, RackProtocol, PTL

=============================================================================
