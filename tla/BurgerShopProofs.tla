-------------------------- MODULE BurgerShopProofs --------------------------
(***************************************************************************)
(* The Burger Buddies program implements the shop of BurgerShop.tla: every *)
(* step of a thread is a step of the shop or leaves the shop as it is.     *)
(***************************************************************************)
EXTENDS BurgerQueueProofs, Sequences, SequenceTheorems

\* What the shop sees of the program.
shopOpen == managerPc \in {"unborn", "waitFinish"}

LEMMA ShopStutters ==
    ASSUME UNCHANGED <<rack, customersServed, ringSeq, outside, busy, carrying>>,
           shopOpen' = shopOpen
    PROVE  [Shop!Next]_(Shop!vars)
BY DEF Shop!vars, shopOpen

LEMMA ShopStart == Init => Shop!Init
<1> SUFFICES ASSUME Init PROVE Shop!Init
  OBVIOUS
<1>1. /\ \A t \in Threads : pc[t] = "unborn"
      /\ Cashiers \subseteq Threads /\ Customers \subseteq Threads
  BY DEF Init, Threads, Staff
<1>2. queueSize(ring) = 0
  <2>1. ring.tail = -1 /\ ring.head = 0
    BY DEF Init
  <2>2. ring.tail + 1 - ring.head + Slots = Slots
    BY <2>1, SlotsType
  <2> QED BY <2>2, SlotsType, ModCases DEF queueSize
<1>3. ringSeq = <<>>
  BY <1>2 DEF ringSeq
<1>4. outside = Customers /\ carrying = {}
  BY <1>1 DEF outside, carrying, Placed, Carrying
<1>5. busy = {}
  BY <1>1 DEF busy, Init, Chosen, Ordered
<1>6. shopOpen = TRUE
  BY DEF shopOpen, Init
<1> QED BY <1>3, <1>4, <1>5, <1>6 DEF Shop!Init, Init, shopOpen

\* The ring as a sequence.
LEMMA RingIsSeq ==
    ASSUME TypeOK, QueueInv
    PROVE  ringSeq \in Seq(Cashiers) /\ Len(ringSeq) = queueSize(ring)
<1>1. queueSize(ring) \in Nat
  BY RingIsTyped
<1>2. ringSeq \in [1..queueSize(ring) -> Cashiers]
  BY DEF ringSeq, QueueInv, RingOfTheIdle
<1> QED BY <1>1, <1>2

\* As long as somebody has an order or wants one, the shop is open.
LEMMA StillOpen ==
    ASSUME TypeOK, QueueInv,
           \/ \E c \in Customers : pc[c] \notin Placed
           \/ \E a \in Cashiers : pc[a] \in Ordered \cup Carrying
    PROVE  shopOpen = TRUE
<1>1. customersServed # Cardinality(Customers)
  BY NoOrdersLeft
<1> QED BY <1>1 DEF QueueInv, ClosingOrder, TypeOK, shopOpen

-----------------------------------------------------------------------------
(* A cook: putting a burger on the rack is Make, the rest is invisible.    *)

LEMMA CookImplements ==
    ASSUME TypeOK, QueueInv, NEW k \in Cooks, cook(k)
    PROVE  [Shop!Next]_(Shop!vars)
<1>1. /\ UNCHANGED <<managerPc, cashierAvailable, ring, serverID,
                     customersServed>>
      /\ \A t \in Cashiers \cup Customers : pc'[t] = pc[t]
  <2> USE DEF control, data, counters, Step
  <2>1. CASE CookPut(k)
    BY <2>1, ParametersOK DEF CookPut, TypeOK
  <2>2. CASE CookLockCK(k)
    BY <2>2, ParametersOK DEF CookLockCK, Acquire, TypeOK
  <2>3. CASE CookLockRack(k)
    BY <2>3, ParametersOK DEF CookLockRack, Acquire, TypeOK
  <2>4. CASE CookRelockRack(k)
    BY <2>4, ParametersOK DEF CookRelockRack, Acquire, TypeOK
  <2>5. CASE CookWaitFull(k)
    BY <2>5, ParametersOK DEF CookWaitFull, Await, TypeOK
  <2>6. CASE CookUnlockFull(k)
    BY <2>6, ParametersOK DEF CookUnlockFull, Release, TypeOK
  <2>7. CASE CookUnlockRack(k)
    BY <2>7, ParametersOK DEF CookUnlockRack, Release, TypeOK
  <2>8. CASE CookUnlockCK(k)
    BY <2>8, ParametersOK DEF CookUnlockCK, Release, TypeOK
  <2> QED BY <2>1, <2>2, <2>3, <2>4, <2>5, <2>6, <2>7, <2>8 DEF cook
<1>2. UNCHANGED <<customersServed, ringSeq, outside, busy, carrying>>
  <2>1. \A a \in Cashiers : Chosen(a)' <=> Chosen(a)
    BY <1>1 DEF Chosen
  <2>2. outside' = outside /\ carrying' = carrying
    BY <1>1 DEF outside, carrying
  <2>3. busy' = busy
    BY <1>1, <2>1 DEF busy
  <2> QED BY <1>1, <2>2, <2>3, RingFrame
<1>3. shopOpen' = shopOpen
  BY <1>1 DEF shopOpen
<1>4. CASE CookPut(k)
  <2>1. Shop!Make
    BY <1>2, <1>3, <1>4 DEF CookPut, Shop!Make, shopOpen
  <2> QED BY <2>1 DEF Shop!Next
<1>5. CASE ~CookPut(k)
  <2>1. rack' = rack
    BY <1>5 DEF cook, CookLockCK, CookLockRack, CookRelockRack, Acquire,
                CookWaitFull, Await, CookUnlockFull, CookUnlockRack,
                CookUnlockCK, Release, data, counters
  <2> QED BY <1>2, <1>3, <2>1, ShopStutters
<1> QED BY <1>4, <1>5

-----------------------------------------------------------------------------
(* A cashier.                                                              *)

\* The cashier that joins the ring joins the line of the shop.
LEMMA EnqueueIsReady ==
    ASSUME TypeOK, QueueInv, NEW a \in Cashiers, CashierEnqueue(a)
    PROVE  Shop!Ready(a)
<1>1. /\ Step(a, "enqueue", "unlockQueue")
      /\ ring' = enqueue(ring, a)
      /\ UNCHANGED <<managerPc, cashierAvailable, rack, serverID,
                     customersServed>>
  BY DEF CashierEnqueue, control
<1>2. /\ pc[a] = "enqueue" /\ pc'[a] = "unlockQueue"
      /\ \A b \in Cashiers : b # a => pc'[b] = pc[b]
      /\ \A c \in Customers : pc'[c] = pc[c]
  BY <1>1, CashierMoves
<1>3. a \notin onRing
  BY <1>2 DEF QueueInv, RingOfTheIdle, Idle
<1>4. ringSeq' = Append(ringSeq, a)
  <2> DEFINE n == queueSize(ring)
  <2>1. ringSeq' = [i \in 1..(n + 1) |-> IF i = n + 1 THEN a ELSE ringSeq[i]]
    BY <1>1, <1>3, JoinRing
  <2>2. ringSeq \in Seq(Cashiers) /\ Len(ringSeq) = n /\ n \in Nat
    BY RingIsSeq, RingIsTyped
  <2> HIDE DEF n
  <2>3. /\ Append(ringSeq, a) \in Seq(Cashiers)
        /\ Len(Append(ringSeq, a)) = n + 1
        /\ \A i \in 1..n : Append(ringSeq, a)[i] = ringSeq[i]
        /\ Append(ringSeq, a)[n + 1] = a
    BY <2>2, AppendProperties
  <2>4. Append(ringSeq, a) \in [1..(n + 1) -> Cashiers]
    BY <2>3, LenProperties
  <2>5. \A i \in 1..(n + 1) :
           Append(ringSeq, a)[i] = IF i = n + 1 THEN a ELSE ringSeq[i]
    BY <2>2, <2>3
  <2> QED BY <2>1, <2>4, <2>5
<1>5. ~Shop!InLine(a)
  BY <1>3, RingIsSeq DEF Shop!InLine, onRing
<1>6. a \notin busy \cup carrying
  <2>1. ~Chosen(a) /\ cashierAvailable[a] = 0
    BY <1>2 DEF QueueInv, ChosenSleep, Chosen
  <2> QED BY <1>2, <2>1 DEF busy, carrying, Ordered, Carrying
<1>7. outside' = outside /\ carrying' = carrying
  BY <1>2 DEF outside, carrying, Carrying
<1>8. busy' = busy
  <2>1. \A b \in Cashiers : Chosen(b)' <=> Chosen(b)
    BY <1>1, <1>2 DEF Chosen
  <2> QED BY <1>1, <1>2, <2>1 DEF busy, Ordered
<1> QED BY <1>1, <1>4, <1>5, <1>6, <1>7, <1>8 DEF Shop!Ready

\* The cashier that takes a burger takes it for its order.
LEMMA TakeIsTake ==
    ASSUME TypeOK, QueueInv, RackInv, NEW a \in Cashiers, CashierTake(a)
    PROVE  Shop!Take(a)
<1>1. /\ Step(a, "take", "unlockRack")
      /\ rack' = rack - 1
      /\ UNCHANGED <<managerPc, cashierAvailable, ring, serverID,
                     customersServed>>
  BY DEF CashierTake, control
<1>2. /\ pc[a] = "take" /\ pc'[a] = "unlockRack"
      /\ \A b \in Cashiers : b # a => pc'[b] = pc[b]
      /\ \A c \in Customers : pc'[c] = pc[c]
  BY <1>1, CashierMoves
<1>3. rack > 0
  BY <1>2 DEF RackInv, BurgerRequests
<1>4. shopOpen = TRUE /\ shopOpen' = shopOpen
  BY <1>1, <1>2, StillOpen DEF Ordered, shopOpen
<1>5. ringSeq' = ringSeq /\ outside' = outside
  BY <1>1, <1>2, RingFrame DEF outside
<1>6. carrying' = carrying \cup {a}
  BY <1>2 DEF carrying, Carrying
<1>7. a \in busy /\ busy' = busy \ {a}
  <2>1. \A b \in Cashiers : Chosen(b)' <=> Chosen(b)
    BY <1>1, <1>2 DEF Chosen
  <2>2. ~Chosen(a) /\ cashierAvailable[a] = 0
    BY <1>2 DEF QueueInv, ChosenSleep, Chosen
  <2> QED BY <1>1, <1>2, <2>1, <2>2 DEF busy, Ordered
<1> QED BY <1>1, <1>3, <1>4, <1>5, <1>6, <1>7 DEF Shop!Take, shopOpen

\* The cashier that counts a customer has served it.
LEMMA CountIsServe ==
    ASSUME TypeOK, QueueInv, NEW a \in Cashiers, CashierCount(a)
    PROVE  Shop!Serve(a)
<1>1. /\ Step(a, "count", "unlockCnt")
      /\ customersServed' = customersServed + 1
      /\ UNCHANGED <<managerPc, cashierAvailable, ring, serverID, rack>>
  BY DEF CashierCount, control
<1>2. /\ pc[a] = "count" /\ pc'[a] = "unlockCnt"
      /\ \A b \in Cashiers : b # a => pc'[b] = pc[b]
      /\ \A c \in Customers : pc'[c] = pc[c]
  BY <1>1, CashierMoves
<1>3. shopOpen = TRUE /\ shopOpen' = shopOpen
  BY <1>1, <1>2, StillOpen DEF Carrying, shopOpen
<1>4. ringSeq' = ringSeq /\ outside' = outside
  BY <1>1, <1>2, RingFrame DEF outside
<1>5. a \in carrying /\ carrying' = carrying \ {a}
  BY <1>2 DEF carrying, Carrying
<1>6. busy' = busy
  <2>1. \A b \in Cashiers : Chosen(b)' <=> Chosen(b)
    BY <1>1, <1>2 DEF Chosen
  <2> QED BY <1>1, <1>2, <2>1 DEF busy, Ordered
<1> QED BY <1>1, <1>3, <1>4, <1>5, <1>6 DEF Shop!Serve, shopOpen

\* A step of a cashier inside its order, or between orders, is invisible.
LEMMA CashierUnseen ==
    ASSUME TypeOK, QueueInv, NEW a \in Cashiers, NEW from, NEW to,
           Step(a, from, to),
           from \in Ordered <=> to \in Ordered,
           from \in Carrying <=> to \in Carrying,
           UNCHANGED <<managerPc, cashierAvailable, ring, serverID, rack,
                       customersServed>>
    PROVE  [Shop!Next]_(Shop!vars)
<1>1. /\ pc[a] = from /\ pc'[a] = to
      /\ \A b \in Cashiers : b # a => pc'[b] = pc[b]
      /\ \A c \in Customers : pc'[c] = pc[c]
  BY CashierMoves
<1>2. ringSeq' = ringSeq /\ outside' = outside /\ carrying' = carrying
  BY <1>1, RingFrame DEF outside, carrying
<1>3. busy' = busy
  <2>1. \A b \in Cashiers : Chosen(b)' <=> Chosen(b)
    BY <1>1 DEF Chosen
  <2> QED BY <1>1, <2>1 DEF busy
<1> QED BY <1>2, <1>3, ShopStutters DEF shopOpen

LEMMA CashierImplements ==
    ASSUME TypeOK, QueueInv, RackInv, NEW a \in Cashiers, cashier(a)
    PROVE  [Shop!Next]_(Shop!vars)
<1> USE DEF control, data, counters
<1>1. CASE CashierLockQueue(a)
  BY <1>1, CashierUnseen DEF CashierLockQueue, Acquire, Ordered, Carrying
<1>2. CASE CashierEnqueue(a)
  BY <1>2, EnqueueIsReady DEF Shop!Next
<1>3. CASE CashierUnlockQueue(a)
  BY <1>3, CashierUnseen DEF CashierUnlockQueue, Release, Ordered, Carrying
<1>4. CASE CashierSleep(a)
  <2>1. /\ Step(a, "sleep", "lockCA") /\ cashierAvailable[a] > 0
        /\ cashierAvailable' = [cashierAvailable EXCEPT ![a] = @ - 1]
        /\ UNCHANGED <<managerPc, ring, serverID, rack, customersServed>>
    BY <1>4 DEF CashierSleep
  <2>2. /\ pc[a] = "sleep" /\ pc'[a] = "lockCA"
        /\ \A b \in Cashiers : b # a => pc'[b] = pc[b]
        /\ \A c \in Customers : pc'[c] = pc[c]
    BY <2>1, CashierMoves
  <2>3. ringSeq' = ringSeq /\ outside' = outside /\ carrying' = carrying
    BY <2>1, <2>2, RingFrame DEF outside, carrying, Carrying
  <2>4. busy' = busy
    <3>1. \A b \in Cashiers : Chosen(b)' <=> Chosen(b)
      BY <2>1, <2>2 DEF Chosen
    <3> QED BY <2>1, <2>2, <3>1 DEF busy, Ordered, TypeOK
  <2> QED BY <2>1, <2>3, <2>4, ShopStutters DEF shopOpen
<1>5. CASE CashierLockCA(a)
  BY <1>5, CashierUnseen DEF CashierLockCA, Acquire, Ordered, Carrying
<1>6. CASE CashierLockRack(a)
  <2>1. PICK to \in {"unlockEmpty", "take"} :
           /\ Step(a, "lockRack", to)
           /\ UNCHANGED <<managerPc, cashierAvailable, ring, serverID, rack,
                          customersServed>>
    BY <1>6 DEF CashierLockRack, Acquire
  <2> QED BY <2>1, CashierUnseen DEF Ordered, Carrying
<1>7. CASE CashierUnlockEmpty(a)
  BY <1>7, CashierUnseen DEF CashierUnlockEmpty, Ordered, Carrying
<1>8. CASE CashierWaitBurger(a)
  BY <1>8, CashierUnseen DEF CashierWaitBurger, Await, Ordered, Carrying
<1>9. CASE CashierRelockRack(a)
  BY <1>9, CashierUnseen DEF CashierRelockRack, Acquire, Ordered, Carrying
<1>10. CASE CashierTake(a)
  BY <1>10, TakeIsTake DEF Shop!Next
<1>11. CASE CashierUnlockRack(a)
  BY <1>11, CashierUnseen DEF CashierUnlockRack, Release, Ordered, Carrying
<1>12. CASE CashierUnlockCA(a)
  BY <1>12, CashierUnseen DEF CashierUnlockCA, Release, Ordered, Carrying
<1>13. CASE CashierLockCnt(a)
  BY <1>13, CashierUnseen DEF CashierLockCnt, Acquire, Ordered, Carrying
<1>14. CASE CashierCount(a)
  BY <1>14, CountIsServe DEF Shop!Next
<1>15. CASE CashierUnlockCnt(a)
  BY <1>15, CashierUnseen DEF CashierUnlockCnt, Release, Ordered, Carrying
<1> QED BY <1>1, <1>2, <1>3, <1>4, <1>5, <1>6, <1>7, <1>8, <1>9, <1>10,
           <1>11, <1>12, <1>13, <1>14, <1>15 DEF cashier

-----------------------------------------------------------------------------
(* A customer.                                                             *)

\* The customer that takes a cashier off the ring orders from it.
LEMMA DequeueIsOrder ==
    ASSUME TypeOK, QueueInv, NEW c \in Customers, CustomerDequeue(c)
    PROVE  Shop!Order(c)
<1> DEFINE b == dequeued(ring)
           n == queueSize(ring)
<1>1. /\ Step(c, "dequeue", "unlockQueue")
      /\ serverID' = [serverID EXCEPT ![c] = b]
      /\ ring' = dequeueRest(ring)
      /\ UNCHANGED <<managerPc, cashierAvailable, rack, customersServed>>
  BY DEF CustomerDequeue, control, counters
<1>2. /\ pc[c] = "dequeue" /\ pc'[c] = "unlockQueue"
      /\ \A d \in Customers : d # c => pc'[d] = pc[d]
      /\ \A a \in Cashiers : pc'[a] = pc[a]
  BY <1>1, CustomerMoves DEF Staff
<1>3. b \in Cashiers /\ n > 0 /\ n \in Nat /\ b = ringSeq[1]
  BY <1>2, HeadSleeps, RingIsTyped
<1>4. ringSeq' = [i \in 1..(n - 1) |-> ringSeq[i + 1]]
  BY <1>1, <1>3, LeaveRing
<1>5. ringSeq \in Seq(Cashiers) /\ Len(ringSeq) = n
  BY RingIsSeq
<1> HIDE DEF b, n
<1>6. ringSeq # <<>> /\ Head(ringSeq) = b /\ ringSeq' = Tail(ringSeq)
  <2>1. ringSeq # <<>>
    BY <1>3, <1>5
  <2>2. Head(ringSeq) = b
    BY <1>3, <1>5, <2>1
  <2>3. /\ Tail(ringSeq) \in Seq(Cashiers) /\ Len(Tail(ringSeq)) = n - 1
        /\ \A i \in 1..(n - 1) : Tail(ringSeq)[i] = ringSeq[i + 1]
    BY <1>5, <2>1, HeadTailProperties
  <2>4. Tail(ringSeq) \in [1..(n - 1) -> Cashiers]
    BY <2>3, LenProperties
  <2> QED BY <1>4, <2>1, <2>2, <2>3, <2>4
<1>7. shopOpen = TRUE /\ shopOpen' = shopOpen
  BY <1>1, <1>2, StillOpen DEF Placed, shopOpen
<1>8. c \in outside /\ outside' = outside \ {c}
  BY <1>2 DEF outside, Placed
<1>9. carrying' = carrying
  BY <1>2 DEF carrying
<1>10. busy' = busy \cup {b}
  <2>1. /\ serverID'[c] = b
        /\ \A d \in Customers : d # c => serverID'[d] = serverID[d]
    BY <1>1 DEF TypeOK
  <2>2. \A a \in Cashiers : Chosen(a)' <=> Chosen(a) \/ a = b
    BY <1>2, <2>1 DEF Chosen
  <2> QED BY <1>1, <1>2, <1>3, <2>2 DEF busy
<1> QED BY <1>1, <1>6, <1>7, <1>8, <1>9, <1>10 DEF Shop!Order, shopOpen

\* Its other steps are invisible.
LEMMA CustomerUnseen ==
    ASSUME TypeOK, QueueInv, NEW c \in Customers, NEW from, NEW to,
           Step(c, from, to), from \in Placed <=> to \in Placed,
           from \in {"unlockQueue", "post"} <=> to \in {"unlockQueue", "post"},
           UNCHANGED <<managerPc, cashierAvailable, ring, serverID, rack,
                       customersServed>>
    PROVE  [Shop!Next]_(Shop!vars)
<1>1. /\ pc[c] = from /\ pc'[c] = to
      /\ \A d \in Customers : d # c => pc'[d] = pc[d]
      /\ \A a \in Cashiers : pc'[a] = pc[a]
  BY CustomerMoves DEF Staff
<1>2. ringSeq' = ringSeq /\ outside' = outside /\ carrying' = carrying
  BY <1>1, RingFrame DEF outside, carrying
<1>3. busy' = busy
  <2>1. \A a \in Cashiers : Chosen(a)' <=> Chosen(a)
    BY <1>1 DEF Chosen
  <2> QED BY <1>1, <2>1 DEF busy
<1> QED BY <1>2, <1>3, ShopStutters DEF shopOpen

LEMMA CustomerImplements ==
    ASSUME TypeOK, QueueInv, NEW c \in Customers, customer(c)
    PROVE  [Shop!Next]_(Shop!vars)
<1> USE DEF control, data, counters
<1>1. CASE CustomerLockCM(c)
  BY <1>1, CustomerUnseen DEF CustomerLockCM, Acquire, Placed
<1>2. CASE CustomerLockQueue(c)
  <2>1. PICK to \in {"unlockEmpty", "dequeue"} :
           /\ Step(c, "lockQueue", to)
           /\ UNCHANGED <<managerPc, cashierAvailable, ring, serverID, rack,
                          customersServed>>
    BY <1>2 DEF CustomerLockQueue, Acquire
  <2> QED BY <2>1, CustomerUnseen DEF Placed
<1>3. CASE CustomerUnlockEmpty(c)
  BY <1>3, CustomerUnseen DEF CustomerUnlockEmpty, Placed
<1>4. CASE CustomerWaitCashier(c)
  BY <1>4, CustomerUnseen DEF CustomerWaitCashier, Await, Placed
<1>5. CASE CustomerRelockQueue(c)
  BY <1>5, CustomerUnseen DEF CustomerRelockQueue, Acquire, Placed
<1>6. CASE CustomerDequeue(c)
  BY <1>6, DequeueIsOrder DEF Shop!Next
<1>7. CASE CustomerUnlockQueue(c)
  BY <1>7, CustomerUnseen DEF CustomerUnlockQueue, Release, Placed
<1>8. CASE CustomerPost(c)
  <2> DEFINE b == serverID[c]
  <2>1. /\ Step(c, "post", "unlockCM") /\ b \in Cashiers
        /\ cashierAvailable' = [cashierAvailable EXCEPT ![b] = @ + 1]
        /\ UNCHANGED <<managerPc, ring, serverID, rack, customersServed>>
    BY <1>8 DEF CustomerPost
  <2>2. /\ pc[c] = "post" /\ pc'[c] = "unlockCM"
        /\ \A d \in Customers : d # c => pc'[d] = pc[d]
        /\ \A a \in Cashiers : pc'[a] = pc[a]
    BY <2>1, CustomerMoves DEF Staff
  <2>3. ringSeq' = ringSeq /\ outside' = outside /\ carrying' = carrying
    BY <2>1, <2>2, RingFrame DEF outside, carrying, Placed
  <2>4. busy' = busy
    <3>1. Chosen(b) /\ b \in busy
      BY <2>1, <2>2 DEF Chosen, busy
    <3>2. \A a \in Cashiers : a # b => (Chosen(a)' <=> Chosen(a))
      BY <2>1, <2>2 DEF Chosen
    <3>3. /\ cashierAvailable'[b] > 0
          /\ \A a \in Cashiers : a # b =>
                cashierAvailable'[a] = cashierAvailable[a]
      BY <2>1 DEF TypeOK
    <3> HIDE DEF b
    <3> QED BY <2>1, <2>2, <3>1, <3>2, <3>3 DEF busy
  <2> QED BY <2>1, <2>3, <2>4, ShopStutters DEF shopOpen
<1>9. CASE CustomerUnlockCM(c)
  BY <1>9, CustomerUnseen DEF CustomerUnlockCM, Release, Placed
<1> QED BY <1>1, <1>2, <1>3, <1>4, <1>5, <1>6, <1>7, <1>8, <1>9 DEF customer

-----------------------------------------------------------------------------
(* main(), the manager and the signal handler.                             *)

\* The manager that goes on to dismiss the staff closes the shop.
LEMMA WaitIsClose ==
    ASSUME TypeOK, QueueInv, ManagerWait
    PROVE  Shop!Close
<1>1. /\ managerPc = "waitFinish" /\ sem["finish"] > 0
      /\ managerPc' = "dismiss"
      /\ UNCHANGED <<pc, cashierAvailable, rack, ring, serverID,
                     customersServed>>
  BY DEF ManagerWait, data, counters
<1>2. customersServed = Cardinality(Customers)
  BY <1>1 DEF QueueInv, ClosingOrder
<1>3. outside = {} /\ busy = {} /\ carrying = {}
  BY <1>2, NoOrdersLeft DEF outside, busy, carrying
<1>4. ringSeq' = ringSeq
  BY <1>1, RingFrame
<1>5. outside' = outside /\ busy' = busy /\ carrying' = carrying
  BY <1>1 DEF outside, busy, carrying, Chosen
<1>6. shopOpen = TRUE /\ shopOpen' = FALSE
  BY <1>1 DEF shopOpen
<1>7. UNCHANGED <<rack, ringSeq, outside, busy, carrying, customersServed>>
  BY <1>1, <1>4, <1>5
<1>8. Shop!Cardinality(Customers) = Cardinality(Customers)
  BY DEF Shop!Cardinality, Cardinality
<1> QED BY <1>2, <1>3, <1>6, <1>7, <1>8 DEF Shop!Close, shopOpen

\* A signalled thread ends, or all of them do, after the shop has closed.
LEMMA EndUnseen ==
    ASSUME TypeOK, QueueInv, customersServed = Cardinality(Customers),
           \A t \in Threads : pc'[t] = pc[t] \/ pc'[t] = "exited",
           UNCHANGED <<managerPc, cashierAvailable, ring, serverID, rack,
                       customersServed>>
    PROVE  [Shop!Next]_(Shop!vars)
<1>1. /\ \A c \in Customers : pc[c] \in Placed
      /\ \A a \in Cashiers : /\ pc[a] \notin Ordered \cup Carrying
                             /\ cashierAvailable[a] = 0
                             /\ ~Chosen(a)
  BY NoOrdersLeft
<1>2. /\ \A c \in Customers : pc'[c] \in Placed
      /\ \A a \in Cashiers : pc'[a] \notin Ordered \cup Carrying
  BY <1>1 DEF Threads, Staff, Placed, Ordered, Carrying
<1>3. \A a \in Cashiers : ~Chosen(a)'
  BY <1>2 DEF Chosen, Placed
<1>4. outside' = outside /\ carrying' = carrying
  BY <1>1, <1>2 DEF outside, carrying
<1>5. busy' = busy
  BY <1>1, <1>2, <1>3 DEF busy
<1> QED BY <1>4, <1>5, RingFrame, ShopStutters DEF shopOpen

\* main() and the manager move, the threads stay where they are.
LEMMA ManagementUnseen ==
    ASSUME shopOpen' = shopOpen,
           UNCHANGED <<pc, cashierAvailable, ring, serverID, rack,
                       customersServed>>
    PROVE  [Shop!Next]_(Shop!vars)
<1>1. outside' = outside /\ carrying' = carrying /\ busy' = busy
  BY DEF outside, carrying, busy, Chosen
<1> QED BY <1>1, RingFrame, ShopStutters

LEMMA HandlerImplements ==
    ASSUME TypeOK, QueueInv, NEW t \in Staff, thread_exit_handler(t)
    PROVE  [Shop!Next]_(Shop!vars)
<1>1. customersServed = Cardinality(Customers)
  BY DEF thread_exit_handler, QueueInv, ClosingOrder
<1>2. \A u \in Threads : pc'[u] = pc[u] \/ pc'[u] = "exited"
  BY DEF thread_exit_handler, TypeOK
<1> QED BY <1>1, <1>2, EndUnseen
        DEF thread_exit_handler, control, data, counters

LEMMA ManagerImplements ==
    ASSUME TypeOK, QueueInv, manager
    PROVE  [Shop!Next]_(Shop!vars)
<1>1. CASE ManagerWait
  BY <1>1, WaitIsClose DEF Shop!Next
<1>2. ASSUME NEW t \in Staff, ManagerKill(t) PROVE [Shop!Next]_(Shop!vars)
  BY <1>2, ManagementUnseen DEF ManagerKill, data, counters, shopOpen
<1>3. CASE ManagerExit
  BY <1>3, ManagementUnseen DEF ManagerExit, data, counters, shopOpen
<1> QED BY <1>1, <1>2, <1>3 DEF manager

LEMMA MainImplements ==
    ASSUME TypeOK, QueueInv, main
    PROVE  [Shop!Next]_(Shop!vars)
<1> USE DEF data, counters
<1>1. ASSUME NEW t \in Threads, MainCreate(t) PROVE [Shop!Next]_(Shop!vars)
  <2>1. UNCHANGED <<managerPc, cashierAvailable, ring, serverID, rack,
                    customersServed>>
    BY <1>1 DEF MainCreate, control
  <2>2. CASE t \in Cashiers
    <3>1. Step(t, "unborn", "lockQueue")
      BY <1>1, <2>2, ParametersOK DEF MainCreate
    <3> QED BY <2>1, <2>2, <3>1, CashierUnseen DEF Ordered, Carrying
  <2>3. CASE t \in Customers
    <3>1. Step(t, "unborn", "lockCM")
      BY <1>1, <2>3, ParametersOK DEF MainCreate
    <3> QED BY <2>1, <2>3, <3>1, CustomerUnseen DEF Placed
  <2>4. CASE t \in Cooks
    <3>1. \A u \in Cashiers \cup Customers : pc'[u] = pc[u]
      BY <1>1, <2>4, ParametersOK DEF MainCreate, Step, TypeOK
    <3>2. outside' = outside /\ carrying' = carrying
      BY <3>1 DEF outside, carrying
    <3>3. busy' = busy
      <4>1. \A a \in Cashiers : Chosen(a)' <=> Chosen(a)
        BY <2>1, <3>1 DEF Chosen
      <4> QED BY <2>1, <3>1, <4>1 DEF busy
    <3> QED BY <2>1, <3>2, <3>3, RingFrame, ShopStutters DEF shopOpen
  <2> QED BY <2>2, <2>3, <2>4 DEF Threads, Staff
<1>2. CASE MainCreateManager
  <2>1. shopOpen' = shopOpen
    BY <1>2 DEF MainCreateManager, shopOpen, QueueInv, ClosingOrder
  <2> QED BY <1>2, <2>1, ManagementUnseen DEF MainCreateManager
<1>3. CASE MainJoin
  BY <1>3, ManagementUnseen DEF MainJoin, shopOpen
<1>4. CASE MainExit
  <2>1. customersServed = Cardinality(Customers)
    BY <1>4 DEF MainExit, QueueInv, ClosingOrder
  <2> QED BY <1>4, <2>1, EndUnseen DEF MainExit
<1> QED BY <1>1, <1>2, <1>3, <1>4 DEF main

-----------------------------------------------------------------------------

\* Whatever the threads of cook(), cashier() and customer() do, in any number
\* and in any order, the shop keeps the rules of its README: a customer orders
\* from the cashier at the head of the line, a cashier takes a burger only for
\* an order and from a rack that has one, and the shop closes when the last
\* customer has been served and not before.
THEOREM ProgramIsTheShop == Spec => ImplementsShop
<1>1. TypeOK /\ QueueInv /\ RackInv /\ [Next]_vars => [Shop!Next]_(Shop!vars)
  <2> SUFFICES ASSUME TypeOK, QueueInv, RackInv, [Next]_vars
               PROVE  [Shop!Next]_(Shop!vars)
    OBVIOUS
  <2>1. CASE UNCHANGED vars
    BY <2>1, ManagementUnseen DEF vars, shopOpen
  <2> QED BY <2>1, CookImplements, CashierImplements, CustomerImplements,
             HandlerImplements, ManagerImplements, MainImplements
          DEF Next, Terminated
<1> QED BY <1>1, ShopStart, TypeCorrect, QueueProtocol, RackProtocol, PTL
        DEF Spec, ImplementsShop, Shop!Spec

=============================================================================
