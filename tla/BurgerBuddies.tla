--------------------------- MODULE BurgerBuddies ---------------------------
(***************************************************************************)
(* The Burger Buddies program, Project 1/BBC/jni/BurgerBuddies.c.          *)
(*                                                                         *)
(* Every thread of the program is a process with a program counter.  A     *)
(* step is one call that blocks or that another thread can see (a mutex, a *)
(* semaphore, a signal) with the straight-line code next to it; all the    *)
(* data such code touches is protected by the mutex the thread then holds. *)
(* Printing and sleeping change no state and are left out.                 *)
(*                                                                         *)
(* The threads of one pthread_t array are interchangeable, so the arrays   *)
(* Cooks, Cashiers and Customers are sets, and a loop over an array visits *)
(* its members in any order.                                               *)
(***************************************************************************)
EXTENDS Integers, FiniteSets

CONSTANTS
    Cooks,      \* the cook threads (argv[1] of them)
    Cashiers,   \* the cashier threads (argv[2])
    Customers,  \* the customer threads (argv[3])
    racksize,   \* the capacity of the rack (argv[4])
    MaxRack,    \* bound: no cook starts a burger when the rack holds this many
    NoThread    \* the owner of a free mutex, and dequeue's 0 ("no cashier")

ASSUME ParametersOK ==
    /\ IsFiniteSet(Cooks) /\ Cooks # {}
    /\ IsFiniteSet(Cashiers) /\ Cashiers # {}
    /\ IsFiniteSet(Customers) /\ Customers # {}
    /\ Cooks \cap Cashiers = {}
    /\ Cooks \cap Customers = {}
    /\ Cashiers \cap Customers = {}
    /\ NoThread \notin Cooks \cup Cashiers \cup Customers
    /\ racksize \in Nat \ {0}
    /\ MaxRack \in Nat /\ MaxRack > racksize

Staff   == Cooks \cup Cashiers
Threads == Staff \cup Customers

Mutexes    == {"cntMutex", "checkRack", "queueMutex", "CK", "CA", "CM"}
Semaphores == {"finish", "rackFull", "rackEmpty", "cashiersAllBusy"}

VARIABLES
    pc,                \* where each thread of the three arrays is
    mainPc, managerPc, \* where main() and the manager thread are
    signalled,         \* the threads pthread_kill has been called for
    owner,             \* the thread that holds each mutex
    sem,               \* the value of each semaphore
    cashierAvailable,  \* the semaphore each cashier sleeps on
    rack,              \* burgers on the rack
    waitForBurger,     \* cashiers that asked to be told of a burger
    waitForCashier,    \* customers that asked to be told of a cashier
    ring,              \* the ring of available cashiers: sleepingQueue, head
                       \* and tail
    serverID,          \* each customer's local variable serverID
    customersServed

control  == <<mainPc, managerPc, signalled>>
counters == <<rack, waitForBurger, waitForCashier, customersServed>>
data     == <<counters, ring, serverID>>
vars     == <<pc, mainPc, managerPc, signalled, owner, sem, cashierAvailable,
              rack, waitForBurger, waitForCashier, ring, serverID,
              customersServed>>

-----------------------------------------------------------------------------
(* The calls of libpthread the program makes, each with the step of the    *)
(* calling thread t from one program point to the next.                    *)

Step(t, from, to) == pc[t] = from /\ pc' = [pc EXCEPT ![t] = to]

\* pthread_mutex_lock: blocks until the mutex is free.
Acquire(t, m, from, to) ==
    /\ Step(t, from, to)
    /\ owner[m] = NoThread
    /\ owner' = [owner EXCEPT ![m] = t]
    /\ UNCHANGED <<control, sem, cashierAvailable, data>>

\* pthread_mutex_unlock; what else the step does is left to the caller.
Unlock(m) == owner' = [owner EXCEPT ![m] = NoThread]

Release(t, m, from, to) ==
    /\ Step(t, from, to)
    /\ Unlock(m)
    /\ UNCHANGED <<control, sem, cashierAvailable, data>>

\* sem_wait: blocks until the value is positive.
Await(t, s, from, to) ==
    /\ Step(t, from, to)
    /\ sem[s] > 0
    /\ sem' = [sem EXCEPT ![s] = @ - 1]
    /\ UNCHANGED <<control, owner, cashierAvailable, data>>

SemPost(s) == sem' = [sem EXCEPT ![s] = @ + 1]

-----------------------------------------------------------------------------
(* The ring of sleeping cashiers: one slot more than there are cashiers.   *)

\* Mutant: no spare slot.
SlotsTight == Cardinality(Cashiers)
Slots == Cardinality(Cashiers) + 1

queueSize(q) == (q.tail + 1 - q.head + Slots) % Slots

enqueue(q, id) ==
    LET tail == (q.tail + 1) % Slots IN
    [sleepingQueue |-> [q.sleepingQueue EXCEPT ![tail] = id],
     head |-> q.head, tail |-> tail]

\* dequeue() in two parts: what it returns, and what it leaves.
dequeueEmpty(q) == q.head = (q.tail + 1) % Slots
dequeued(q) == IF dequeueEmpty(q) THEN NoThread ELSE q.sleepingQueue[q.head]
\* Mutant: head is not wrapped.
dequeueRestNoWrap(q) ==
    IF dequeueEmpty(q) THEN q ELSE [q EXCEPT !.head = @ + 1]
dequeueRest(q) ==
    IF dequeueEmpty(q) THEN q ELSE [q EXCEPT !.head = (@ + 1) % Slots]

-----------------------------------------------------------------------------
(* A cook: the loop of cook().                                             *)

\* The guard on MaxRack is the model's bound, not the program's: nothing in
\* the program keeps a cook from starting another burger.
CookLockCK(k) == rack < MaxRack /\ Acquire(k, "CK", "lockCK", "lockRack")

CookLockRack(k) ==
    Acquire(k, "checkRack", "lockRack",
            IF rack = racksize THEN "unlockFull" ELSE "put")

CookUnlockFull(k) == Release(k, "checkRack", "unlockFull", "waitFull")

CookWaitFull(k) == Await(k, "rackFull", "waitFull", "relockRack")

CookRelockRack(k) == Acquire(k, "checkRack", "relockRack", "put")

\* Mutants: the rack is looked at before the burger is on it; a burger is
\* announced whether or not anybody asked; the burger is not put there at all.
CookPutLate(k) ==
    /\ Step(k, "put", "unlockRack")
    /\ rack' = rack + 1
    /\ IF rack = 1 /\ waitForBurger # 0
       THEN waitForBurger' = waitForBurger - 1 /\ SemPost("rackEmpty")
       ELSE UNCHANGED <<waitForBurger, sem>>
    /\ UNCHANGED <<control, owner, cashierAvailable, waitForCashier, ring,
                   serverID, customersServed>>
CookPutEager(k) ==
    /\ Step(k, "put", "unlockRack")
    /\ rack' = rack + 1
    /\ IF rack' = 1
       THEN SemPost("rackEmpty") /\ waitForBurger' = 0
       ELSE UNCHANGED <<waitForBurger, sem>>
    /\ UNCHANGED <<control, owner, cashierAvailable, waitForCashier, ring,
                   serverID, customersServed>>
CookPutNothing(k) ==
    /\ Step(k, "put", "unlockRack")
    /\ UNCHANGED <<control, owner, sem, cashierAvailable, data>>

\* The burger goes on the rack, and a cashier waiting for one is told.
CookPut(k) ==
    /\ Step(k, "put", "unlockRack")
    /\ rack' = rack + 1
    /\ IF rack' = 1 /\ waitForBurger # 0
       THEN waitForBurger' = waitForBurger - 1 /\ SemPost("rackEmpty")
       ELSE UNCHANGED <<waitForBurger, sem>>
    /\ UNCHANGED <<control, owner, cashierAvailable, waitForCashier, ring,
                   serverID, customersServed>>

CookUnlockRack(k) == Release(k, "checkRack", "unlockRack", "unlockCK")

CookUnlockCK(k) == Release(k, "CK", "unlockCK", "lockCK")

cook(k) ==
    \/ CookLockCK(k) \/ CookLockRack(k) \/ CookUnlockFull(k)
    \/ CookWaitFull(k) \/ CookRelockRack(k) \/ CookPut(k)
    \/ CookUnlockRack(k) \/ CookUnlockCK(k)

-----------------------------------------------------------------------------
(* A cashier: the loop of cashier().                                       *)

CashierLockQueue(a) == Acquire(a, "queueMutex", "lockQueue", "enqueue")

\* Mutants: nobody is told; somebody is told whether or not anybody asked.
CashierEnqueueSilent(a) ==
    /\ Step(a, "enqueue", "unlockQueue")
    /\ ring' = enqueue(ring, a)
    /\ UNCHANGED <<control, owner, sem, cashierAvailable, counters, serverID>>
CashierEnqueueEager(a) ==
    /\ Step(a, "enqueue", "unlockQueue")
    /\ ring' = enqueue(ring, a)
    /\ IF queueSize(ring') = 1 THEN SemPost("cashiersAllBusy") ELSE UNCHANGED sem
    /\ UNCHANGED <<control, owner, cashierAvailable, counters, serverID>>

\* Join the ring; the cashier that finds itself alone there tells a customer
\* that is waiting for one.
CashierEnqueue(a) ==
    /\ Step(a, "enqueue", "unlockQueue")
    /\ ring' = enqueue(ring, a)
    /\ IF queueSize(ring') = 1 /\ waitForCashier # 0
       THEN waitForCashier' = waitForCashier - 1 /\ SemPost("cashiersAllBusy")
       ELSE UNCHANGED <<waitForCashier, sem>>
    /\ UNCHANGED <<control, owner, cashierAvailable, rack, waitForBurger,
                   serverID, customersServed>>

CashierUnlockQueue(a) == Release(a, "queueMutex", "unlockQueue", "sleep")

\* Mutant: the cashier looks at its semaphore and does not take from it.
CashierSleepPeek(a) ==
    /\ Step(a, "sleep", "lockCA")
    /\ cashierAvailable[a] > 0
    /\ UNCHANGED <<control, owner, sem, cashierAvailable, data>>

CashierSleep(a) ==
    /\ Step(a, "sleep", "lockCA")
    /\ cashierAvailable[a] > 0
    /\ cashierAvailable' = [cashierAvailable EXCEPT ![a] = @ - 1]
    /\ UNCHANGED <<control, owner, sem, data>>

CashierLockCA(a) == Acquire(a, "CA", "lockCA", "lockRack")

CashierLockRack(a) ==
    Acquire(a, "checkRack", "lockRack",
            IF rack = 0 THEN "unlockEmpty" ELSE "take")

\* Ask to be told of a burger before letting the cooks at the rack.
CashierUnlockEmpty(a) ==
    /\ Step(a, "unlockEmpty", "waitBurger")
    /\ waitForBurger' = waitForBurger + 1
    /\ Unlock("checkRack")
    /\ UNCHANGED <<control, sem, cashierAvailable, rack, waitForCashier, ring,
                   serverID, customersServed>>

CashierWaitBurger(a) == Await(a, "rackEmpty", "waitBurger", "relockRack")

CashierRelockRack(a) == Acquire(a, "checkRack", "relockRack", "take")

\* The post does not ask whether a cook is waiting.
CashierTake(a) ==
    /\ Step(a, "take", "unlockRack")
    /\ rack' = rack - 1
    /\ IF rack' + 1 = racksize THEN SemPost("rackFull") ELSE UNCHANGED sem
    /\ UNCHANGED <<control, owner, cashierAvailable, waitForBurger,
                   waitForCashier, ring, serverID, customersServed>>

CashierUnlockRack(a) == Release(a, "checkRack", "unlockRack", "unlockCA")

CashierUnlockCA(a) == Release(a, "CA", "unlockCA", "lockCnt")

CashierLockCnt(a) == Acquire(a, "cntMutex", "lockCnt", "count")

\* Mutant: the manager is woken one customer early.
CashierCountEarly(a) ==
    /\ Step(a, "count", "unlockCnt")
    /\ customersServed' = customersServed + 1
    /\ IF customersServed' + 1 = Cardinality(Customers)
       THEN SemPost("finish")
       ELSE UNCHANGED sem
    /\ UNCHANGED <<control, owner, cashierAvailable, rack, waitForBurger,
                   waitForCashier, ring, serverID>>

\* The cashier that serves the last customer wakes the manager.
CashierCount(a) ==
    /\ Step(a, "count", "unlockCnt")
    /\ customersServed' = customersServed + 1
    /\ IF customersServed' = Cardinality(Customers)
       THEN SemPost("finish")
       ELSE UNCHANGED sem
    /\ UNCHANGED <<control, owner, cashierAvailable, rack, waitForBurger,
                   waitForCashier, ring, serverID>>

CashierUnlockCnt(a) == Release(a, "cntMutex", "unlockCnt", "lockQueue")

cashier(a) ==
    \/ CashierLockQueue(a) \/ CashierEnqueue(a) \/ CashierUnlockQueue(a)
    \/ CashierSleep(a) \/ CashierLockCA(a) \/ CashierLockRack(a)
    \/ CashierUnlockEmpty(a) \/ CashierWaitBurger(a) \/ CashierRelockRack(a)
    \/ CashierTake(a) \/ CashierUnlockRack(a) \/ CashierUnlockCA(a)
    \/ CashierLockCnt(a) \/ CashierCount(a) \/ CashierUnlockCnt(a)

-----------------------------------------------------------------------------
(* A customer: customer(), which runs once.                                *)

CustomerLockCM(c) == Acquire(c, "CM", "lockCM", "lockQueue")

CustomerLockQueue(c) ==
    Acquire(c, "queueMutex", "lockQueue",
            IF queueSize(ring) = 0 THEN "unlockEmpty" ELSE "dequeue")

\* Ask to be told of a cashier before letting the cashiers at the ring.
CustomerUnlockEmpty(c) ==
    /\ Step(c, "unlockEmpty", "waitCashier")
    /\ waitForCashier' = waitForCashier + 1
    /\ Unlock("queueMutex")
    /\ UNCHANGED <<control, sem, cashierAvailable, rack, waitForBurger, ring,
                   serverID, customersServed>>

CustomerWaitCashier(c) ==
    Await(c, "cashiersAllBusy", "waitCashier", "relockQueue")

CustomerRelockQueue(c) == Acquire(c, "queueMutex", "relockQueue", "dequeue")

\* Mutant: the ring is used as a stack.
CustomerDequeueNewest(c) ==
    /\ Step(c, "dequeue", "unlockQueue")
    /\ serverID' = [serverID EXCEPT ![c] = ring.sleepingQueue[ring.tail]]
    /\ ring' = [ring EXCEPT !.tail = (@ + Slots - 1) % Slots]
    /\ UNCHANGED <<control, owner, sem, cashierAvailable, counters>>

CustomerDequeue(c) ==
    /\ Step(c, "dequeue", "unlockQueue")
    /\ serverID' = [serverID EXCEPT ![c] = dequeued(ring)]
    /\ ring' = dequeueRest(ring)
    /\ UNCHANGED <<control, owner, sem, cashierAvailable, counters>>

CustomerUnlockQueue(c) == Release(c, "queueMutex", "unlockQueue", "post")

\* Wake the cashier.  A serverID of 0 would post to cashierAvailable[-1],
\* memory the program does not own: the model has no step for it, and
\* CashierIsReady says that it is never needed.
CustomerPost(c) ==
    /\ serverID[c] \in Cashiers
    /\ Step(c, "post", "unlockCM")
    /\ cashierAvailable' = [cashierAvailable EXCEPT ![serverID[c]] = @ + 1]
    /\ UNCHANGED <<control, owner, sem, data>>

CustomerUnlockCM(c) == Release(c, "CM", "unlockCM", "exited")

customer(c) ==
    \/ CustomerLockCM(c) \/ CustomerLockQueue(c) \/ CustomerUnlockEmpty(c)
    \/ CustomerWaitCashier(c) \/ CustomerRelockQueue(c) \/ CustomerDequeue(c)
    \/ CustomerUnlockQueue(c) \/ CustomerPost(c) \/ CustomerUnlockCM(c)

-----------------------------------------------------------------------------
(* The manager, main() and the signal handler.                             *)

\* main creates the cooks, then the cashiers, then the customers ...
MainCreate(t) ==
    /\ mainPc = "create"
    /\ t \in Cashiers => \A k \in Cooks : pc[k] # "unborn"
    /\ t \in Customers => \A s \in Staff : pc[s] # "unborn"
    /\ Step(t, "unborn", CASE t \in Cooks     -> "lockCK"
                           [] t \in Cashiers  -> "lockQueue"
                           [] t \in Customers -> "lockCM")
    /\ UNCHANGED <<control, owner, sem, cashierAvailable, data>>

\* ... and the manager last, which it joins.
MainCreateManager ==
    /\ mainPc = "create"
    /\ \A t \in Threads : pc[t] # "unborn"
    /\ mainPc' = "join" /\ managerPc' = "waitFinish"
    /\ UNCHANGED <<pc, signalled, owner, sem, cashierAvailable, data>>

MainJoin ==
    /\ mainPc = "join" /\ managerPc = "exited"
    /\ mainPc' = "release"
    /\ UNCHANGED <<pc, managerPc, signalled, owner, sem, cashierAvailable,
                   data>>

\* The arrays are freed and the semaphores and mutexes destroyed; then main
\* returns, which ends the process and with it every thread still there.
MainExit ==
    /\ mainPc = "release"
    /\ mainPc' = "exited"
    /\ pc' = [t \in Threads |-> "exited"]
    /\ UNCHANGED <<managerPc, signalled, owner, sem, cashierAvailable, data>>

main == (\E t \in Threads : MainCreate(t)) \/ MainCreateManager \/ MainJoin
        \/ MainExit

ManagerWait ==
    /\ managerPc = "waitFinish"
    /\ sem["finish"] > 0
    /\ sem' = [sem EXCEPT !["finish"] = @ - 1]
    /\ managerPc' = "dismiss"
    /\ UNCHANGED <<pc, mainPc, signalled, owner, cashierAvailable, data>>

\* pthread_kill on the cooks, then on the cashiers.
ManagerKill(t) ==
    /\ managerPc = "dismiss"
    /\ t \notin signalled
    /\ t \in Cashiers => Cooks \subseteq signalled
    /\ signalled' = signalled \cup {t}
    /\ UNCHANGED <<pc, mainPc, managerPc, owner, sem, cashierAvailable, data>>

\* Mutant: the cashiers are forgotten.
ManagerExitEarly ==
    /\ managerPc = "dismiss"
    /\ Cooks \subseteq signalled
    /\ managerPc' = "exited"
    /\ UNCHANGED <<pc, mainPc, signalled, owner, sem, cashierAvailable, data>>

ManagerExit ==
    /\ managerPc = "dismiss"
    /\ Staff \subseteq signalled
    /\ managerPc' = "exited"
    /\ UNCHANGED <<pc, mainPc, signalled, owner, sem, cashierAvailable, data>>

manager == ManagerWait \/ (\E t \in Staff : ManagerKill(t)) \/ ManagerExit

\* SIGUSR1 reaches a thread some time after pthread_kill, wherever it is: the
\* handler calls pthread_exit, which frees no mutex the thread holds.
thread_exit_handler(t) ==
    /\ t \in signalled
    /\ pc[t] # "exited"
    /\ pc' = [pc EXCEPT ![t] = "exited"]
    /\ UNCHANGED <<control, owner, sem, cashierAvailable, data>>

Terminated == mainPc = "exited" /\ UNCHANGED vars

-----------------------------------------------------------------------------

Init ==
    /\ pc = [t \in Threads |-> "unborn"]
    /\ mainPc = "create" /\ managerPc = "unborn" /\ signalled = {}
    /\ owner = [m \in Mutexes |-> NoThread]
    /\ sem = [s \in Semaphores |-> 0]
    /\ cashierAvailable = [a \in Cashiers |-> 0]
    /\ rack = 0 /\ waitForBurger = 0 /\ waitForCashier = 0
    /\ ring = [sleepingQueue |-> [i \in 0..(Slots - 1) |-> NoThread],
               head |-> 0, tail |-> -1]
    /\ serverID = [c \in Customers |-> NoThread]
    /\ customersServed = 0

Next ==
    \/ \E k \in Cooks : cook(k)
    \/ \E a \in Cashiers : cashier(a)
    \/ \E c \in Customers : customer(c)
    \/ \E t \in Staff : thread_exit_handler(t)
    \/ manager
    \/ main
    \/ Terminated

Spec == Init /\ [][Next]_vars

\* The scheduler runs every thread.  checkRack alone is fought over for ever
\* (the cooks never stop); a cook sleeps a second after each burger, so a
\* cashier that waits for the rack finds it free again and again.
Fairness ==
    /\ WF_vars(main) /\ WF_vars(manager)
    /\ \A k \in Cooks : WF_vars(cook(k))
    /\ \A c \in Customers : WF_vars(customer(c))
    /\ \A a \in Cashiers :
          /\ WF_vars(cashier(a))
          /\ SF_vars(CashierLockRack(a) \/ CashierRelockRack(a))

FairSpec == Spec /\ Fairness

-----------------------------------------------------------------------------
CookPc == {"unborn", "lockCK", "lockRack", "unlockFull", "waitFull",
           "relockRack", "put", "unlockRack", "unlockCK", "exited"}

CashierPc == {"unborn", "lockQueue", "enqueue", "unlockQueue", "sleep",
              "lockCA", "lockRack", "unlockEmpty", "waitBurger", "relockRack",
              "take", "unlockRack", "unlockCA", "lockCnt", "count",
              "unlockCnt", "exited"}

CustomerPc == {"unborn", "lockCM", "lockQueue", "unlockEmpty", "waitCashier",
               "relockQueue", "dequeue", "unlockQueue", "post", "unlockCM",
               "exited"}

\* The type of the state.  The counters that the program decrements are
\* integers here: that they stay natural is for the invariants to say.
TypeOK ==
    /\ pc \in [Threads -> CookPc \cup CashierPc \cup CustomerPc]
    /\ \A k \in Cooks : pc[k] \in CookPc
    /\ \A a \in Cashiers : pc[a] \in CashierPc
    /\ \A c \in Customers : pc[c] \in CustomerPc
    /\ mainPc \in {"create", "join", "release", "exited"}
    /\ managerPc \in {"unborn", "waitFinish", "dismiss", "exited"}
    /\ signalled \in SUBSET Staff
    /\ owner \in [Mutexes -> Threads \cup {NoThread}]
    /\ sem \in [Semaphores -> Nat]
    /\ cashierAvailable \in [Cashiers -> Nat]
    /\ rack \in Int /\ waitForBurger \in Int /\ waitForCashier \in Int
    /\ ring \in [sleepingQueue : [0..(Slots - 1) -> Cashiers \cup {NoThread}],
                 head : 0..(Slots - 1), tail : -1..(Slots - 1)]
    /\ serverID \in [Customers -> Cashiers \cup {NoThread}]
    /\ customersServed \in Nat

-----------------------------------------------------------------------------
(* What the program promises.                                              *)

\* The cashiers on the ring, and the same as the queue it stands for.
ringSeq == [i \in 1..queueSize(ring) |->
                ring.sleepingQueue[(ring.head + i - 1) % Slots]]
onRing  == {ringSeq[i] : i \in 1..queueSize(ring)}

\* A customer that has chosen cashier a and has yet to wake it.
Chosen(a) == \E c \in Customers :
                pc[c] \in {"unlockQueue", "post"} /\ serverID[c] = a

\* A cashier that has joined the ring and that no customer has chosen since.
Idle(a) == /\ pc[a] \in {"unlockQueue", "sleep"}
           /\ cashierAvailable[a] = 0
           /\ ~Chosen(a)

\* Where a cashier is when it has an order and no burger, and when it carries
\* a burger to a customer that has not been counted yet.
Ordered   == {"lockCA", "lockRack", "unlockEmpty", "waitBurger", "relockRack",
              "take"}
Carrying  == {"unlockRack", "unlockCA", "lockCnt", "count"}

\* Where a customer is once it has woken its cashier.
Placed    == {"unlockCM", "exited"}

\* The customers that have placed their order, the cashiers such an order has
\* been posted to, and those that are at work on one.
ordering == {c \in Customers : pc[c] \in Placed}
woken    == {a \in Cashiers : cashierAvailable[a] = 1}
working  == {a \in Cashiers : pc[a] \in Ordered \cup Carrying}

\* cashier() takes a burger off the rack, whoever else was at the rack since
\* it looked: the rack never holds a negative number of burgers.
RackNotNegative == rack >= 0

\* A thread that sleeps at the rack while its semaphore is 0 sleeps for a
\* reason, and has asked to be woken: a cook only while the rack is full, a
\* cashier only while it is empty.  (A wake-up lost between the unlock and the
\* sem_wait of cook() or cashier() would break it.)
NoLostRackWakeup ==
    /\ \A k \in Cooks :
          pc[k] = "waitFull" /\ sem["rackFull"] = 0 => rack = racksize
    /\ \A a \in Cashiers :
          pc[a] = "waitBurger" /\ sem["rackEmpty"] = 0
             => rack = 0 /\ waitForBurger = 1

\* The same of a customer that sleeps until a cashier joins the ring.
NoLostQueueWakeup ==
    \A c \in Customers :
       pc[c] = "waitCashier" /\ sem["cashiersAllBusy"] = 0
          => queueSize(ring) = 0 /\ waitForCashier = 1

\* The ring holds each cashier at most once, it never overflows into its
\* spare slot, and the cashiers on it are exactly those that have joined it
\* and that no customer has chosen since: enqueue() and dequeue() lose and
\* duplicate nobody.  (A dismissed cashier stays on the ring.)
RingHoldsTheIdle ==
    /\ Cardinality(onRing) = queueSize(ring)
    /\ \A a \in Cashiers \ signalled : a \in onRing <=> Idle(a)

\* "A Customer cannot order until the cashier is ready": when customer()
\* calls dequeue() there is a cashier to take, and that cashier sleeps.
CashierIsReady ==
    \A c \in Customers :
       /\ pc[c] = "dequeue" =>
             dequeued(ring) \in {a \in Cashiers : pc[a] = "sleep"}
       /\ pc[c] = "post" => serverID[c] \in Cashiers

\* Every order is for one customer and every customer served had one order:
\* the customers that have placed an order are those served, plus one for each
\* cashier that is awake for a customer or about to wake.
OrdersAddUp ==
    mainPc # "exited" =>
    Cardinality(ordering) = customersServed + Cardinality(woken)
                            + Cardinality(working)

\* The manager dismisses the staff, and main() frees what it shares with the
\* threads, only when every customer has been served: then no cashier holds
\* an order, and no customer needs more than to unlock CM and leave.
ClosesWhenServed ==
    managerPc \in {"dismiss", "exited"} =>
       /\ customersServed = Cardinality(Customers)
       /\ \A a \in Cashiers : pc[a] \notin Ordered \cup Carrying
                              /\ cashierAvailable[a] = 0
       /\ \A c \in Customers : pc[c] \in Placed

\* When main() destroys the mutexes and frees the arrays, every cook and every
\* cashier has been dismissed.
ReleasedAfterDismissal ==
    mainPc = "release" =>
       \A t \in Threads : pc[t] = "exited" \/ t \in signalled
                          \/ (t \in Customers /\ pc[t] = "unlockCM")

\* "The cook will wait if the rack is full."
RackNeverOverfull == rack <= racksize

\* The shop closes: every customer is served and main() returns.
ShopCloses == <>(mainPc = "exited")

-----------------------------------------------------------------------------
(* The protocol around the rack, as an inductive invariant.  It does not   *)
(* need to know when threads are dismissed: a cashier killed inside CA     *)
(* keeps CA, so that no other cashier comes to the rack after it.          *)

AtRack == {"unlockFull", "put", "unlockEmpty", "take", "unlockRack"}
InCK   == CookPc \ {"unborn", "lockCK", "exited"}
InCA   == {"lockRack", "unlockEmpty", "waitBurger", "relockRack", "take",
           "unlockRack", "unlockCA"}

\* A thread inside a critical section holds the section's mutex.
RackMutexes ==
    /\ \A t \in Staff : pc[t] \in AtRack => owner["checkRack"] = t
    /\ \A k \in Cooks : pc[k] \in InCK => owner["CK"] = k
    /\ \A a \in Cashiers : pc[a] \in InCA => owner["CA"] = a

\* No request for a burger is open: nobody asked, nobody was told.
NoRequest == sem["rackEmpty"] = 0 /\ waitForBurger = 0

\* A request is open only while the cashier in CA waits for the burger; the
\* burger that answers it stays on the rack until that cashier takes it.
BurgerRequests ==
    /\ owner["CA"] = NoThread => NoRequest
    /\ \A a \in Cashiers :
          /\ pc[a] \in InCA \ {"waitBurger"} => NoRequest
          /\ pc[a] = "unlockEmpty" => rack = 0
          /\ pc[a] \in {"relockRack", "take"} => rack > 0
          /\ pc[a] = "waitBurger" =>
                \/ rack = 0 /\ sem["rackEmpty"] = 0 /\ waitForBurger = 1
                \/ rack > 0 /\ sem["rackEmpty"] = 1 /\ waitForBurger = 0

\* A cook waits only on a rack it found full, until a burger is taken.
FullRackWaits ==
    \A k \in Cooks :
       /\ pc[k] = "unlockFull" => rack = racksize
       /\ pc[k] = "waitFull" => rack = racksize \/ sem["rackFull"] > 0

RackInv == RackNotNegative /\ RackMutexes /\ BurgerRequests /\ FullRackWaits

-----------------------------------------------------------------------------
(* The protocol around the ring of cashiers, as an inductive invariant.    *)
(* This one does need to know when threads are dismissed: a customer that  *)
(* has chosen a cashier relies on it being there.                          *)

InCM == CustomerPc \ {"unborn", "lockCM", "exited"}

\* A thread at the ring holds queueMutex, a customer that orders holds CM.
QueueMutexes ==
    /\ \A a \in Cashiers :
          pc[a] \in {"enqueue", "unlockQueue"} => owner["queueMutex"] = a
    /\ \A c \in Customers :
          /\ pc[c] \in {"unlockEmpty", "dequeue", "unlockQueue"}
                => owner["queueMutex"] = c
          /\ pc[c] \in InCM => owner["CM"] = c

\* No request for a cashier is open: nobody asked, nobody was told.
NoneAsked == sem["cashiersAllBusy"] = 0 /\ waitForCashier = 0

\* A request is open only while the customer in CM waits for a cashier; the
\* cashier that answers it stays on the ring until that customer takes it.
CashierRequests ==
    /\ owner["CM"] = NoThread => NoneAsked
    /\ \A c \in Customers :
          /\ pc[c] \in InCM \ {"waitCashier"} => NoneAsked
          /\ pc[c] = "unlockEmpty" => queueSize(ring) = 0
          /\ pc[c] \in {"relockQueue", "dequeue"} => queueSize(ring) > 0
          /\ pc[c] = "waitCashier" =>
                \/ /\ queueSize(ring) = 0
                   /\ sem["cashiersAllBusy"] = 0 /\ waitForCashier = 1
                \/ /\ queueSize(ring) > 0
                   /\ sem["cashiersAllBusy"] = 1 /\ waitForCashier = 0

\* No cashier is on the ring twice, and the ring holds the idle cashiers and
\* those that were dismissed while they were idle.
RingOfTheIdle ==
    /\ \A i \in 1..queueSize(ring) :
          /\ ringSeq[i] \in Cashiers
          /\ \A j \in 1..queueSize(ring) : ringSeq[i] = ringSeq[j] => i = j
    /\ \A a \in Cashiers :
          /\ Idle(a) => a \in onRing
          /\ a \in onRing => Idle(a) \/ pc[a] = "exited"

\* A customer chooses one cashier that sleeps; that one is woken once.
ChosenSleep ==
    /\ \A c \in Customers :
          pc[c] \in {"unlockQueue", "post"} =>
             /\ serverID[c] \in Cashiers
             /\ pc[serverID[c]] = "sleep"
             /\ cashierAvailable[serverID[c]] = 0
    /\ \A a \in Cashiers :
          \/ cashierAvailable[a] = 0
          \/ cashierAvailable[a] = 1 /\ pc[a] = "sleep"

\* The order in which the shop closes: the last customer is served, the
\* manager is told, the staff is signalled, main() goes on.
ClosingOrder ==
    /\ sem["finish"] > 0 \/ managerPc \in {"dismiss", "exited"}
          => customersServed = Cardinality(Customers)
    /\ mainPc = "create" => managerPc = "unborn"
    /\ mainPc \in {"release", "exited"} => managerPc = "exited"
    /\ signalled # {} => managerPc \in {"dismiss", "exited"}
    /\ managerPc = "exited" => Staff \subseteq signalled
    /\ \A t \in Staff : pc[t] = "exited" => t \in signalled
    /\ mainPc = "exited" =>
          /\ \A t \in Threads : pc[t] = "exited"
          /\ \A a \in Cashiers : cashierAvailable[a] = 0

QueueInv == /\ QueueMutexes /\ CashierRequests /\ RingOfTheIdle
            /\ ChosenSleep /\ ClosingOrder /\ OrdersAddUp

-----------------------------------------------------------------------------
(* The program implements the shop of BurgerShop.tla.                      *)

\* The customers that have yet to take a cashier, the cashiers that a customer
\* has taken and that have no burger yet, and those that carry one.
outside  == {c \in Customers : pc[c] \notin {"unlockQueue", "post"} \cup Placed}
busy     == {a \in Cashiers : \/ Chosen(a)
                              \/ cashierAvailable[a] > 0
                              \/ pc[a] \in Ordered}
carrying == {a \in Cashiers : pc[a] \in Carrying}

Shop == INSTANCE BurgerShop WITH
    burgers  <- rack,
    ready    <- ringSeq,
    outside  <- outside,
    busy     <- busy,
    carrying <- carrying,
    served   <- customersServed,
    open     <- managerPc \in {"unborn", "waitFinish"}

ImplementsShop == Shop!Spec

=============================================================================
