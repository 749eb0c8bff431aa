----------------------------- MODULE BurgerShop -----------------------------
(***************************************************************************)
(* What the Burger Buddies program promises, without threads, mutexes or   *)
(* semaphores: the rules of Project 1/BBC/README.                          *)
(*                                                                         *)
(* Cashiers that are ready wait in line.  A customer orders from the       *)
(* cashier at the head of the line and from no other; the cashier takes a  *)
(* burger off the rack, which must have one, and serves the customer.  The *)
(* shop closes when every customer has been served, and not before.        *)
(*                                                                         *)
(* Nothing here bounds the rack: the program does not keep that promise.   *)
(***************************************************************************)
EXTENDS Integers, Sequences, FiniteSets

CONSTANTS Cashiers, Customers

VARIABLES
    burgers,   \* on the rack
    ready,     \* the line of cashiers that wait for a customer
    outside,   \* the customers that have not ordered yet
    busy,      \* the cashiers with an order and no burger
    carrying,  \* the cashiers that take a burger to their customer
    served,    \* how many customers have been served
    open

vars == <<burgers, ready, outside, busy, carrying, served, open>>

InLine(a) == \E i \in 1..Len(ready) : ready[i] = a

\* A cook makes a burger.
Make ==
    /\ burgers' = burgers + 1
    /\ UNCHANGED <<ready, outside, busy, carrying, served, open>>

\* A cashier with nothing to do joins the line.
Ready(a) ==
    /\ ~InLine(a) /\ a \notin busy \cup carrying
    /\ ready' = Append(ready, a)
    /\ UNCHANGED <<burgers, outside, busy, carrying, served, open>>

\* A customer orders from the cashier at the head of the line.
Order(c) ==
    /\ open = TRUE
    /\ c \in outside
    /\ ready # <<>>
    /\ outside' = outside \ {c}
    /\ busy' = busy \cup {Head(ready)}
    /\ ready' = Tail(ready)
    /\ UNCHANGED <<burgers, carrying, served, open>>

\* A cashier takes the burger its order is for.
Take(a) ==
    /\ open = TRUE
    /\ a \in busy
    /\ burgers > 0
    /\ burgers' = burgers - 1
    /\ busy' = busy \ {a}
    /\ carrying' = carrying \cup {a}
    /\ UNCHANGED <<ready, outside, served, open>>

\* The customer gets the burger.
Serve(a) ==
    /\ open = TRUE
    /\ a \in carrying
    /\ carrying' = carrying \ {a}
    /\ served' = served + 1
    /\ UNCHANGED <<burgers, ready, outside, busy, open>>

Close ==
    /\ open = TRUE
    /\ served = Cardinality(Customers)
    /\ outside = {} /\ busy = {} /\ carrying = {}
    /\ open' = FALSE
    /\ UNCHANGED <<burgers, ready, outside, busy, carrying, served>>

Init ==
    /\ burgers = 0 /\ ready = <<>> /\ outside = Customers
    /\ busy = {} /\ carrying = {} /\ served = 0 /\ open = TRUE

Next ==
    \/ Make
    \/ \E a \in Cashiers : Ready(a) \/ Take(a) \/ Serve(a)
    \/ \E c \in Customers : Order(c)
    \/ Close

Spec == Init /\ [][Next]_vars

=============================================================================
