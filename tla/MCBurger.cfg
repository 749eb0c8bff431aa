SPECIFICATION Spec
CONSTANTS
    Cooks = {k1, k2}
    Cashiers = {a1, a2}
    Customers = {c1, c2, c3}
    racksize = 1
    MaxRack = 3
    NoThread = NoThread
SYMMETRY ThreadSymmetry
INVARIANTS TypeOK RackNotNegative NoLostRackWakeup NoLostQueueWakeup RingHoldsTheIdle CashierIsReady OrdersAddUp ClosesWhenServed ReleasedAfterDismissal
PROPERTY ImplementsShop
