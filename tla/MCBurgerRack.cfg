SPECIFICATION Spec
CONSTANTS
    Cooks = {k1}
    Cashiers = {a1}
    Customers = {c1, c2}
    racksize = 2
    MaxRack = 4
    NoThread = NoThread
INVARIANT RackNeverOverfull
