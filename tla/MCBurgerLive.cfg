SPECIFICATION FairSpec
CONSTANTS
    Cooks = {k1}
    Cashiers = {a1, a2}
    Customers = {c1, c2}
    racksize = 1
    MaxRack = 2
    NoThread = NoThread
PROPERTY ShopCloses
