SPECIFICATION StoreSpec
CONSTANTS
    r1 = r1  r2 = r2  r3 = r3  l1 = l1  l2 = l2
    Requests = {r1, r2, r3}
    Loaders = {l1, l2}
    Setups <- MCSetups
SYMMETRY MCSymmetry
INVARIANTS StoreTypeOK NoOrphans Counted WholeVersion NotStuckUpserting
\* All requests have been served.
CHECK_DEADLOCK FALSE
