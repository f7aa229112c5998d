SPECIFICATION FairSpec
CONSTANTS
    Versions = {v1, v2}
    Titles = {title}
    titleOf <- OneTitle
    Parts = 1
    Products = {p1, p2}
    Tests = {t1, t2}
    Sessions = {s1}
    Importers = {server, command}
    Requests = {r1, r2}
    Changes <- FreeAndPaid
    Budget <- Trading
INVARIANT TypeOK
INVARIANT OfferedIsComplete
INVARIANT ImportedOnce
INVARIANT SoldStays
PROPERTY SellableStays
PROPERTY PaidIsServed
CHECK_DEADLOCK FALSE
