SPECIFICATION Spec
CONSTANTS
    Versions = {v1}
    Titles = {title}
    titleOf <- OneTitle
    Parts = 1
    Products = {p1}
    Tests = {t1}
    Sessions = {s1}
    Importers = {server}
    Requests = {r1}
    Changes <- FreeAndPaid
    Budget <- OneRedelivery
INVARIANT OnePurchasePerCheckout
CHECK_DEADLOCK FALSE
