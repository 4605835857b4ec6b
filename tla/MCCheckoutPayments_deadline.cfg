SPECIFICATION FairSpec
CONSTANTS
    Payments = {p1}
    Handlers = {h1}
    MaxSets = 2
    Expiring = {p1}
    Kinds = {"PENDING", "FAILED", "CAPTURED"}
    MaxRetries = 1
    NoPayment = NoPayment
INVARIANTS ClosedIsClosed
PROPERTIES CheckoutSettles
CHECK_DEADLOCK FALSE
