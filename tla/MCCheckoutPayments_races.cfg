SPECIFICATION Spec
CONSTANTS
    Payments = {p1, p2}
    Handlers = {h1, h2}
    MaxSets = 3
    Expiring = {}
    Kinds = {"FAILED", "CAPTURED"}
    MaxRetries = 0
    NoPayment = NoPayment
INVARIANTS OneWinner SingleReservation MoneySettled
PROPERTIES OutcomesKept
SYMMETRY Symmetry
CHECK_DEADLOCK FALSE
CONSTRAINT OneRace
