SPECIFICATION MCSpec
CONSTANTS
    Refunds = {r1, r2, r3}
    NoRefund = NoRefund
    Captured = 2
    MaxEvents = 5
    ClaimSlots = {c1, c2}
    MaxRemedies = 2
    MaxCommands = 4
    Lifetimes = {1, 2}
    MaxQuotes = 2
    MaxQuoteTime = 2
    Calls = {c1, c2}
    Configs <- ItemConfigs
    Endpoints = {e1}
    Packeta = TRUE
    MaxRevision = 5
    MaxChanges = 2
    MaxCandidates = 1
SYMMETRY MCSymmetry
CHECK_DEADLOCK FALSE
INVARIANTS PaymentSound ClaimSound QuoteDecidedAsSeen BindingSound PaidKeepsReservation
