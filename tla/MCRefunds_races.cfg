SPECIFICATION MCSpec
CONSTANTS
    a1 = a1  a2 = a2  s1 = s1  s2 = s2  p1 = p1  p2 = p2
    w1 = w1  w2 = w2  o1 = o1  o2 = o2  k1 = k1  k2 = k2
    Refunds = {r1, r2}
    Adjustments = {a1, a2}
    Workers = {w1, w2}
    Captured = 2
    Tolerance = 1
    MaxTime = 6
    Required <- RequiredShared
    NoRefund = NoRefund
    NoAdjustment = NoAdjustment
    NoReceipt = NoReceipt
    NoWorker = NoWorker
    Slots = {s1, s2}
    Parcels = {p1, p2}
    MaxReplacements = 1
    RecoveryKinds = {"JOB_REPLACEMENT", "LOST_CLAIM_REPRINT"}
    SourceJobs = {1, 2}
    OneJob = 1
    SourceNeeds <- MCSourceNeeds
    RecoveryLots = {1}
    LotSize = 2
    RecoveryWindows = {2, 4}
    Operators = {o1, o2}
    Keys = {k1, k2}
    PreparationTTL = 2
    SelectionMargin = 1
    EstimateTTL = 2
    Deadline = 2
    MaxPreparations = 2
    MaxScope = 2
    MaxResources = 2
    MaxRecoveryTime = 2
INVARIANTS AtMostOneRequest LineageSound MoneySound OrderSound RecoverySound
PROPERTIES HistoryPreserved
CHECK_DEADLOCK FALSE
SYMMETRY Symmetry
