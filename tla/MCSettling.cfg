SPECIFICATION MCSpec
CONSTANTS
    a1 = a1
    Refunds = {r1, r2}
    Adjustments = {a1}
    Workers = {w1, w2}
    Captured = 2
    Tolerance = 0
    MaxTime = 5
    Required <- RequiredWhole
    NoRefund = NoRefund
    NoAdjustment = NoAdjustment
    NoReceipt = NoReceipt
    NoWorker = NoWorker
    Quantities = {2, 5}
    PlateFits = {0, 1, 3, 5}
    ParcelHolds = 4
    MAX_SLICING_JOB_ATTEMPTS = 2
    MaxConfigurations = 3
PROPERTIES WorkSettles PreparationSound
CHECK_DEADLOCK FALSE
