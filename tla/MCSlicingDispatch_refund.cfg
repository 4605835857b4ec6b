SPECIFICATION Spec
CONSTANTS
    Jobs = {j1, j2}
    Sealed = {j2}
    Publishers = {p1}
    Attempts = 2
    NoJob = NoJob
    NoPublisher = NoPublisher
INVARIANT RefundDispatchable
SYMMETRY Alike
CHECK_DEADLOCK FALSE
