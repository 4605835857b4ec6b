SPECIFICATION FairSpec
CONSTANTS
    Jobs = {j1, j2}
    Sealed = {j2}
    Publishers = {p1, p2}
    Attempts = 2
    NoJob = NoJob
    NoPublisher = NoPublisher
INVARIANTS SealedArtifactKept CancelledStopsWork ResultsKept
PROPERTY AcceptedIsDecided
CHECK_DEADLOCK FALSE
