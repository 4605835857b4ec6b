SPECIFICATION FairSpec
CONSTANTS
    Uploads = {u1}
    Requests = {c1, c2}
    Workers = {w1}
    MaxDeadline = 2
    NoUpload = NoUpload
    NoWorker = NoWorker
INVARIANTS TypeOK BytesRetained DeletionsSound
PROPERTIES DueIsDeleted
CHECK_DEADLOCK FALSE
