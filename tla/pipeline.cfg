SPECIFICATION PipelineSpec
CONSTANTS
    r1 = r1
    r2 = r2
    s1 = s1
    w1 = w1
    None = None
    NoRow = NoRow
    Jobs = {j1, j2}
    Requests = {r1, r2}
    Files <- FilesOf
    MaxBatch = 2
    Copies = {1, 2}
    Slots = {s1}
    Workers = {w1}
    WorkerOf <- OneSlot
    AwsErrors = {}
    MaxTries = 1
    InvokeTransients = {}
    PollTransients = {}
    Faults = {"child_kill"}
SYMMETRY Symmetry
CHECK_DEADLOCK FALSE
INVARIANTS
    PipelineTypeOK
    RowBeforeMessage
    AuditTellsTheTruth
    NoJobForgotten
    AcceptedIsProcessed
    WorkHasItsInput
