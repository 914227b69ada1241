SPECIFICATION RunnerSpec
CONSTANTS
    j1 = j1
    j2 = j2
    s1 = s1
    s2 = s2
    w1 = w1
    w2 = w2
    None = None
    NoRow = NoRow
    Jobs = {j1}
    Slots = {s1, s2}
    Workers = {w1, w2}
    WorkerOf <- TwoWorkers
    AwsErrors = {"AccessDeniedException"}
    MaxTries = 1
    InvokeTransients <- RetriedByInvoke
    PollTransients <- RetriedByPoll
    Faults = {"worker_crash", "connection_loss", "child_kill", "soft_limit", "db_error"}
SYMMETRY SlotSymmetry
CHECK_DEADLOCK FALSE
INVARIANTS
    NoOrphan
    SettledRowsComplete
    RowAgreesWithBda
    ArnOnRow
PROPERTIES
    ExtractionIsStable
    RunsAgain
