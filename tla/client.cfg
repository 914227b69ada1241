SPECIFICATION ClientSpec
CONSTANTS
    f1 = f1
    f2 = f2
    c1 = c1
    c2 = c2
    Fields = {f1, f2}
    Columns = {c1, c2}
    MaxRows = 2
    MaxPages = 3
    MaxSeconds = 90
    MaxCheck = 3
    FieldCounts = {0, 29, 30, 31, 32, 60}
    MaxRow = 3
    Size = 1
    MaxLeft = 1
    Since <- MCSince
INVARIANTS
    ValuedScoresKept
    TablesPricedByColumn
    ChipsComplete
    ResultPriced
    EndNoticed
    QueriesTypeOK
    WalkMissesFew
    BucketsNest
    RateIsARate
PROPERTIES
    PageShowsTheEnd
CHECK_DEADLOCK FALSE
