SPECIFICATION FairSpec
CONSTANTS
    User = {u1}
    Request = {r1, r2}
    NoRow = NoRow
    MaxRev = 3
    MaxRedeliveries = 2
INVARIANTS
    TypeOK
    AnswerNotOlderThanRemote
    RefusalMeansDeleted
PROPERTIES
    MirrorsTheProvider
    RowsConverge
