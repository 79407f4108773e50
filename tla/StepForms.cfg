SPECIFICATION Spec
CONSTANTS
    Country = {c1, c2}
    NaN = NaN
    Null = Null
    NoForm = NoForm
    MoneyLimit = 3
    RowLimit = 2
    Total = 4
    Edits <- MCEdits
    Amount = {0, 1, 3}
    HalfShare = {0, 3, 6, 11}
    Day = {1, 2}
    MaxRows <- MCMaxRows
    Start = {0, 2, 7}
INVARIANTS
    TypeOK
    ReadyFailsOnlyByDate
    ApiRefusesOnlyTheGap
    OneFinalRow
    MixIsShown
    
