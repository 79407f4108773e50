SPECIFICATION Spec
CONSTANTS
    Config = {c1, c2, c3}
    Complete = {c1, c2}
    Email = {e1, e2}
    Mine = e1
    MaxCalls = 3
    MaxAttempts = 2
INVARIANTS
    TypeOK
    OneKeyOneContent
    ResendsAreOneEmail
    AcceptedIsTrue
    ShutExactlyByACall
PROPERTY
    SendsOnlyWhatWasAcknowledged
CHECK_DEADLOCK FALSE
