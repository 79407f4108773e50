SPECIFICATION Spec
CONSTANTS
    User = {u1}
    Request = {r1}
    NoRow = NoRow
    MaxRev = 3
    MaxRedeliveries = 2
PROPERTY
    DeletedStaysDeleted
