SPECIFICATION Spec
CONSTANTS
    Tab = {t1}
    Request = {r1, r2}
    Address = {a1}
    Password = {p1, p2}
    Strong = {p1}
    NoAddress = NoAddress
    NoPassword = NoPassword
    NoRequest = NoRequest
    MaxCodes = 1
    MaxLinks = 1
SYMMETRY RequestSymmetry
INVARIANTS
    TypeOK
    CodeStepHasAnAccount
    MailsOnlyToHolders
    AnswersFitTheirForm
    SessionsAreEarned
PROPERTY
    RefusalsAreTrue
