SPECIFICATION BoundedSpec
CONSTANTS
    Tab = {t1, t2}
    Session = {s1, s2}
    NoSession = NoSession
    MaxFaults = 1
    MaxUserSteps = 3
INVARIANTS
    TypeOK
    LoadSettles
PROPERTIES
    KeepsRenewing
    SessionsAreUsedAsGranted
    EndedSessionsLeaveTheTabs
    TabsAgreeWithTheCookie
\* With nobody signed in and the users at rest, nothing is left to do.
CHECK_DEADLOCK FALSE
