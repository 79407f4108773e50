SPECIFICATION Spec
CONSTANTS
    Tab = {t1}
    Session = {s1}
    NoSession = NoSession
    MaxFaults = 0
PROPERTY
    SignedOutStaysSignedOut
