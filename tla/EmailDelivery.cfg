SPECIFICATION FairSpec
CONSTANTS
    Request = {r1, r2, r3}
    Key = {k1}
    NoKey = NoKey
    Content = {c1, c2}
    Nobody = Nobody
    MaxRestarts = 1
INVARIANTS
    TypeOK
    OneLeaderPerKey
    NoEntryLeaks
PROPERTIES
    KeepsThePromise
    FollowersAreAnswered
CHECK_DEADLOCK FALSE
